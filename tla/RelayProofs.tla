---------------------------- MODULE RelayProofs -----------------------------
(***************************************************************************)
(* What holds of the relay as a whole, in this order:                      *)
(*   - the handlers implement the database's specification, whatever       *)
(*     requests interleave, fail or are cut short;                         *)
(*   - a restart rebuilds the kernel state before the relay serves;        *)
(*   - the types of the requests in flight;                                *)
(*   - one request at a time, no synthetic block leaks;                    *)
(*   - only members of a zone announce into it;                            *)
(*   - one request at a time, the kernel is a mirror of the database.      *)
(***************************************************************************)
EXTENDS Relay, StoreProofs

RegisterJob ==
    [pc : {"insertNode", "realloc"}, u : Nat, nm : NodeNames, k : Keys, pf : Platforms,
     tries : Nat, ip : FirstIP .. LastIP]

\* What a request carries from an earlier step into a transaction has the type
\* of the column it is written to.
Carries(j) ==
    /\ "pc" \in DOMAIN j
    /\ j.pc \in {"insertNode", "realloc"} => j \in RegisterJob
    /\ j.pc = "insertZone" => j.nm \in ZoneNames /\ j.h \in Hashes
    /\ j.pc = "setPassword" => j.h \in Hashes
    /\ j.pc = "announce" => j.r \in RealBlocks

JobInv == DOMAIN job = Procs /\ \A p \in Procs : Carries(job[p])

-----------------------------------------------------------------------------
(* What a step does to the jobs *)

\* A request moves on to a job that carries what it should.
LEMMA GoCarries ==
    ASSUME JobInv, NEW p \in Procs, NEW j, Carries(j), Go(p, j)
    PROVE  JobInv'
  BY DEF JobInv, Go

\* A request is answered.
LEMMA DoneCarries ==
    ASSUME JobInv, NEW p \in Procs, Done(p)
    PROVE  JobInv'
<1>1. Carries(Idle)
  BY DEF Carries, Idle
<1> QED
  BY <1>1, GoCarries DEF Done

\* A request turns to its best-effort calls.
LEMMA BestEffortCarries ==
    ASSUME JobInv, NEW p \in Procs, NEW todo, BestEffort(p, todo)
    PROVE  JobInv'
<1>1. Carries(Idle) /\ Carries([pc |-> "todo", todo |-> todo])
  BY DEF Carries, Idle
<1>2. CASE todo = <<>>
  BY <1>1, <1>2, GoCarries DEF BestEffort
<1>3. CASE todo # <<>>
  BY <1>1, <1>3, GoCarries DEF BestEffort
<1> QED
  BY <1>2, <1>3

-----------------------------------------------------------------------------
(* The transactions a step makes are the store's *)

\* A free address is an address of the pool.
LEMMA FreeInPool ==
    ASSUME IInv, LowestFree(TakenIPs, FirstIP, LastIP) # NoAddr
    PROVE  LowestFree(TakenIPs, FirstIP, LastIP) \in FirstIP .. LastIP
<1> DEFINE all == (FirstIP .. LastIP) \ TakenIPs
<1>1. TakenIPs \in SUBSET Nat
  BY StoreAssumption DEF IInv, StoreTypeOK, TakenIPs, NodeRow
<1>2. LowestFree(TakenIPs, FirstIP, LastIP) = IF all = {} THEN NoAddr ELSE Min(all)
  BY <1>1, LowestFreeCorrect, StoreAssumption
<1>3. all # {} => Min(all) \in all
  BY MinOfNats, StoreAssumption
<1> QED
  BY <1>2, <1>3

\* Leaving names live rows, by the foreign keys of zone_members.
LEMMA LeaveIsStep ==
    ASSUME IInv, NEW z, NEW n, Leave(z, n) PROVE NextStore
<1>1. z \in DOMAIN zone /\ n \in DOMAIN node
  BY DEF Leave, IInv, ReferentialIntegrity
<1> QED
  BY <1>1 DEF NextStore, NextZones

\* Detaching names live rows, by the foreign keys of announcement_zones.
LEMMA DetachIsStep ==
    ASSUME IInv, NEW a, NEW z, Detach(a, z) PROVE NextStore
<1>1. a \in DOMAIN ann /\ z \in DOMAIN zone
  BY DEF Detach, IInv, ReferentialIntegrity
<1> QED
  BY <1>1 DEF NextStore, NextAnns

\* Detaching nothing changes nothing.
LEMMA DetachNothing ==
    ASSUME IInv, DetachSet({}) PROVE UNCHANGED dbvars
  BY DEF IInv, StoreTypeOK, DetachSet, Reclaimed, Without, dbvars

\* The cascade of a zone exit, also when the zone or the node is gone by now.
LEMMA DetachNodeZoneIsStep ==
    ASSUME IInv, NEW n, NEW z, DetachAllForNodeZone(n, z) PROVE [NextStore]_dbvars
<1>1. CASE z \in DOMAIN zone /\ n \in DOMAIN node
  BY <1>1 DEF NextStore, NextAnns
<1>2. CASE ~ (z \in DOMAIN zone /\ n \in DOMAIN node)
  <2>1. OfNodeZone(n, z) = {}
    BY <1>2 DEF OfNodeZone, IInv, ReferentialIntegrity
  <2> QED
    BY <2>1, DetachNothing DEF DetachAllForNodeZone
<1> QED
  BY <1>1, <1>2

\* The detach of a zone's deletion, also when another request deleted it first.
LEMMA DetachZoneIsStep ==
    ASSUME IInv, NEW z, DetachAllForZone(z) PROVE [NextStore]_dbvars
<1>1. CASE z \in DOMAIN zone
  BY <1>1 DEF NextStore, NextAnns
<1>2. CASE z \notin DOMAIN zone
  <2>1. OfZone(z) = {}
    BY <1>2 DEF OfZone, IInv, ReferentialIntegrity
  <2> QED
    BY <2>1, DetachNothing DEF DetachAllForZone
<1> QED
  BY <1>1, <1>2

-----------------------------------------------------------------------------
(* One lemma per handler *)

\* registerNode.
LEMMA RegisterSteps ==
    ASSUME IInv, JobInv, NEW p \in Procs,
           \/ RegisterStart(p) \/ RegisterInsert(p) \/ RegisterRealloc(p)
           \/ RegisterAddPeer(p) \/ RegisterUndo(p)
    PROVE  [NextStore]_dbvars /\ JobInv'
<1> DEFINE free == LowestFree(TakenIPs, FirstIP, LastIP)
<1>1. CASE RegisterStart(p)
  <2>1. PICK u \in DOMAIN user, nm \in NodeNames, k \in Keys, pf \in Platforms :
           Go(p, [pc |-> "insertNode", u |-> u, nm |-> nm, k |-> k, pf |-> pf, tries |-> 1,
                  ip |-> free])
    BY <1>1 DEF RegisterStart
  <2>2. u \in Nat /\ free \in FirstIP .. LastIP
    BY <1>1, FreeInPool DEF RegisterStart, IInv, StoreTypeOK
  <2> HIDE DEF free
  <2>3. Carries([pc |-> "insertNode", u |-> u, nm |-> nm, k |-> k, pf |-> pf, tries |-> 1,
                 ip |-> free])
    BY <2>2 DEF Carries, RegisterJob
  <2>4. JobInv'
    BY <2>1, <2>3, GoCarries
  <2> QED
    BY <1>1, <2>4 DEF RegisterStart, NoDb
<1>2. CASE RegisterInsert(p)
  <2> DEFINE j == job[p]
  <2>1. j \in RegisterJob /\ j.pc = "insertNode"
    BY <1>2 DEF RegisterInsert, At, JobInv, Carries
  <2>2. CASE InsertNode(j.u, j.nm, j.k, j.ip, j.pf)
             /\ Go(p, [pc |-> "addPeer", n |-> lastId.node + 1, k |-> j.k, ip |-> j.ip])
    <3>1. j.u \in DOMAIN user
      BY <2>2 DEF InsertNode, NodeInsertable
    <3>2. NextStore
      BY <2>1, <2>2, <3>1 DEF RegisterJob, NextStore, NextNodes
    <3>3. Carries([pc |-> "addPeer", n |-> lastId.node + 1, k |-> j.k, ip |-> j.ip])
      BY DEF Carries
    <3> QED
      BY <2>2, <3>2, <3>3, GoCarries
  <2>3. CASE Done(p) /\ NoDb
    BY <2>3, DoneCarries DEF NoDb
  <2>4. CASE /\ j.tries < MaxAllocRetries
             /\ Go(p, [j EXCEPT !.pc = "realloc", !.tries = @ + 1]) /\ NoDb
    <3>1. [j EXCEPT !.pc = "realloc", !.tries = @ + 1] \in RegisterJob
      <4>1. j.tries + 1 \in Nat
        BY <2>1 DEF RegisterJob
      <4>2. \A x \in RegisterJob, t \in Nat :
               [x EXCEPT !.pc = "realloc", !.tries = t] \in RegisterJob
        BY DEF RegisterJob
      <4> QED
        BY <2>1, <4>1, <4>2
    <3>2. Carries([j EXCEPT !.pc = "realloc", !.tries = @ + 1])
      BY <3>1, <2>1 DEF Carries, RegisterJob
    <3> QED
      BY <2>4, <3>2, GoCarries DEF NoDb
  <2> QED
    BY <1>2, <2>2, <2>3, <2>4 DEF RegisterInsert
<1>3. CASE RegisterRealloc(p)
  <2> DEFINE j == job[p]
  <2>1. j \in RegisterJob
    BY <1>3 DEF RegisterRealloc, At, JobInv, Carries
  <2>2. CASE Done(p)
    BY <1>3, <2>2, DoneCarries DEF RegisterRealloc, NoDb
  <2>3. CASE free # NoAddr /\ Go(p, [j EXCEPT !.pc = "insertNode", !.ip = free])
    <3>1. free \in FirstIP .. LastIP
      BY <2>3, FreeInPool
    <3> HIDE DEF free
    <3>2. [j EXCEPT !.pc = "insertNode", !.ip = free] \in RegisterJob
      BY <2>1, <3>1 DEF RegisterJob
    <3>3. Carries([j EXCEPT !.pc = "insertNode", !.ip = free])
      BY <2>1, <3>2 DEF Carries, RegisterJob
    <3>4. JobInv'
      BY <2>3, <3>3, GoCarries
    <3> QED
      BY <1>3, <3>4 DEF RegisterRealloc, NoDb
  <2> QED
    BY <1>3, <2>2, <2>3 DEF RegisterRealloc
<1>4. CASE RegisterAddPeer(p)
  <2>1. Carries([pc |-> "undoNode", n |-> job[p].n])
    BY DEF Carries
  <2> QED
    BY <1>4, <2>1, GoCarries, DoneCarries DEF RegisterAddPeer, NoDb
<1>5. CASE RegisterUndo(p)
  <2>1. [NextStore]_dbvars
    BY <1>5 DEF RegisterUndo, NoDb, NextStore, NextNodes
  <2> QED
    BY <1>5, <2>1, DoneCarries DEF RegisterUndo
<1> QED
  BY <1>1, <1>2, <1>3, <1>4, <1>5

\* deleteNode.
LEMMA DeleteNodeSteps ==
    ASSUME IInv, JobInv, NEW p \in Procs,
           \/ DeleteNodeStart(p) \/ DeleteNodeSnapshot(p) \/ DeleteNodeLookup(p)
           \/ DeleteNodeRow(p)
    PROVE  [NextStore]_dbvars /\ JobInv'
<1>1. CASE DeleteNodeStart(p)
  <2>1. PICK n \in DOMAIN node :
           Go(p, [pc |-> "snapshot", n |-> n, k |-> node[n].key, ip |-> node[n].ip,
                  zs |-> {z \in DOMAIN zone : <<z, n>> \in member}])
    BY <1>1 DEF DeleteNodeStart
  <2>2. Carries([pc |-> "snapshot", n |-> n, k |-> node[n].key, ip |-> node[n].ip,
                 zs |-> {z \in DOMAIN zone : <<z, n>> \in member}])
    BY DEF Carries
  <2> QED
    BY <1>1, <2>1, <2>2, GoCarries DEF DeleteNodeStart, NoDb
<1>2. CASE DeleteNodeSnapshot(p)
  <2> DEFINE j == job[p]
             rs == {<<t[2], ann[t[1]].synth>> : t \in {x \in att : ann[x[1]].node = j.n}}
  <2>1. Carries([pc |-> "lookup", n |-> j.n, k |-> j.k, ip |-> j.ip, zs |-> j.zs, rs |-> rs])
    BY DEF Carries
  <2> QED
    BY <1>2, <2>1, GoCarries, DoneCarries DEF DeleteNodeSnapshot, NoDb
<1>3. CASE DeleteNodeLookup(p)
  <2>1. Carries([job[p] EXCEPT !.pc = "deleteNode"])
    BY DEF JobInv, Carries
  <2> QED
    BY <1>3, <2>1, GoCarries, DoneCarries DEF DeleteNodeLookup, NoDb
<1>4. CASE DeleteNodeRow(p)
  <2>1. [NextStore]_dbvars
    BY <1>4 DEF DeleteNodeRow, NoDb, NextStore, NextNodes
  <2> QED
    BY <1>4, <2>1, BestEffortCarries, DoneCarries DEF DeleteNodeRow
<1> QED
  BY <1>1, <1>2, <1>3, <1>4

\* createZone.
LEMMA CreateZoneSteps ==
    ASSUME IInv, JobInv, NEW p \in Procs,
           \/ CreateZoneStart(p) \/ CreateZoneInsert(p) \/ CreateZoneAddZone(p)
           \/ CreateZoneJoin(p) \/ CreateZoneMember(p) \/ CreateZoneUndo(p)
    PROVE  [NextStore]_dbvars /\ JobInv'
<1> DEFINE j == job[p]
<1>0. \A z : Carries(Rollback(z))
  BY DEF Carries, Rollback
<1>1. CASE CreateZoneStart(p)
  <2>1. PICK u \in DOMAIN user, nm \in ZoneNames, h \in Hashes :
           \E n \in {0} \cup NodesOf(u) :
              Go(p, [pc |-> "insertZone", u |-> u, nm |-> nm, h |-> h, n |-> n,
                     ip |-> IF n = 0 THEN NoAddr ELSE node[n].ip])
    BY <1>1 DEF CreateZoneStart
  <2>2. \A n, ip : Carries([pc |-> "insertZone", u |-> u, nm |-> nm, h |-> h, n |-> n, ip |-> ip])
    BY DEF Carries
  <2>3. JobInv'
    BY <2>1, <2>2, GoCarries
  <2> QED
    BY <1>1, <2>3 DEF CreateZoneStart, NoDb
<1>2. CASE CreateZoneInsert(p)
  <2>1. j.nm \in ZoneNames /\ j.h \in Hashes
    BY <1>2 DEF CreateZoneInsert, At, JobInv, Carries
  <2>2. [NextStore]_dbvars
    BY <1>2, <2>1 DEF CreateZoneInsert, InsertZone, ZoneInsertable, NoDb, NextStore, NextZones
  <2>3. Carries([pc |-> "addZone", z |-> lastId.zone + 1, n |-> j.n, ip |-> j.ip])
    BY DEF Carries
  <2> QED
    BY <1>2, <2>2, <2>3, GoCarries, DoneCarries DEF CreateZoneInsert
<1>3. CASE CreateZoneAddZone(p)
  <2>1. Carries([j EXCEPT !.pc = "autoJoin"])
    BY DEF JobInv, Carries
  <2>2. Carries([pc |-> "undoZone", z |-> j.z, todo |-> <<>>])
    BY DEF Carries
  <2> QED
    BY <1>3, <2>1, <2>2, GoCarries, DoneCarries DEF CreateZoneAddZone, NoDb
<1>4. CASE CreateZoneJoin(p)
  <2>1. Carries([j EXCEPT !.pc = "autoMember"])
    BY DEF JobInv, Carries
  <2>2. [NextStore]_dbvars
    BY <1>4 DEF CreateZoneJoin, Join, NoDb, NextStore, NextZones
  <2> QED
    BY <1>0, <1>4, <2>1, <2>2, GoCarries DEF CreateZoneJoin
<1>5. CASE CreateZoneMember(p)
  BY <1>0, <1>5, GoCarries, DoneCarries DEF CreateZoneMember, NoDb
<1>6. CASE CreateZoneUndo(p)
  <2>1. [NextStore]_dbvars
    BY <1>6 DEF CreateZoneUndo, NoDb, NextStore, NextZones
  <2> QED
    BY <1>6, <2>1, BestEffortCarries DEF CreateZoneUndo
<1> QED
  BY <1>1, <1>2, <1>3, <1>4, <1>5, <1>6

\* joinZone, leaveZone, kickMember, changeZonePassword.
LEMMA MembershipSteps ==
    ASSUME IInv, JobInv, NEW p \in Procs,
           \/ JoinStart(p) \/ JoinRow(p) \/ JoinMember(p) \/ JoinUndo(p)
           \/ LeaveStart(p) \/ KickStart(p) \/ LeaveRow(p)
           \/ PasswordStart(p) \/ PasswordUpdate(p)
    PROVE  [NextStore]_dbvars /\ JobInv'
<1> DEFINE j == job[p]
<1>0. \A z, n : Exit(p, z, n) => JobInv'
  <2>1. \A z, n, k, ip : Carries([pc |-> "leave", z |-> z, n |-> n, k |-> k, ip |-> ip])
    BY DEF Carries
  <2> QED
    BY <2>1, GoCarries DEF Exit
<1>1. CASE JoinStart(p)
  <2>1. \A z, n, ip : Carries([pc |-> "join", z |-> z, n |-> n, ip |-> ip])
    BY DEF Carries
  <2> QED
    BY <1>1, <2>1, GoCarries DEF JoinStart, NoDb
<1>2. CASE JoinRow(p)
  <2>1. Carries([j EXCEPT !.pc = "addMember"])
    BY DEF JobInv, Carries
  <2>2. [NextStore]_dbvars
    BY <1>2 DEF JoinRow, Join, NoDb, NextStore, NextZones
  <2> QED
    BY <1>2, <2>1, <2>2, GoCarries, DoneCarries DEF JoinRow
<1>3. CASE JoinMember(p)
  <2>1. Carries([j EXCEPT !.pc = "undoJoin"])
    BY DEF JobInv, Carries
  <2> QED
    BY <1>3, <2>1, GoCarries, DoneCarries DEF JoinMember, NoDb
<1>4. CASE JoinUndo(p)
  BY <1>4, LeaveIsStep, DoneCarries DEF JoinUndo, NoDb
<1>5. CASE LeaveStart(p)
  BY <1>0, <1>5 DEF LeaveStart, NoDb
<1>6. CASE KickStart(p)
  BY <1>0, <1>6 DEF KickStart, NoDb
<1>7. CASE LeaveRow(p)
  BY <1>7, LeaveIsStep, BestEffortCarries, DoneCarries DEF LeaveRow, NoDb
<1>8. CASE PasswordStart(p)
  <2>2. PICK z \in DOMAIN zone, h \in Hashes : Go(p, [pc |-> "setPassword", z |-> z, h |-> h])
    BY <1>8 DEF PasswordStart
  <2>3. Carries([pc |-> "setPassword", z |-> z, h |-> h])
    BY DEF Carries
  <2> QED
    BY <1>8, <2>2, <2>3, GoCarries DEF PasswordStart, NoDb
<1>9. CASE PasswordUpdate(p)
  <2>1. j.h \in Hashes
    BY <1>9 DEF PasswordUpdate, At, JobInv, Carries
  <2>2. [NextStore]_dbvars
    BY <1>9, <2>1 DEF PasswordUpdate, NoDb, NextStore, NextZones
  <2> QED
    BY <1>9, <2>2, DoneCarries DEF PasswordUpdate
<1> QED
  BY <1>1, <1>2, <1>3, <1>4, <1>5, <1>6, <1>7, <1>8, <1>9

\* deleteZone.
LEMMA DeleteZoneSteps ==
    ASSUME IInv, JobInv, NEW p \in Procs,
           DeleteZoneStart(p) \/ DeleteZoneDetach(p) \/ DeleteZoneRow(p)
    PROVE  [NextStore]_dbvars /\ JobInv'
<1>1. CASE DeleteZoneStart(p)
  <2>1. \A z : Carries([pc |-> "detachZone", z |-> z])
    BY DEF Carries
  <2> QED
    BY <1>1, <2>1, GoCarries DEF DeleteZoneStart, NoDb
<1>2. CASE DeleteZoneDetach(p)
  <2>1. \A z, ns : Carries([pc |-> "deleteZone", z |-> z, ns |-> ns])
    BY DEF Carries
  <2> QED
    BY <1>2, <2>1, GoCarries, DoneCarries, DetachZoneIsStep DEF DeleteZoneDetach, NoDb
<1>3. CASE DeleteZoneRow(p)
  <2>1. [NextStore]_dbvars
    BY <1>3 DEF DeleteZoneRow, NoDb, NextStore, NextZones
  <2> QED
    BY <1>3, <2>1, BestEffortCarries, DoneCarries DEF DeleteZoneRow
<1> QED
  BY <1>1, <1>2, <1>3

\* createAnnouncement, deleteAnnouncement.
LEMMA AnnouncementSteps ==
    ASSUME IInv, JobInv, NEW p \in Procs,
           \/ AnnounceStart(p) \/ AnnounceTx(p) \/ AnnounceRoutes(p) \/ AnnouncePeer(p)
           \/ AnnounceZoneRoute(p) \/ AnnounceUndo(p)
           \/ WithdrawStart(p) \/ WithdrawDetach(p)
    PROVE  [NextStore]_dbvars /\ JobInv'
<1> DEFINE j == job[p]
<1>0. /\ \A a, b : Carries(Growing(j, a, b))
      /\ \A a, b : Carries([Growing(j, a, b) EXCEPT !.pc = "addRoute"])
      /\ Carries(Undo(j))
  BY DEF Carries, Growing, Undo
<1>1. CASE AnnounceStart(p)
  <2>1. PICK z \in DOMAIN zone, n \in DOMAIN node, r \in RealBlocks :
           Go(p, [pc |-> "announce", z |-> z, n |-> n, r |-> r, k |-> node[n].key,
                  ip |-> node[n].ip])
    BY <1>1 DEF AnnounceStart
  <2>2. Carries([pc |-> "announce", z |-> z, n |-> n, r |-> r, k |-> node[n].key,
                 ip |-> node[n].ip])
    BY DEF Carries
  <2> QED
    BY <1>1, <2>1, <2>2, GoCarries DEF AnnounceStart, NoDb
<1>2. CASE AnnounceTx(p)
  <2>1. j.r \in RealBlocks
    BY <1>2 DEF AnnounceTx, At, JobInv, Carries
  <2>2. <<j.z, j.n>> \in member => j.z \in DOMAIN zone /\ j.n \in DOMAIN node
    BY DEF IInv, ReferentialIntegrity
  <2>3. CASE Announce(j.n, j.r, j.z)
    <3>1. NextStore
      BY <2>1, <2>2, <2>3 DEF Announce, Announceable, NextStore, NextAnns
    <3>2. \E b : Go(p, Growing(j, lastId.ann + 1, b)) \/ Done(p)
               \/ \E a : Go(p, Growing(j, a, b))
      BY <1>2 DEF AnnounceTx
    <3> QED
      BY <1>0, <3>1, <3>2, GoCarries, DoneCarries
  <2>4. CASE AttachAgain(j.n, j.r, j.z)
    <3>1. NextStore
      BY <2>1, <2>2, <2>4 DEF AttachAgain, NextStore, NextAnns
    <3>2. \E b : Go(p, Growing(j, lastId.ann + 1, b)) \/ Done(p)
               \/ \E a : Go(p, Growing(j, a, b))
      BY <1>2 DEF AnnounceTx
    <3> QED
      BY <1>0, <3>1, <3>2, GoCarries, DoneCarries
  <2>5. CASE Done(p) /\ NoDb
    BY <2>5, DoneCarries DEF NoDb
  <2> QED
    BY <1>2, <2>3, <2>4, <2>5 DEF AnnounceTx
<1>3. CASE AnnounceRoutes(p)
  <2>1. \A rs : Carries([pc |-> "setRoutes", z |-> j.z, n |-> j.n, k |-> j.k, ip |-> j.ip,
                        a |-> j.a, b |-> j.b, rs |-> rs])
    BY DEF Carries
  <2> QED
    BY <1>0, <1>3, <2>1, GoCarries DEF AnnounceRoutes, NoDb
<1>4. CASE AnnouncePeer(p)
  BY <1>0, <1>4, GoCarries DEF AnnouncePeer, NoDb
<1>5. CASE AnnounceZoneRoute(p)
  BY <1>0, <1>5, GoCarries, DoneCarries DEF AnnounceZoneRoute, NoDb
<1>6. CASE AnnounceUndo(p)
  BY <1>6, DetachIsStep, BestEffortCarries, DoneCarries DEF AnnounceUndo, NoDb
<1>7. CASE WithdrawStart(p)
  <2>1. \A z, a, b, n, k, ip :
           Carries([pc |-> "withdraw", z |-> z, a |-> a, b |-> b, n |-> n, k |-> k, ip |-> ip])
    BY DEF Carries
  <2> QED
    BY <1>7, <2>1, GoCarries DEF WithdrawStart, NoDb
<1>8. CASE WithdrawDetach(p)
  BY <1>8, DetachIsStep, BestEffortCarries, DoneCarries DEF WithdrawDetach, NoDb
<1> QED
  BY <1>1, <1>2, <1>3, <1>4, <1>5, <1>6, <1>7, <1>8

\* deleteUser, and the best-effort calls of every handler.
LEMMA TailSteps ==
    ASSUME IInv, JobInv, NEW p \in Procs,
           DeleteUserStart(p) \/ TodoKernel(p) \/ TodoRecompute(p) \/ TodoDetach(p)
    PROVE  [NextStore]_dbvars /\ JobInv'
<1>1. CASE DeleteUserStart(p)
  <2>1. PICK t \in DOMAIN user : DeleteUser(t) /\ BestEffort(p, UserCleanup(t))
    BY <1>1 DEF DeleteUserStart
  <2> QED
    BY <2>1, BestEffortCarries DEF NextStore, NextUsers
<1>2. CASE TodoKernel(p)
  BY <1>2, BestEffortCarries DEF TodoKernel, NoDb
<1>3. CASE TodoRecompute(p)
  BY <1>3, BestEffortCarries DEF TodoRecompute, NoDb
<1>4. CASE TodoDetach(p)
  BY <1>4, DetachNodeZoneIsStep, BestEffortCarries DEF TodoDetach, NoDb
<1> QED
  BY <1>1, <1>2, <1>3, <1>4

-----------------------------------------------------------------------------

\* Every step of the relay is a transaction of the store or leaves the database
\* alone, and requests go on carrying values of the columns' types.
LEMMA RelayStep ==
    ASSUME IInv, JobInv, [NextRelay]_rvars
    PROVE  [NextStore]_dbvars /\ JobInv'
<1>1. CASE \E p \in Procs : Start(p) \/ Step(p)
  BY <1>1, RegisterSteps, DeleteNodeSteps, CreateZoneSteps, MembershipSteps, DeleteZoneSteps,
     AnnouncementSteps, TailSteps DEF Start, Step
<1>2. CASE NewUser
  BY <1>2 DEF NewUser, NextStore, NextUsers, JobInv
<1>3. CASE Crash
  <2>1. JobInv'
    BY <1>3 DEF Crash, JobInv, Carries, Idle
  <2> QED
    BY <1>3, <2>1 DEF Crash, NoDb
<1>4. CASE Boot
  BY <1>4 DEF Boot, BootInterface, BootPeers, BootClear, BootBuild, BootStep, NoDb, JobInv
<1>5. CASE UNCHANGED rvars
  BY <1>5 DEF rvars, dbvars, JobInv
<1> QED
  BY <1>1, <1>2, <1>3, <1>4, <1>5 DEF NextRelay

(***************************************************************************)
(* The relay implements the database's specification: whatever handlers    *)
(* run concurrently, whatever calls fail and wherever the process is       *)
(* killed, the database changes only by whole transactions of the store.   *)
(***************************************************************************)
THEOREM RelayImplementsStore == SpecRelay => SpecStore
<1>1. InitRelay => InitStore /\ IInv /\ JobInv
  <2>1. InitRelay => JobInv
    BY DEF InitRelay, JobInv, Carries, Idle
  <2> QED
    BY <2>1, InitEstablishes DEF InitRelay
<1>2. IInv /\ JobInv /\ [NextRelay]_rvars => [NextStore]_dbvars /\ IInv' /\ JobInv'
  BY RelayStep, NextPreserves
<1> QED
  BY <1>1, <1>2, PTL DEF SpecRelay, SpecStore

(***************************************************************************)
(* So what concurrent handlers leave in the database is consistent: no two *)
(* nodes share an address or a key, no synthetic block is allocated twice, *)
(* no cap is exceeded and an administrator remains.                        *)
(***************************************************************************)
THEOREM RelayKeepsDatabase ==
    SpecRelay => [](/\ ReferentialIntegrity /\ NodesDistinct
                    /\ AnnouncementsDisjoint /\ CapsRespected /\ SomeAdmin)
  BY RelayImplementsStore, StoreIntegrity, AddressesUnique, PoolNeverDoubleAllocated, CapsHold,
     AdminRemains, PTL

-----------------------------------------------------------------------------
(* The restart *)

\* While the relay starts no request runs, so what is rebuilt stays true.
Starting ==
    /\ phase # "serving" => \A p \in Procs : job[p] = Idle
    /\ phase \in {"clear", "build"} => peers = PeersFromDb

\* A request starts while the relay serves, and does not stop it.
LEMMA StartServes ==
    ASSUME NEW p \in Procs, Start(p) PROVE phase = "serving" /\ UNCHANGED phase
  BY DEF Start, Ready, env, RegisterStart, DeleteNodeStart, CreateZoneStart, JoinStart, LeaveStart,
         KickStart, PasswordStart, DeleteZoneStart, AnnounceStart, WithdrawStart, DeleteUserStart

\* A request that takes a step is in flight.
LEMMA StepBusy ==
    ASSUME NEW p \in Procs, Step(p) PROVE job[p] # Idle /\ UNCHANGED phase
<1>1. job[p].pc # "idle" /\ UNCHANGED phase
  BY DEF Step, At, env, RegisterInsert, RegisterRealloc, RegisterAddPeer, RegisterUndo,
         DeleteNodeSnapshot, DeleteNodeLookup, DeleteNodeRow, CreateZoneInsert, CreateZoneAddZone,
         CreateZoneJoin, CreateZoneMember, CreateZoneUndo, JoinRow, JoinMember, JoinUndo, LeaveRow,
         PasswordUpdate, DeleteZoneDetach, DeleteZoneRow, AnnounceTx, AnnounceRoutes, AnnouncePeer,
         AnnounceZoneRoute, AnnounceUndo, WithdrawDetach, TodoKernel, TodoRecompute, TodoDetach
<1> QED
  BY <1>1 DEF Idle

\* The database fixes what the kernel should hold.
LEMMA SameDbSameKernel ==
    ASSUME UNCHANGED dbvars
    PROVE  UNCHANGED PeersFromDb /\ UNCHANGED ZonesFromDb
<1>1. UNCHANGED <<user, node, zone, member, ann, att, lastId>>
  BY DEF dbvars
<1> QED
  BY <1>1 DEF PeersFromDb, ZonesFromDb, RoutesForNode, AnnsOf, OfZone

\* A step of the startup keeps Starting, and the last one leaves the kernel as
\* the database says.
LEMMA BootRebuilds ==
    ASSUME Starting, Boot
    PROVE  Starting' /\ (phase' = "serving" => KernelMatches')
<1>1. UNCHANGED dbvars /\ UNCHANGED job
  BY DEF Boot, BootInterface, BootPeers, BootClear, BootBuild, BootStep, NoDb
<1>2. PeersFromDb' = PeersFromDb /\ ZonesFromDb' = ZonesFromDb
  BY <1>1, SameDbSameKernel
<1>3. CASE BootInterface
  BY <1>1, <1>2, <1>3 DEF BootInterface, BootStep, Starting
<1>4. CASE BootPeers
  BY <1>1, <1>2, <1>4 DEF BootPeers, BootStep, ReplacePeers, Starting
<1>5. CASE BootClear
  BY <1>1, <1>2, <1>5 DEF BootClear, BootStep, ClearTable, Starting
<1>6. CASE BootBuild
  BY <1>1, <1>2, <1>6 DEF BootBuild, BootStep, BuildTable, Starting, KernelMatches
<1> QED
  BY <1>3, <1>4, <1>5, <1>6 DEF Boot

\* Every step keeps Starting; the one that begins to serve rebuilds the kernel.
LEMMA StartingStep ==
    ASSUME Starting, [NextRelay]_rvars
    PROVE  Starting' /\ (phase # "serving" /\ phase' = "serving" => KernelMatches')
<1>1. CASE \E p \in Procs : Start(p) \/ Step(p)
  <2>1. phase = "serving" /\ UNCHANGED phase
    BY <1>1, StartServes, StepBusy DEF Starting
  <2> QED
    BY <2>1 DEF Starting
<1>2. CASE NewUser
  BY <1>2 DEF NewUser, Starting
<1>3. CASE Crash
  BY <1>3 DEF Crash, Starting
<1>4. CASE Boot
  BY <1>4, BootRebuilds
<1>5. CASE UNCHANGED rvars
  <2>1. UNCHANGED dbvars /\ UNCHANGED <<peers, job, phase>>
    BY <1>5 DEF rvars, kvars
  <2> QED
    BY <2>1, SameDbSameKernel DEF Starting
<1> QED
  BY <1>1, <1>2, <1>3, <1>4, <1>5 DEF NextRelay

(***************************************************************************)
(* A restart heals any drift: whatever handlers were cut short and however *)
(* far the kernel had drifted, the relay that starts serving has exactly   *)
(* the peers and zone sets the database records (rebuildNodePeers,         *)
(* rebuildZoneRules).                                                      *)
(***************************************************************************)
THEOREM RestartAlwaysHeals == SpecRelay => RestartHeals
<1>1. InitRelay => Starting
  BY DEF InitRelay, Starting
<1>2. Starting /\ [NextRelay]_rvars
         => Starting' /\ [phase # "serving" /\ phase' = "serving" => KernelMatches']_rvars
  BY StartingStep
<1> QED
  BY <1>1, <1>2, PTL DEF SpecRelay, RestartHeals

-----------------------------------------------------------------------------
(* The types of requests, while the ids up to l have been handed out *)

Pool       == FirstIP .. LastIP
NodeIds(l) == 1 .. l.node
ZoneIds(l) == 1 .. l.zone
AnnIds(l)  == 1 .. l.ann

\* The best-effort calls a handler may still have to make.
Calls(l) ==
    [c : {"rmPeer"}, k : Keys]
    \cup [c : {"rmMember"}, z : ZoneIds(l), ip : Pool]
    \cup [c : {"rmRoute"}, z : ZoneIds(l), b : Block]
    \cup [c : {"rmZone"}, z : ZoneIds(l)]
    \cup [c : {"setPeer"}, k : Keys, ip : Pool, rs : SUBSET Block]
    \cup [c : {"recompute"}, n : NodeIds(l), k : Keys, ip : Pool]
    \cup [c : {"recomputeByID"}, n : NodeIds(l)]
    \cup [c : {"detach"}, z : ZoneIds(l), n : NodeIds(l), k : Keys, ip : Pool]

Pcs ==
    {"idle", "insertNode", "realloc", "addPeer", "undoNode", "snapshot", "lookup", "deleteNode",
     "insertZone", "addZone", "autoJoin", "autoMember", "undoZone", "join", "addMember", "undoJoin",
     "leave", "setPassword", "detachZone", "deleteZone", "announce", "routes", "setRoutes",
     "addRoute", "undoAnnounce", "withdraw", "todo"}

\* The locals of a request, by the call it makes next.  An address is carried
\* together with a node; only a zone created without one has none.
Request(j, l) ==
    /\ j.pc \in Pcs
    /\ j.pc = "idle" => j = Idle
    /\ j.pc \in {"insertNode", "realloc"} =>
          j \in [pc : {"insertNode", "realloc"}, u : Nat, nm : NodeNames, k : Keys, pf : Platforms,
                 tries : 1 .. MaxAllocRetries, ip : Pool]
    /\ j.pc = "addPeer" => j \in [pc : {"addPeer"}, n : NodeIds(l), k : Keys, ip : Pool]
    /\ j.pc = "undoNode" => j \in [pc : {"undoNode"}, n : NodeIds(l)]
    /\ j.pc = "snapshot" =>
          j \in [pc : {"snapshot"}, n : NodeIds(l), k : Keys, ip : Pool, zs : SUBSET ZoneIds(l)]
    /\ j.pc \in {"lookup", "deleteNode"} =>
          /\ j \in [pc : {"lookup", "deleteNode"}, n : NodeIds(l), k : Keys, ip : Pool,
                    zs : SUBSET ZoneIds(l), rs : SUBSET (ZoneIds(l) \X Block)]
          /\ IsFiniteSet(j.rs)
    /\ j.pc = "insertZone" =>
          \/ j \in [pc : {"insertZone"}, u : Nat, nm : ZoneNames, h : Hashes, n : NodeIds(l), ip : Pool]
          \/ j \in [pc : {"insertZone"}, u : Nat, nm : ZoneNames, h : Hashes, n : {0}, ip : {NoAddr}]
    /\ j.pc = "addZone" =>
          \/ j \in [pc : {"addZone"}, z : ZoneIds(l), n : NodeIds(l), ip : Pool]
          \/ j \in [pc : {"addZone"}, z : ZoneIds(l), n : {0}, ip : {NoAddr}]
    /\ j.pc \in {"autoJoin", "autoMember", "join", "addMember", "undoJoin"} =>
          j \in [pc : {"autoJoin", "autoMember", "join", "addMember", "undoJoin"},
                 z : ZoneIds(l), n : NodeIds(l), ip : Pool]
    /\ j.pc = "undoZone" =>
          \/ j = [pc |-> "undoZone", z |-> j.z, todo |-> <<>>] /\ j.z \in ZoneIds(l)
          \/ j = Rollback(j.z) /\ j.z \in ZoneIds(l)
    /\ j.pc = "leave" => j \in [pc : {"leave"}, z : ZoneIds(l), n : NodeIds(l), k : Keys, ip : Pool]
    /\ j.pc = "setPassword" => j \in [pc : {"setPassword"}, z : ZoneIds(l), h : Hashes]
    /\ j.pc = "detachZone" => j \in [pc : {"detachZone"}, z : ZoneIds(l)]
    /\ j.pc = "deleteZone" => j \in [pc : {"deleteZone"}, z : ZoneIds(l), ns : SUBSET NodeIds(l)]
    /\ j.pc = "announce" =>
          j \in [pc : {"announce"}, z : ZoneIds(l), n : NodeIds(l), r : RealBlocks, k : Keys, ip : Pool]
    /\ j.pc \in {"routes", "addRoute"} =>
          j \in [pc : {"routes", "addRoute"}, z : ZoneIds(l), n : NodeIds(l), k : Keys, ip : Pool,
                 a : AnnIds(l), b : Block]
    /\ j.pc = "setRoutes" =>
          j \in [pc : {"setRoutes"}, z : ZoneIds(l), n : NodeIds(l), k : Keys, ip : Pool, a : AnnIds(l),
                 b : Block, rs : SUBSET Block]
    /\ j.pc = "undoAnnounce" =>
          j \in [pc : {"undoAnnounce"}, z : ZoneIds(l), n : NodeIds(l), k : Keys, ip : Pool, a : AnnIds(l)]
    /\ j.pc = "withdraw" =>
          j \in [pc : {"withdraw"}, z : ZoneIds(l), a : AnnIds(l), b : Block, n : NodeIds(l), k : Keys,
                 ip : Pool]
    /\ j.pc = "todo" => j \in [pc : {"todo"}, todo : Seq(Calls(l))] /\ j.todo # <<>>

RequestsOK == DOMAIN job = Procs /\ \A p \in Procs : Request(job[p], lastId)

KernelOK == DOMAIN peers \subseteq Keys /\ DOMAIN nft \subseteq ZoneIds(lastId)

CountersOK ==
    /\ phase \in {"wg", "peers", "clear", "build", "serving"}
    /\ faults \in 0 .. MaxFaults /\ crashes \in 0 .. MaxCrashes

TypeInv == IInv /\ RequestsOK /\ KernelOK /\ CountersOK

\* SetToSeq lists exactly the elements of a finite set.
LEMMA Listed ==
    ASSUME NEW S, IsFiniteSet(S)
    PROVE  /\ SetToSeq(S) \in Seq(S)
           /\ \A x \in S : \E i \in DOMAIN SetToSeq(S) : SetToSeq(S)[i] = x
<1> DEFINE D == 1 .. Cardinality(S)
<1>1. Cardinality(S) \in Nat /\ ExistsBijection(D, S)
  BY FS_CardinalityType
<1>2. PICK g : g \in Bijection(D, S)
  BY <1>1 DEF ExistsBijection
<1>3. g \in [D -> S] /\ IsInjective(g)
  BY <1>2 DEF Bijection, Injection
<1>4. SetToSeq(S) \in [D -> S] /\ IsInjective(SetToSeq(S))
  BY <1>3 DEF SetToSeq
<1> DEFINE f == SetToSeq(S)
<1>5. f \in Injection(D, S)
  BY <1>4 DEF Injection
<1>6. IsFiniteSet(D) /\ Cardinality(D) = Cardinality(S)
  BY <1>1, FS_Interval
<1>7. f \in Surjection(D, S)
  BY <1>5, <1>6, FS_Injection
<1>8. f \in Seq(S)
  BY <1>1, <1>4 DEF SetToSeq
<1> QED
  BY <1>4, <1>7, <1>8 DEF Surjection

\* The calls made for the elements of a finite set.
LEMMA ListedCalls ==
    ASSUME NEW C, NEW S, IsFiniteSet(S), S \subseteq C PROVE SetToSeq(S) \in Seq(C)
<1>1. SetToSeq(S) \in Seq(S)
  BY Listed
<1> QED
  BY <1>1

\* The ids handed out only grow.
Grows(l, m) ==
    NodeIds(l) \subseteq NodeIds(m) /\ ZoneIds(l) \subseteq ZoneIds(m) /\ AnnIds(l) \subseteq AnnIds(m)

\* A transaction hands out ids and takes none back.
LEMMA StoreGrows ==
    ASSUME IInv, [NextStore]_dbvars PROVE Grows(lastId, lastId')
<1>1. lastId.node \in Nat /\ lastId.zone \in Nat /\ lastId.ann \in Nat
  BY StoreAssumption DEF IInv, StoreTypeOK
<1>2. CASE UNCHANGED lastId
  BY <1>2 DEF Grows, NodeIds, ZoneIds, AnnIds
<1>3. CASE \E x \in Nat : lastId' = [lastId EXCEPT !.user = x]
  BY <1>3 DEF Grows, NodeIds, ZoneIds, AnnIds, IInv, StoreTypeOK
<1>4. CASE lastId' = [lastId EXCEPT !.node = lastId.node + 1]
  BY <1>1, <1>4 DEF Grows, NodeIds, ZoneIds, AnnIds, IInv, StoreTypeOK
<1>5. CASE lastId' = [lastId EXCEPT !.zone = lastId.zone + 1]
  BY <1>1, <1>5 DEF Grows, NodeIds, ZoneIds, AnnIds, IInv, StoreTypeOK
<1>6. CASE lastId' = [lastId EXCEPT !.ann = lastId.ann + 1]
  BY <1>1, <1>6 DEF Grows, NodeIds, ZoneIds, AnnIds, IInv, StoreTypeOK
<1>7. CASE NextUsers
  <2>1. lastId.user + 1 \in Nat
    BY StoreAssumption DEF IInv, StoreTypeOK
  <2> QED
    BY <1>2, <1>3, <1>7, <2>1 DEF NextUsers, CreateUser, DeleteUser
<1>8. CASE NextNodes
  BY <1>2, <1>4, <1>8 DEF NextNodes, InsertNode, DeleteNode
<1>9. CASE NextZones
  BY <1>2, <1>5, <1>9 DEF NextZones, InsertZone, UpdatePassword, DeleteZone, Join, Leave
<1>10. CASE NextAnns
  BY <1>2, <1>6, <1>10 DEF NextAnns, AttachAgain, Announce, Detach, DetachAllForNodeZone,
                           DetachAllForZone, DetachSet
<1>11. CASE UNCHANGED dbvars
  BY <1>2, <1>11 DEF dbvars
<1> QED
  BY <1>7, <1>8, <1>9, <1>10, <1>11 DEF NextStore

\* What a request carries stays well typed while ids are handed out.
LEMMA RequestGrows ==
    ASSUME NEW l, NEW m, Grows(l, m), NEW j, Request(j, l) PROVE Request(j, m)
<1>1. Calls(l) \subseteq Calls(m)
  BY DEF Grows, Calls
<1>2. ASSUME NEW s \in Seq(Calls(l)) PROVE s \in Seq(Calls(m))
  BY <1>1
<1> HIDE DEF Calls
<1>3. CASE j.pc \in {"idle", "insertNode", "realloc"}
  BY <1>3 DEF Request, Pcs
<1>4. CASE j.pc \in {"addPeer", "undoNode", "snapshot"}
  BY <1>4 DEF Request, Pcs, Grows
<1>5. CASE j.pc \in {"lookup", "deleteNode"}
  BY <1>5 DEF Request, Pcs, Grows
<1>6. CASE j.pc \in {"insertZone", "addZone"}
  BY <1>6 DEF Request, Pcs, Grows
<1>7. CASE j.pc \in {"autoJoin", "autoMember", "join", "addMember", "undoJoin"}
  BY <1>7 DEF Request, Pcs, Grows
<1>8. CASE j.pc \in {"undoZone", "leave", "setPassword", "detachZone", "deleteZone"}
  BY <1>8 DEF Request, Pcs, Grows
<1>9. CASE j.pc \in {"announce", "routes", "setRoutes"}
  BY <1>9 DEF Request, Pcs, Grows
<1>10. CASE j.pc \in {"addRoute", "undoAnnounce", "withdraw"}
  BY <1>10 DEF Request, Pcs, Grows
<1>11. CASE j.pc = "todo"
  BY <1>2, <1>11 DEF Request, Pcs, Grows
<1> QED
  BY <1>3, <1>4, <1>5, <1>6, <1>7, <1>8, <1>9, <1>10, <1>11 DEF Request, Pcs

\* A live row has an id that was handed out and columns of their types.
LEMMA RowTypes ==
    ASSUME IInv
    PROVE  /\ \A n \in DOMAIN node :
                 n \in NodeIds(lastId) /\ node[n].key \in Keys /\ node[n].ip \in Pool
           /\ \A z \in DOMAIN zone : z \in ZoneIds(lastId)
           /\ \A a \in DOMAIN ann :
                 a \in AnnIds(lastId) /\ ann[a].synth \in Block /\ ann[a].node \in DOMAIN node
  BY DEF IInv, StoreTypeOK, ReferentialIntegrity, NodeIds, ZoneIds, AnnIds, Pool, NodeRow, AnnRow

\* A request moves on to a well-typed job.
LEMMA GoTyped ==
    ASSUME RequestsOK, Grows(lastId, lastId'), NEW p \in Procs, NEW j, Request(j, lastId'), Go(p, j)
    PROVE  RequestsOK'
<1>1. DOMAIN job' = Procs /\ \A q \in Procs : job'[q] = IF q = p THEN j ELSE job[q]
  BY DEF RequestsOK, Go
<1>2. ASSUME NEW q \in Procs PROVE Request(job'[q], lastId')
  <2>1. Request(job[q], lastId')
    BY RequestGrows DEF RequestsOK
  <2> QED
    BY <1>1, <2>1
<1> QED
  BY <1>1, <1>2 DEF RequestsOK

\* A request is answered.
LEMMA DoneTyped ==
    ASSUME RequestsOK, Grows(lastId, lastId'), NEW p \in Procs, Done(p) PROVE RequestsOK'
<1>1. Request(Idle, lastId')
  BY DEF Request, Idle, Pcs
<1> QED
  BY <1>1, GoTyped DEF Done

\* A request turns to its best-effort calls.
LEMMA BestEffortTyped ==
    ASSUME RequestsOK, Grows(lastId, lastId'), NEW p \in Procs, NEW todo \in Seq(Calls(lastId')),
           BestEffort(p, todo)
    PROVE  RequestsOK'
<1>1. CASE todo = <<>>
  BY <1>1, DoneTyped DEF BestEffort, Done
<1>2. CASE todo # <<>>
  <2>1. Request([pc |-> "todo", todo |-> todo], lastId')
    BY <1>2 DEF Request, Pcs
  <2> QED
    BY <1>2, <2>1, GoTyped DEF BestEffort
<1> QED
  BY <1>1, <1>2

\* Nothing is handed out by a step that leaves the database alone.
LEMMA NoDbGrows ==
    ASSUME NoDb PROVE lastId' = lastId /\ Grows(lastId, lastId')
  BY DEF NoDb, dbvars, Grows

\* Nodes, zones, announcements and attachments are finitely many.
LEMMA RowsFinite ==
    ASSUME IInv
    PROVE  /\ \A S : S \subseteq DOMAIN node => IsFiniteSet(S)
           /\ \A S : S \subseteq DOMAIN zone => IsFiniteSet(S)
           /\ \A S : S \subseteq member => IsFiniteSet(S)
           /\ \A S : S \subseteq att => IsFiniteSet(S)
<1>1. IsFiniteSet(NodeIds(lastId)) /\ IsFiniteSet(ZoneIds(lastId)) /\ IsFiniteSet(AnnIds(lastId))
  <2>1. lastId.node \in Int /\ lastId.zone \in Int /\ lastId.ann \in Int
    BY StoreAssumption DEF IInv, StoreTypeOK
  <2> QED
    BY <2>1, FS_Interval DEF NodeIds, ZoneIds, AnnIds
<1>2. IsFiniteSet(ZoneIds(lastId) \X NodeIds(lastId)) /\ IsFiniteSet(AnnIds(lastId) \X ZoneIds(lastId))
  BY <1>1, FS_Product
<1>3. /\ DOMAIN node \subseteq NodeIds(lastId) /\ DOMAIN zone \subseteq ZoneIds(lastId)
      /\ member \subseteq ZoneIds(lastId) \X NodeIds(lastId)
      /\ att \subseteq AnnIds(lastId) \X ZoneIds(lastId)
  BY DEF IInv, StoreTypeOK, NodeIds, ZoneIds, AnnIds
<1>4. ASSUME NEW S, S \subseteq DOMAIN node PROVE IsFiniteSet(S)
  BY <1>1, <1>3, <1>4, FS_Subset
<1>5. ASSUME NEW S, S \subseteq DOMAIN zone PROVE IsFiniteSet(S)
  BY <1>1, <1>3, <1>5, FS_Subset
<1>6. ASSUME NEW S, S \subseteq member PROVE IsFiniteSet(S)
  BY <1>2, <1>3, <1>6, FS_Subset
<1>7. ASSUME NEW S, S \subseteq att PROVE IsFiniteSet(S)
  BY <1>2, <1>3, <1>7, FS_Subset
<1> QED
  BY <1>4, <1>5, <1>6, <1>7

\* So are ids.
LEMMA IdsFinite ==
    ASSUME IInv
    PROVE  /\ \A S \in SUBSET ZoneIds(lastId) : IsFiniteSet(S)
           /\ \A S \in SUBSET NodeIds(lastId) : IsFiniteSet(S)
<1>1. lastId.node \in Int /\ lastId.zone \in Int
  BY StoreAssumption DEF IInv, StoreTypeOK
<1>2. IsFiniteSet(NodeIds(lastId)) /\ IsFiniteSet(ZoneIds(lastId))
  BY <1>1, FS_Interval DEF NodeIds, ZoneIds
<1>3. ASSUME NEW S \in SUBSET ZoneIds(lastId) PROVE IsFiniteSet(S)
  BY <1>2, FS_Subset
<1>4. ASSUME NEW S \in SUBSET NodeIds(lastId) PROVE IsFiniteSet(S)
  BY <1>2, FS_Subset
<1> QED
  BY <1>3, <1>4

\* A function's values on a finite set are finitely many.
LEMMA FiniteValues ==
    ASSUME NEW S, IsFiniteSet(S), NEW f, DOMAIN f = S
    PROVE  IsFiniteSet({f[x] : x \in S})
<1> DEFINE T == {f[x] : x \in S}
           g == [x \in S |-> f[x]]
<1>1. g \in Surjection(S, T)
  BY DEF Surjection
<1> QED
  BY <1>1, FS_Surjection

\* The calls made for the rows a deleted user leaves.
LEMMA UserCleanupCalls ==
    ASSUME IInv, NEW t, NEW C,
           \A n \in DOMAIN node :
              /\ [c |-> "rmPeer", k |-> node[n].key] \in C
              /\ [c |-> "recompute", n |-> n, k |-> node[n].key, ip |-> node[n].ip] \in C,
           \A z \in DOMAIN zone, n \in DOMAIN node : [c |-> "rmMember", z |-> z, ip |-> node[n].ip] \in C,
           \A z \in DOMAIN zone, a \in DOMAIN ann : [c |-> "rmRoute", z |-> z, b |-> ann[a].synth] \in C,
           \A z \in ZonesOf(t) : [c |-> "rmZone", z |-> z] \in C
    PROVE  UserCleanup(t) \in Seq(C)
<1> DEFINE dn      == NodesOf(t)
           dz      == ZonesOf(t)
           orphans == {a \in DOMAIN ann \ AnnsOf(dn) : \A x \in att : x[1] = a => x[2] \in dz}
           on      == {ann[a].node : a \in orphans}
           dm      == {x \in member : x[2] \in dn /\ x[1] \notin dz}
           dt      == {y \in att : ann[y[1]].node \in dn /\ y[2] \notin dz}
           f1 == [n \in dn |-> [c |-> "rmPeer", k |-> node[n].key]]
           f2 == [m \in dm |-> [c |-> "rmMember", z |-> m[1], ip |-> node[m[2]].ip]]
           f3 == [z \in dz |-> [c |-> "rmZone", z |-> z]]
           f4 == [x \in dt |-> [c |-> "rmRoute", z |-> x[2], b |-> ann[x[1]].synth]]
           f5 == [n \in on |-> [c |-> "recompute", n |-> n, k |-> node[n].key, ip |-> node[n].ip]]
           S1 == {[c |-> "rmPeer", k |-> node[n].key] : n \in dn}
           S2 == {[c |-> "rmMember", z |-> m[1], ip |-> node[m[2]].ip] : m \in dm}
           S3 == {[c |-> "rmZone", z |-> z] : z \in dz}
           S4 == {[c |-> "rmRoute", z |-> x[2], b |-> ann[x[1]].synth] : x \in dt}
           S5 == {[c |-> "recompute", n |-> n, k |-> node[n].key, ip |-> node[n].ip] : n \in on}
<1>1. /\ dn \subseteq DOMAIN node /\ dz \subseteq DOMAIN zone /\ on \subseteq DOMAIN node
      /\ dm \subseteq member /\ dt \subseteq att
  BY RowTypes DEF NodesOf, ZonesOf
<1>2. /\ IsFiniteSet(dn) /\ IsFiniteSet(dz) /\ IsFiniteSet(on) /\ IsFiniteSet(dm)
      /\ IsFiniteSet(dt)
  BY <1>1, RowsFinite
<1>3. /\ {f1[n] : n \in dn} = S1 /\ {f2[m] : m \in dm} = S2 /\ {f3[z] : z \in dz} = S3
      /\ {f4[x] : x \in dt} = S4 /\ {f5[n] : n \in on} = S5
  OBVIOUS
<1>4. DOMAIN f1 = dn /\ DOMAIN f2 = dm /\ DOMAIN f3 = dz /\ DOMAIN f4 = dt /\ DOMAIN f5 = on
  OBVIOUS
<1>5. S1 \subseteq C /\ S3 \subseteq C /\ S5 \subseteq C
  BY <1>1
<1>6. S2 \subseteq C
  <2>1. ASSUME NEW m \in dm PROVE m[1] \in DOMAIN zone /\ m[2] \in DOMAIN node
    BY <1>1 DEF IInv, ReferentialIntegrity
  <2> QED
    BY <2>1
<1>7. S4 \subseteq C
  <2>1. ASSUME NEW x \in dt PROVE x[2] \in DOMAIN zone /\ x[1] \in DOMAIN ann
    BY <1>1 DEF IInv, ReferentialIntegrity
  <2> QED
    BY <2>1
<1> HIDE DEF f1, f2, f3, f4, f5, dn, dz, on, dm, dt, S1, S2, S3, S4, S5
<1>8. /\ IsFiniteSet(S1) /\ IsFiniteSet(S2) /\ IsFiniteSet(S3) /\ IsFiniteSet(S4)
      /\ IsFiniteSet(S5)
  <2>1. IsFiniteSet(S1)
    BY <1>2, <1>3, <1>4, FiniteValues
  <2>2. IsFiniteSet(S2)
    BY <1>2, <1>3, <1>4, FiniteValues
  <2>3. IsFiniteSet(S3)
    BY <1>2, <1>3, <1>4, FiniteValues
  <2>4. IsFiniteSet(S4)
    BY <1>2, <1>3, <1>4, FiniteValues
  <2>5. IsFiniteSet(S5)
    BY <1>2, <1>3, <1>4, FiniteValues
  <2> QED
    BY <2>1, <2>2, <2>3, <2>4, <2>5
<1>9. /\ SetToSeq(S1) \in Seq(C) /\ SetToSeq(S2) \in Seq(C) /\ SetToSeq(S3) \in Seq(C)
      /\ SetToSeq(S4) \in Seq(C) /\ SetToSeq(S5) \in Seq(C)
  BY <1>5, <1>6, <1>7, <1>8, ListedCalls
<1>10. SetToSeq(S1) \o SetToSeq(S2) \o SetToSeq(S3) \o SetToSeq(S4) \o SetToSeq(S5) \in Seq(C)
  BY <1>9
<1> QED
  BY <1>10 DEF UserCleanup, S1, S2, S3, S4, S5, on, dn, dz, dm, dt

\* The calls made for a deleted node.
LEMMA NodeCleanupCalls ==
    ASSUME NEW C, NEW j, IsFiniteSet(j.zs), IsFiniteSet(j.rs),
           [c |-> "rmPeer", k |-> j.k] \in C,
           \A z \in j.zs : [c |-> "rmMember", z |-> z, ip |-> j.ip] \in C,
           \A r \in j.rs : [c |-> "rmRoute", z |-> r[1], b |-> r[2]] \in C
    PROVE  NodeCleanup(j) \in Seq(C)
<1> DEFINE f  == [z \in j.zs |-> [c |-> "rmMember", z |-> z, ip |-> j.ip]]
           g  == [r \in j.rs |-> [c |-> "rmRoute", z |-> r[1], b |-> r[2]]]
           S1 == {[c |-> "rmMember", z |-> z, ip |-> j.ip] : z \in j.zs}
           S2 == {[c |-> "rmRoute", z |-> r[1], b |-> r[2]] : r \in j.rs}
           c1 == <<[c |-> "rmPeer", k |-> j.k]>>
<1>1. DOMAIN f = j.zs /\ DOMAIN g = j.rs /\ {f[z] : z \in j.zs} = S1 /\ {g[r] : r \in j.rs} = S2
  OBVIOUS
<1>2. S1 \subseteq C /\ S2 \subseteq C /\ c1 \in Seq(C)
  OBVIOUS
<1> HIDE DEF f, g, S1, S2, c1
<1>3. IsFiniteSet(S1) /\ IsFiniteSet(S2)
  BY <1>1, FiniteValues
<1>4. SetToSeq(S1) \in Seq(C) /\ SetToSeq(S2) \in Seq(C)
  BY <1>2, <1>3, ListedCalls
<1>5. c1 \o SetToSeq(S1) \o SetToSeq(S2) \in Seq(C)
  BY <1>2, <1>4
<1> QED
  BY <1>5 DEF NodeCleanup, S1, S2, c1

\* The calls made after a node's announcements are detached from a zone.
LEMMA DetachCalls ==
    ASSUME IInv, NEW C, NEW c, NEW rest \in Seq(C), Recompute(c) \in C,
           \A a \in DOMAIN ann : [c |-> "rmRoute", z |-> c.z, b |-> ann[a].synth] \in C
    PROVE  LET gone == OfNodeZone(c.n, c.z)
               pre  == SetToSeq({[c |-> "rmRoute", z |-> c.z, b |-> ann[t[1]].synth] : t \in gone})
                         \o (IF Reclaimed(gone) # {} THEN <<Recompute(c)>> ELSE <<>>)
           IN  pre \in Seq(C) /\ pre \o rest \in Seq(C)
<1> DEFINE gone == OfNodeZone(c.n, c.z)
           S    == {[c |-> "rmRoute", z |-> c.z, b |-> ann[t[1]].synth] : t \in gone}
           f    == [t \in gone |-> [c |-> "rmRoute", z |-> c.z, b |-> ann[t[1]].synth]]
           tail == IF Reclaimed(gone) # {} THEN <<Recompute(c)>> ELSE <<>>
<1>1. S \subseteq C
  BY DEF OfNodeZone, IInv, ReferentialIntegrity
<1>2. IsFiniteSet(S)
  <2>1. IsFiniteSet(gone)
    BY RowsFinite DEF OfNodeZone
  <2>2. DOMAIN f = gone /\ {f[t] : t \in gone} = S
    OBVIOUS
  <2> HIDE DEF f, S, gone
  <2> QED
    BY <2>1, <2>2, FiniteValues
<1>3. SetToSeq(S) \in Seq(C)
  BY <1>1, <1>2, ListedCalls
<1>4. tail \in Seq(C)
  <2>1. <<Recompute(c)>> \in Seq(C) /\ <<>> \in Seq(C)
    OBVIOUS
  <2> QED
    BY <2>1, Zenon
<1>5. SetToSeq(S) \o tail \in Seq(C) /\ (SetToSeq(S) \o tail) \o rest \in Seq(C)
  <2> HIDE DEF S, tail, gone
  <2> QED
    BY <1>3, <1>4
<1> QED
  BY <1>5

\* registerNode.
LEMMA RegisterTyped ==
    ASSUME TypeInv, Grows(lastId, lastId'), NEW p \in Procs,
           \/ RegisterStart(p) \/ RegisterInsert(p) \/ RegisterRealloc(p)
           \/ RegisterAddPeer(p) \/ RegisterUndo(p)
    PROVE  RequestsOK' /\ KernelOK'
<1> DEFINE free == LowestFree(TakenIPs, FirstIP, LastIP)
<1>0. UNCHANGED kvars => KernelOK'
  BY DEF kvars, KernelOK, TypeInv, Grows
<1>1. CASE RegisterStart(p)
  <2>1. PICK u \in DOMAIN user, nm \in NodeNames, k \in Keys, pf \in Platforms :
           Go(p, [pc |-> "insertNode", u |-> u, nm |-> nm, k |-> k, pf |-> pf, tries |-> 1,
                  ip |-> free])
    BY <1>1 DEF RegisterStart
  <2>2. u \in Nat /\ free \in Pool
    BY <1>1, FreeInPool DEF RegisterStart, TypeInv, IInv, StoreTypeOK, Pool
  <2> HIDE DEF free
  <2>3. Request([pc |-> "insertNode", u |-> u, nm |-> nm, k |-> k, pf |-> pf, tries |-> 1,
                 ip |-> free], lastId')
    BY <2>2, RelayAssumption DEF Request, Pcs
  <2> QED
    BY <1>0, <1>1, <2>1, <2>3, GoTyped DEF TypeInv, RegisterStart, NoKernel
<1>2. CASE RegisterInsert(p)
  <2> DEFINE j == job[p]
             R == [pc : {"insertNode", "realloc"}, u : Nat, nm : NodeNames, k : Keys,
                   pf : Platforms, tries : 1 .. MaxAllocRetries, ip : Pool]
  <2>1. j \in R /\ j.pc = "insertNode"
    BY <1>2 DEF RegisterInsert, At, TypeInv, RequestsOK, Request
  <2>2. CASE InsertNode(j.u, j.nm, j.k, j.ip, j.pf)
             /\ Go(p, [pc |-> "addPeer", n |-> lastId.node + 1, k |-> j.k, ip |-> j.ip])
    <3>1. lastId.node + 1 \in NodeIds(lastId')
      BY <2>2, StoreAssumption DEF InsertNode, NodeIds, TypeInv, IInv, StoreTypeOK
    <3>2. Request([pc |-> "addPeer", n |-> lastId.node + 1, k |-> j.k, ip |-> j.ip], lastId')
      BY <2>1, <3>1 DEF Request, Pcs
    <3> QED
      BY <1>0, <1>2, <2>2, <3>2, GoTyped DEF TypeInv, RegisterInsert, NoKernel
  <2>3. CASE Done(p)
    BY <1>0, <1>2, <2>3, DoneTyped DEF TypeInv, RegisterInsert, NoKernel
  <2>4. CASE j.tries < MaxAllocRetries /\ Go(p, [j EXCEPT !.pc = "realloc", !.tries = @ + 1])
    <3>1. j.tries + 1 \in 1 .. MaxAllocRetries
      BY <2>1, <2>4, RelayAssumption
    <3>2. \A x \in R, t \in 1 .. MaxAllocRetries :
             /\ [x EXCEPT !.pc = "realloc", !.tries = t] \in R
             /\ [x EXCEPT !.pc = "realloc", !.tries = t].pc = "realloc"
      OBVIOUS
    <3>3. Request([j EXCEPT !.pc = "realloc", !.tries = @ + 1], lastId')
      BY <2>1, <3>1, <3>2 DEF Request, Pcs
    <3> QED
      BY <1>0, <1>2, <2>4, <3>3, GoTyped DEF TypeInv, RegisterInsert, NoKernel
  <2> QED
    BY <1>2, <2>2, <2>3, <2>4 DEF RegisterInsert
<1>3. CASE RegisterRealloc(p)
  <2> DEFINE j == job[p]
             R == [pc : {"insertNode", "realloc"}, u : Nat, nm : NodeNames, k : Keys,
                   pf : Platforms, tries : 1 .. MaxAllocRetries, ip : Pool]
  <2>1. j \in R
    BY <1>3 DEF RegisterRealloc, At, TypeInv, RequestsOK, Request
  <2>2. CASE Done(p)
    BY <1>0, <1>3, <2>2, DoneTyped DEF TypeInv, RegisterRealloc, NoKernel
  <2>3. CASE free # NoAddr /\ Go(p, [j EXCEPT !.pc = "insertNode", !.ip = free])
    <3>1. free \in Pool
      BY <2>3, FreeInPool DEF TypeInv, Pool
    <3> HIDE DEF free
    <3>2. /\ [j EXCEPT !.pc = "insertNode", !.ip = free] \in R
          /\ [j EXCEPT !.pc = "insertNode", !.ip = free].pc = "insertNode"
      BY <2>1, <3>1
    <3>3. Request([j EXCEPT !.pc = "insertNode", !.ip = free], lastId')
      BY <3>2 DEF Request, Pcs
    <3> QED
      BY <1>0, <1>3, <2>3, <3>3, GoTyped DEF TypeInv, RegisterRealloc, NoKernel
  <2> QED
    BY <1>3, <2>2, <2>3 DEF RegisterRealloc
<1>4. CASE RegisterAddPeer(p)
  <2> DEFINE j == job[p]
  <2>1. j \in [pc : {"addPeer"}, n : NodeIds(lastId), k : Keys, ip : Pool]
    BY <1>4 DEF RegisterAddPeer, At, TypeInv, RequestsOK, Request
  <2>2. CASE AddPeer(j.k, j.ip) /\ Done(p)
    BY <1>4, <2>1, <2>2, DoneTyped DEF TypeInv, AddPeer, SetPeerRoutes, KernelOK, Grows
  <2>3. CASE Go(p, [pc |-> "undoNode", n |-> j.n]) /\ NoKernel
    <3>1. Request([pc |-> "undoNode", n |-> j.n], lastId')
      BY <2>1 DEF Request, Pcs, Grows
    <3> QED
      BY <1>0, <2>3, <3>1, GoTyped DEF TypeInv, NoKernel
  <2> QED
    BY <1>4, <2>2, <2>3 DEF RegisterAddPeer
<1>5. CASE RegisterUndo(p)
  BY <1>0, <1>5, DoneTyped DEF RegisterUndo, TypeInv, NoKernel
<1> QED
  BY <1>1, <1>2, <1>3, <1>4, <1>5

\* deleteNode.
LEMMA DeleteNodeTyped ==
    ASSUME TypeInv, Grows(lastId, lastId'), NEW p \in Procs,
           \/ DeleteNodeStart(p) \/ DeleteNodeSnapshot(p) \/ DeleteNodeLookup(p)
           \/ DeleteNodeRow(p)
    PROVE  RequestsOK' /\ KernelOK'
<1> DEFINE j == job[p]
<1>0. KernelOK'
  BY DEF kvars, KernelOK, TypeInv, Grows, DeleteNodeStart, DeleteNodeSnapshot, DeleteNodeLookup,
         DeleteNodeRow, NoKernel
<1>1. CASE DeleteNodeStart(p)
  <2>1. PICK n \in DOMAIN node :
           Go(p, [pc |-> "snapshot", n |-> n, k |-> node[n].key, ip |-> node[n].ip,
                  zs |-> {z \in DOMAIN zone : <<z, n>> \in member}])
    BY <1>1 DEF DeleteNodeStart
  <2>2. Request([pc |-> "snapshot", n |-> n, k |-> node[n].key, ip |-> node[n].ip,
                 zs |-> {z \in DOMAIN zone : <<z, n>> \in member}], lastId')
    BY RowTypes DEF Request, Pcs, Grows, TypeInv
  <2> QED
    BY <1>0, <2>1, <2>2, GoTyped DEF TypeInv
<1>2. CASE DeleteNodeSnapshot(p)
  <2> DEFINE mine == {x \in att : ann[x[1]].node = j.n}
             f    == [t \in mine |-> <<t[2], ann[t[1]].synth>>]
             rs   == {<<t[2], ann[t[1]].synth>> : t \in mine}
  <2>1. j \in [pc : {"snapshot"}, n : NodeIds(lastId), k : Keys, ip : Pool, zs : SUBSET ZoneIds(lastId)]
    BY <1>2 DEF DeleteNodeSnapshot, At, TypeInv, RequestsOK, Request
  <2>2. IsFiniteSet(rs)
    <3>1. IsFiniteSet(mine)
      BY RowsFinite DEF TypeInv
    <3>2. IsFiniteSet({f[t] : t \in mine})
      BY <3>1, FiniteValues
    <3>3. {f[t] : t \in mine} = rs
      OBVIOUS
    <3> QED
      BY <3>2, <3>3
  <2>3. rs \in SUBSET (ZoneIds(lastId) \X Block)
    <3>1. ASSUME NEW t \in mine PROVE t[2] \in ZoneIds(lastId) /\ ann[t[1]].synth \in Block
      BY RowTypes DEF TypeInv, IInv, ReferentialIntegrity
    <3> QED
      BY <3>1
  <2> HIDE DEF rs
  <2>4. Request([pc |-> "lookup", n |-> j.n, k |-> j.k, ip |-> j.ip, zs |-> j.zs, rs |-> rs], lastId')
    BY <2>1, <2>2, <2>3 DEF Request, Pcs, Grows
  <2> QED
    BY <1>0, <1>2, <2>4, GoTyped, DoneTyped DEF TypeInv, DeleteNodeSnapshot, rs
<1>3. CASE DeleteNodeLookup(p)
  <2>1. /\ j \in [pc : {"lookup", "deleteNode"}, n : NodeIds(lastId), k : Keys, ip : Pool,
                  zs : SUBSET ZoneIds(lastId), rs : SUBSET (ZoneIds(lastId) \X Block)]
        /\ IsFiniteSet(j.rs)
    BY <1>3 DEF DeleteNodeLookup, At, TypeInv, RequestsOK, Request
  <2>2. Request([j EXCEPT !.pc = "deleteNode"], lastId')
    BY <2>1 DEF Request, Pcs, Grows
  <2> QED
    BY <1>0, <1>3, <2>2, GoTyped, DoneTyped DEF TypeInv, DeleteNodeLookup
<1>4. CASE DeleteNodeRow(p)
  <2>1. /\ j \in [pc : {"lookup", "deleteNode"}, n : NodeIds(lastId), k : Keys, ip : Pool,
                  zs : SUBSET ZoneIds(lastId), rs : SUBSET (ZoneIds(lastId) \X Block)]
        /\ IsFiniteSet(j.rs)
    BY <1>4 DEF DeleteNodeRow, At, TypeInv, RequestsOK, Request
  <2>2. NodeCleanup(j) \in Seq(Calls(lastId'))
    <3>1. IsFiniteSet(j.zs) /\ IsFiniteSet(j.rs)
      BY <2>1, IdsFinite DEF TypeInv
    <3>2. /\ [c |-> "rmPeer", k |-> j.k] \in Calls(lastId')
          /\ \A z \in j.zs : [c |-> "rmMember", z |-> z, ip |-> j.ip] \in Calls(lastId')
          /\ \A r \in j.rs : [c |-> "rmRoute", z |-> r[1], b |-> r[2]] \in Calls(lastId')
      BY <2>1 DEF Calls, Grows
    <3> QED
      BY <3>1, <3>2, NodeCleanupCalls
  <2> QED
    BY <1>0, <1>4, <2>2, BestEffortTyped, DoneTyped DEF TypeInv, DeleteNodeRow
<1> QED
  BY <1>1, <1>2, <1>3, <1>4

\* createZone.
LEMMA CreateZoneTyped ==
    ASSUME TypeInv, Grows(lastId, lastId'), NEW p \in Procs,
           \/ CreateZoneStart(p) \/ CreateZoneInsert(p) \/ CreateZoneAddZone(p)
           \/ CreateZoneJoin(p) \/ CreateZoneMember(p) \/ CreateZoneUndo(p)
    PROVE  RequestsOK' /\ KernelOK'
<1> DEFINE j == job[p]
<1>0. UNCHANGED kvars => KernelOK'
  BY DEF kvars, KernelOK, TypeInv, Grows
<1>1. ASSUME NEW z \in ZoneIds(lastId) PROVE Request(Rollback(z), lastId')
  BY DEF Request, Pcs, Rollback, Grows
<1>2. CASE CreateZoneStart(p)
  <2>1. PICK u \in DOMAIN user, nm \in ZoneNames, h \in Hashes : \E n \in {0} \cup NodesOf(u) :
           Go(p, [pc |-> "insertZone", u |-> u, nm |-> nm, h |-> h, n |-> n,
                  ip |-> IF n = 0 THEN NoAddr ELSE node[n].ip])
    BY <1>2 DEF CreateZoneStart
  <2>2. PICK n \in {0} \cup NodesOf(u) :
           Go(p, [pc |-> "insertZone", u |-> u, nm |-> nm, h |-> h, n |-> n,
                  ip |-> IF n = 0 THEN NoAddr ELSE node[n].ip])
    BY <2>1
  <2>3. u \in Nat
    BY DEF TypeInv, IInv, StoreTypeOK
  <2> DEFINE ip == IF n = 0 THEN NoAddr ELSE node[n].ip
  <2>4. (n = 0 /\ ip = NoAddr) \/ (n \in NodeIds(lastId) /\ ip \in Pool)
    <3>1. CASE n = 0
      BY <3>1
    <3>2. CASE n # 0
      BY <3>2, RowTypes DEF TypeInv, NodesOf
    <3> QED
      BY <3>1, <3>2
  <2> HIDE DEF ip
  <2>5. Request([pc |-> "insertZone", u |-> u, nm |-> nm, h |-> h, n |-> n, ip |-> ip], lastId')
    BY <2>3, <2>4 DEF Request, Pcs, Grows
  <2> QED
    BY <1>0, <1>2, <2>2, <2>5, GoTyped DEF TypeInv, CreateZoneStart, NoKernel, ip
<1>3. CASE CreateZoneInsert(p)
  <2>1. (j.n \in NodeIds(lastId) /\ j.ip \in Pool) \/ (j.n = 0 /\ j.ip = NoAddr)
    BY <1>3 DEF CreateZoneInsert, At, TypeInv, RequestsOK, Request
  <2>2. CASE Done(p)
    BY <1>0, <1>3, <2>2, DoneTyped DEF TypeInv, CreateZoneInsert, NoKernel
  <2>3. CASE /\ InsertZone(j.u, j.nm, j.h)
             /\ Go(p, [pc |-> "addZone", z |-> lastId.zone + 1, n |-> j.n, ip |-> j.ip])
    <3>1. lastId.zone + 1 \in ZoneIds(lastId')
      BY <2>3, StoreAssumption DEF InsertZone, ZoneIds, TypeInv, IInv, StoreTypeOK
    <3>2. Request([pc |-> "addZone", z |-> lastId.zone + 1, n |-> j.n, ip |-> j.ip], lastId')
      BY <2>1, <3>1 DEF Request, Pcs, Grows
    <3> QED
      BY <1>0, <1>3, <2>3, <3>2, GoTyped DEF TypeInv, CreateZoneInsert, NoKernel
  <2> QED
    BY <1>3, <2>2, <2>3 DEF CreateZoneInsert
<1>4. CASE CreateZoneAddZone(p)
  <2>1. \/ j \in [pc : {"addZone"}, z : ZoneIds(lastId), n : NodeIds(lastId), ip : Pool]
        \/ j \in [pc : {"addZone"}, z : ZoneIds(lastId), n : {0}, ip : {NoAddr}]
    BY <1>4 DEF CreateZoneAddZone, At, TypeInv, RequestsOK, Request
  <2>2. CASE AddZone(j.z) /\ (IF j.n = 0 THEN Done(p) ELSE Go(p, [j EXCEPT !.pc = "autoJoin"]))
    <3>1. KernelOK'
      BY <2>1, <2>2 DEF AddZone, KernelOK, TypeInv, Grows
    <3>2. CASE j.n = 0
      BY <2>2, <3>1, <3>2, DoneTyped DEF TypeInv
    <3>3. CASE j.n # 0
      <4>1. Request([j EXCEPT !.pc = "autoJoin"], lastId')
        BY <2>1, <3>3 DEF Request, Pcs, Grows
      <4> QED
        BY <2>2, <3>1, <3>3, <4>1, GoTyped DEF TypeInv
    <3> QED
      BY <3>2, <3>3
  <2>3. CASE Go(p, [pc |-> "undoZone", z |-> j.z, todo |-> <<>>]) /\ NoKernel
    <3>1. Request([pc |-> "undoZone", z |-> j.z, todo |-> <<>>], lastId')
      BY <2>1 DEF Request, Pcs, Grows
    <3> QED
      BY <1>0, <2>3, <3>1, GoTyped DEF TypeInv, NoKernel
  <2> QED
    BY <1>4, <2>2, <2>3 DEF CreateZoneAddZone
<1>5. CASE CreateZoneJoin(p)
  <2>1. j \in [pc : {"autoJoin", "autoMember", "join", "addMember", "undoJoin"},
               z : ZoneIds(lastId), n : NodeIds(lastId), ip : Pool]
    BY <1>5 DEF CreateZoneJoin, At, TypeInv, RequestsOK, Request
  <2>2. Request([j EXCEPT !.pc = "autoMember"], lastId')
    BY <2>1 DEF Request, Pcs, Grows
  <2> QED
    BY <1>0, <1>1, <1>5, <2>1, <2>2, GoTyped DEF TypeInv, CreateZoneJoin, NoKernel
<1>6. CASE CreateZoneMember(p)
  <2>1. j.z \in ZoneIds(lastId)
    BY <1>6 DEF CreateZoneMember, At, TypeInv, RequestsOK, Request
  <2>2. AddMember(j.z, j.ip) => KernelOK'
    BY DEF AddMember, KernelOK, TypeInv, Grows
  <2> QED
    BY <1>0, <1>1, <1>6, <2>1, <2>2, GoTyped, DoneTyped DEF TypeInv, CreateZoneMember, NoKernel
<1>7. CASE CreateZoneUndo(p)
  <2>1. j.z \in ZoneIds(lastId) /\ (j.todo = <<>> \/ j.todo = <<[c |-> "rmZone", z |-> j.z]>>)
    BY <1>7 DEF CreateZoneUndo, At, TypeInv, RequestsOK, Request, Rollback
  <2>2. [c |-> "rmZone", z |-> j.z] \in Calls(lastId')
    BY <2>1 DEF Calls, Grows
  <2>3. <<[c |-> "rmZone", z |-> j.z]>> \in Seq(Calls(lastId')) /\ <<>> \in Seq(Calls(lastId'))
    BY <2>2
  <2>4. j.todo \in Seq(Calls(lastId'))
    BY <2>1, <2>3, Zenon
  <2> QED
    BY <1>0, <1>7, <2>4, BestEffortTyped DEF TypeInv, CreateZoneUndo, NoKernel
<1> QED
  BY <1>2, <1>3, <1>4, <1>5, <1>6, <1>7

\* joinZone, leaveZone, kickMember, changeZonePassword.
LEMMA MembershipTyped ==
    ASSUME TypeInv, Grows(lastId, lastId'), NEW p \in Procs,
           \/ JoinStart(p) \/ JoinRow(p) \/ JoinMember(p) \/ JoinUndo(p)
           \/ LeaveStart(p) \/ KickStart(p) \/ LeaveRow(p)
           \/ PasswordStart(p) \/ PasswordUpdate(p)
    PROVE  RequestsOK' /\ KernelOK'
<1> DEFINE j == job[p]
<1>0. UNCHANGED kvars => KernelOK'
  BY DEF kvars, KernelOK, TypeInv, Grows
<1>1. ASSUME NEW z \in DOMAIN zone, NEW n \in DOMAIN node, Exit(p, z, n) PROVE RequestsOK'
  <2>1. Request([pc |-> "leave", z |-> z, n |-> n, k |-> node[n].key, ip |-> node[n].ip], lastId')
    BY RowTypes DEF TypeInv, Request, Pcs, Grows
  <2> QED
    BY <1>1, <2>1, GoTyped DEF Exit, TypeInv
<1>2. CASE JoinStart(p)
  <2>1. PICK z \in DOMAIN zone, n \in DOMAIN node :
           Go(p, [pc |-> "join", z |-> z, n |-> n, ip |-> node[n].ip])
    BY <1>2 DEF JoinStart
  <2>2. Request([pc |-> "join", z |-> z, n |-> n, ip |-> node[n].ip], lastId')
    BY RowTypes DEF TypeInv, Request, Pcs, Grows
  <2> QED
    BY <1>0, <1>2, <2>1, <2>2, GoTyped DEF TypeInv, JoinStart, NoKernel
<1>3. CASE JoinRow(p)
  <2>1. j \in [pc : {"autoJoin", "autoMember", "join", "addMember", "undoJoin"},
               z : ZoneIds(lastId), n : NodeIds(lastId), ip : Pool]
    BY <1>3 DEF JoinRow, At, TypeInv, RequestsOK, Request
  <2>2. Request([j EXCEPT !.pc = "addMember"], lastId')
    BY <2>1 DEF Request, Pcs, Grows
  <2> QED
    BY <1>0, <1>3, <2>2, GoTyped, DoneTyped DEF TypeInv, JoinRow, NoKernel
<1>4. CASE JoinMember(p)
  <2>1. j \in [pc : {"autoJoin", "autoMember", "join", "addMember", "undoJoin"},
               z : ZoneIds(lastId), n : NodeIds(lastId), ip : Pool]
    BY <1>4 DEF JoinMember, At, TypeInv, RequestsOK, Request
  <2>2. Request([j EXCEPT !.pc = "undoJoin"], lastId')
    BY <2>1 DEF Request, Pcs, Grows
  <2>3. AddMember(j.z, j.ip) => KernelOK'
    BY DEF AddMember, KernelOK, TypeInv, Grows
  <2> QED
    BY <1>0, <1>4, <2>2, <2>3, GoTyped, DoneTyped DEF TypeInv, JoinMember, NoKernel
<1>5. CASE JoinUndo(p)
  BY <1>0, <1>5, DoneTyped DEF TypeInv, JoinUndo, NoKernel
<1>6. CASE LeaveStart(p)
  BY <1>0, <1>1, <1>6 DEF LeaveStart, NoKernel
<1>7. CASE KickStart(p)
  BY <1>0, <1>1, <1>7 DEF KickStart, ZonesOf, NoKernel
<1>8. CASE LeaveRow(p)
  <2> DEFINE c1 == [c |-> "rmMember", z |-> j.z, ip |-> j.ip]
             c2 == [c |-> "detach", z |-> j.z, n |-> j.n, k |-> j.k, ip |-> j.ip]
  <2>1. j \in [pc : {"leave"}, z : ZoneIds(lastId), n : NodeIds(lastId), k : Keys, ip : Pool]
    BY <1>8 DEF LeaveRow, At, TypeInv, RequestsOK, Request
  <2>2. c1 \in Calls(lastId') /\ c2 \in Calls(lastId')
    BY <2>1 DEF Calls, Grows
  <2>3. <<c1, c2>> \in Seq(Calls(lastId'))
    BY <2>2
  <2>4. CASE BestEffort(p, <<c1, c2>>)
    BY <1>0, <1>8, <2>3, <2>4, BestEffortTyped DEF TypeInv, LeaveRow, NoKernel
  <2>5. CASE Done(p)
    BY <1>0, <1>8, <2>5, DoneTyped DEF TypeInv, LeaveRow, NoKernel
  <2> QED
    BY <1>8, <2>4, <2>5 DEF LeaveRow
<1>9. CASE PasswordStart(p)
  <2>1. PICK z \in DOMAIN zone, h \in Hashes : Go(p, [pc |-> "setPassword", z |-> z, h |-> h])
    BY <1>9 DEF PasswordStart
  <2>2. Request([pc |-> "setPassword", z |-> z, h |-> h], lastId')
    BY RowTypes DEF TypeInv, Request, Pcs, Grows
  <2> QED
    BY <1>0, <1>9, <2>1, <2>2, GoTyped DEF TypeInv, PasswordStart, NoKernel
<1>10. CASE PasswordUpdate(p)
  BY <1>0, <1>10, DoneTyped DEF TypeInv, PasswordUpdate, NoKernel
<1> QED
  BY <1>2, <1>3, <1>4, <1>5, <1>6, <1>7, <1>8, <1>9, <1>10

\* deleteZone.
LEMMA DeleteZoneTyped ==
    ASSUME TypeInv, Grows(lastId, lastId'), NEW p \in Procs,
           DeleteZoneStart(p) \/ DeleteZoneDetach(p) \/ DeleteZoneRow(p)
    PROVE  RequestsOK' /\ KernelOK'
<1> DEFINE j == job[p]
<1>0. KernelOK'
  BY DEF kvars, KernelOK, TypeInv, Grows, DeleteZoneStart, DeleteZoneDetach, DeleteZoneRow, NoKernel
<1>1. CASE DeleteZoneStart(p)
  <2>1. PICK z \in DOMAIN zone : Go(p, [pc |-> "detachZone", z |-> z])
    BY <1>1 DEF DeleteZoneStart
  <2>2. Request([pc |-> "detachZone", z |-> z], lastId')
    BY RowTypes DEF TypeInv, Request, Pcs, Grows
  <2> QED
    BY <1>0, <2>1, <2>2, GoTyped DEF TypeInv
<1>2. CASE DeleteZoneDetach(p)
  <2> DEFINE ns == {ann[a].node : a \in Reclaimed(OfZone(j.z))}
  <2>1. j.z \in ZoneIds(lastId)
    BY <1>2 DEF DeleteZoneDetach, At, TypeInv, RequestsOK, Request
  <2>2. ns \in SUBSET NodeIds(lastId)
    BY RowTypes DEF TypeInv, Reclaimed
  <2> HIDE DEF ns
  <2>3. Request([pc |-> "deleteZone", z |-> j.z, ns |-> ns], lastId')
    BY <2>1, <2>2 DEF Request, Pcs, Grows
  <2> QED
    BY <1>0, <1>2, <2>3, GoTyped, DoneTyped DEF TypeInv, DeleteZoneDetach, ns
<1>3. CASE DeleteZoneRow(p)
  <2> DEFINE l  == lastId'
             S  == {[c |-> "recomputeByID", n |-> n] : n \in j.ns}
             f  == [n \in j.ns |-> [c |-> "recomputeByID", n |-> n]]
             c1 == <<[c |-> "rmZone", z |-> j.z]>>
  <2>1. j.z \in ZoneIds(lastId) /\ j.ns \in SUBSET NodeIds(lastId)
    BY <1>3 DEF DeleteZoneRow, At, TypeInv, RequestsOK, Request
  <2>2. IsFiniteSet(S)
    <3>1. IsFiniteSet(j.ns)
      BY <2>1, IdsFinite DEF TypeInv
    <3>2. DOMAIN f = j.ns /\ {f[n] : n \in j.ns} = S
      OBVIOUS
    <3> HIDE DEF f, S
    <3> QED
      BY <3>1, <3>2, FiniteValues
  <2>3. S \subseteq Calls(l) /\ [c |-> "rmZone", z |-> j.z] \in Calls(l)
    BY <2>1 DEF Calls, Grows
  <2>4. c1 \in Seq(Calls(l)) /\ SetToSeq(S) \in Seq(Calls(l))
    BY <2>2, <2>3, ListedCalls
  <2> HIDE DEF l, S, c1
  <2>5. c1 \o SetToSeq(S) \in Seq(Calls(l))
    BY <2>4
  <2>6. CASE BestEffort(p, c1 \o SetToSeq(S))
    BY <1>0, <2>5, <2>6, BestEffortTyped DEF TypeInv, l
  <2>7. CASE Done(p)
    BY <1>0, <2>7, DoneTyped DEF TypeInv
  <2> QED
    BY <1>3, <2>6, <2>7 DEF DeleteZoneRow, c1, S
<1> QED
  BY <1>1, <1>2, <1>3

\* createAnnouncement, deleteAnnouncement.
LEMMA AnnouncementTyped ==
    ASSUME TypeInv, Grows(lastId, lastId'), NEW p \in Procs,
           \/ AnnounceStart(p) \/ AnnounceTx(p) \/ AnnounceRoutes(p) \/ AnnouncePeer(p)
           \/ AnnounceZoneRoute(p) \/ AnnounceUndo(p)
           \/ WithdrawStart(p) \/ WithdrawDetach(p)
    PROVE  RequestsOK' /\ KernelOK'
<1> DEFINE j == job[p]
           G == [pc : {"routes", "addRoute"}, z : ZoneIds(lastId), n : NodeIds(lastId), k : Keys,
                 ip : Pool, a : AnnIds(lastId), b : Block]
<1>0. UNCHANGED kvars => KernelOK'
  BY DEF kvars, KernelOK, TypeInv, Grows
<1>1. ASSUME j.z \in ZoneIds(lastId), j.n \in NodeIds(lastId), j.k \in Keys, j.ip \in Pool
      PROVE  /\ \A a \in AnnIds(lastId'), b \in Block :
                   /\ Request(Growing(j, a, b), lastId')
                   /\ Request([Growing(j, a, b) EXCEPT !.pc = "addRoute"], lastId')
             /\ j.a \in AnnIds(lastId) => Request(Undo(j), lastId')
             /\ Recompute(j) \in Calls(lastId')
  BY <1>1 DEF Growing, Undo, Recompute, Request, Pcs, Grows, Calls
<1>2. CASE AnnounceStart(p)
  <2>1. PICK z \in DOMAIN zone, n \in DOMAIN node, r \in RealBlocks :
           Go(p, [pc |-> "announce", z |-> z, n |-> n, r |-> r, k |-> node[n].key,
                  ip |-> node[n].ip])
    BY <1>2 DEF AnnounceStart
  <2>2. Request([pc |-> "announce", z |-> z, n |-> n, r |-> r, k |-> node[n].key,
                 ip |-> node[n].ip], lastId')
    BY RowTypes DEF TypeInv, Request, Pcs, Grows
  <2> QED
    BY <1>0, <1>2, <2>1, <2>2, GoTyped DEF TypeInv, AnnounceStart, NoKernel
<1>3. CASE AnnounceTx(p)
  <2> DEFINE b == AllocateBlock(SynthPool, j.r.len, SynthInUse)
  <2>1. j \in [pc : {"announce"}, z : ZoneIds(lastId), n : NodeIds(lastId), r : RealBlocks, k : Keys,
               ip : Pool]
    BY <1>3 DEF AnnounceTx, At, TypeInv, RequestsOK, Request
  <2>2. CASE Done(p)
    BY <1>0, <1>3, <2>2, DoneTyped DEF TypeInv, AnnounceTx, NoKernel
  <2>3. CASE Announce(j.n, j.r, j.z) /\ Go(p, Growing(j, lastId.ann + 1, b))
    <3>1. lastId.ann + 1 \in AnnIds(lastId')
      BY <2>3, StoreAssumption DEF Announce, AnnIds, TypeInv, IInv, StoreTypeOK
    <3>2. b \in Block
      <4>1. SynthInUse \in SUBSET Block
        BY RowTypes DEF TypeInv, SynthInUse
      <4>2. b # NoBlock
        BY <2>3 DEF Announce, Announceable
      <4> QED
        BY <2>1, <4>1, <4>2, AllocatedIsFree, StoreAssumption DEF Block
    <3> HIDE DEF b
    <3>3. Request(Growing(j, lastId.ann + 1, b), lastId')
      BY <1>1, <2>1, <3>1, <3>2
    <3> QED
      BY <1>0, <1>3, <2>3, <3>3, GoTyped DEF TypeInv, AnnounceTx, NoKernel
  <2>4. CASE \E a \in AnnsOf({j.n}) : Go(p, Growing(j, a, ann[a].synth))
    <3>1. PICK a \in AnnsOf({j.n}) : Go(p, Growing(j, a, ann[a].synth))
      BY <2>4
    <3>2. a \in AnnIds(lastId') /\ ann[a].synth \in Block
      BY RowTypes DEF TypeInv, AnnsOf, Grows
    <3>3. Request(Growing(j, a, ann[a].synth), lastId')
      BY <1>1, <2>1, <3>2
    <3> QED
      BY <1>0, <1>3, <3>1, <3>3, GoTyped DEF TypeInv, AnnounceTx, NoKernel
  <2> QED
    BY <1>3, <2>2, <2>3, <2>4 DEF AnnounceTx
<1>4. CASE AnnounceRoutes(p)
  <2>1. j \in G
    BY <1>4 DEF AnnounceRoutes, At, TypeInv, RequestsOK, Request
  <2> DEFINE rs == RoutesForNode(j.n)
  <2>2. rs \in SUBSET Block
    BY RowTypes DEF TypeInv, RoutesForNode, AnnsOf
  <2> HIDE DEF rs
  <2>3. Request([pc |-> "setRoutes", z |-> j.z, n |-> j.n, k |-> j.k, ip |-> j.ip, a |-> j.a,
                 b |-> j.b, rs |-> rs], lastId')
    BY <2>1, <2>2 DEF Request, Pcs, Grows
  <2>4. Request(Undo(j), lastId')
    BY <1>1, <2>1
  <2> QED
    BY <1>0, <1>4, <2>3, <2>4, GoTyped DEF TypeInv, AnnounceRoutes, NoKernel, rs
<1>5. CASE AnnouncePeer(p)
  <2>1. j \in [pc : {"setRoutes"}, z : ZoneIds(lastId), n : NodeIds(lastId), k : Keys, ip : Pool,
               a : AnnIds(lastId), b : Block, rs : SUBSET Block]
    BY <1>5 DEF AnnouncePeer, At, TypeInv, RequestsOK, Request
  <2>2. Request([Growing(j, j.a, j.b) EXCEPT !.pc = "addRoute"], lastId') /\ Request(Undo(j), lastId')
    BY <1>1, <2>1 DEF Grows
  <2>3. SetPeerRoutes(j.k, j.ip, j.rs) => KernelOK'
    BY <2>1 DEF SetPeerRoutes, KernelOK, TypeInv, Grows
  <2> QED
    BY <1>0, <1>5, <2>2, <2>3, GoTyped DEF TypeInv, AnnouncePeer, NoKernel
<1>6. CASE AnnounceZoneRoute(p)
  <2>1. j \in G
    BY <1>6 DEF AnnounceZoneRoute, At, TypeInv, RequestsOK, Request
  <2>2. Request(Undo(j), lastId')
    BY <1>1, <2>1
  <2>3. AddZoneRoute(j.z, j.b) => KernelOK'
    BY DEF AddZoneRoute, KernelOK, TypeInv, Grows
  <2> QED
    BY <1>0, <1>6, <2>2, <2>3, GoTyped, DoneTyped DEF TypeInv, AnnounceZoneRoute, NoKernel
<1>7. CASE AnnounceUndo(p)
  <2>1. j \in [pc : {"undoAnnounce"}, z : ZoneIds(lastId), n : NodeIds(lastId), k : Keys, ip : Pool,
               a : AnnIds(lastId)]
    BY <1>7 DEF AnnounceUndo, At, TypeInv, RequestsOK, Request
  <2>2. Recompute(j) \in Calls(lastId')
    BY <1>1, <2>1
  <2>3. <<Recompute(j)>> \in Seq(Calls(lastId'))
    BY <2>2
  <2>4. CASE BestEffort(p, <<Recompute(j)>>)
    BY <1>0, <1>7, <2>3, <2>4, BestEffortTyped DEF TypeInv, AnnounceUndo, NoKernel
  <2>5. CASE Done(p)
    BY <1>0, <1>7, <2>5, DoneTyped DEF TypeInv, AnnounceUndo, NoKernel
  <2> QED
    BY <1>7, <2>4, <2>5 DEF AnnounceUndo
<1>8. CASE WithdrawStart(p)
  <2>1. PICK z \in DOMAIN zone, a \in DOMAIN ann :
           Go(p, [pc |-> "withdraw", z |-> z, a |-> a, b |-> ann[a].synth, n |-> ann[a].node,
                  k |-> node[ann[a].node].key, ip |-> node[ann[a].node].ip])
    BY <1>8 DEF WithdrawStart
  <2>2. Request([pc |-> "withdraw", z |-> z, a |-> a, b |-> ann[a].synth, n |-> ann[a].node,
                 k |-> node[ann[a].node].key, ip |-> node[ann[a].node].ip], lastId')
    BY RowTypes DEF TypeInv, Request, Pcs, Grows
  <2> QED
    BY <1>0, <1>8, <2>1, <2>2, GoTyped DEF TypeInv, WithdrawStart, NoKernel
<1>9. CASE WithdrawDetach(p)
  <2>1. j \in [pc : {"withdraw"}, z : ZoneIds(lastId), a : AnnIds(lastId), b : Block,
               n : NodeIds(lastId), k : Keys, ip : Pool]
    BY <1>9 DEF WithdrawDetach, At, TypeInv, RequestsOK, Request
  <2> DEFINE c1 == <<[c |-> "rmRoute", z |-> j.z, b |-> j.b]>>
             c2 == <<Recompute(j)>>
             l  == lastId'
  <2>2. [c |-> "rmRoute", z |-> j.z, b |-> j.b] \in Calls(l) /\ Recompute(j) \in Calls(l)
    <3>1. Recompute(j) \in Calls(l)
      BY <1>1, <2>1
    <3>2. [c |-> "rmRoute", z |-> j.z, b |-> j.b] \in Calls(l)
      BY <2>1 DEF Calls, Grows
    <3> QED
      BY <3>1, <3>2
  <2>3. c1 \in Seq(Calls(l)) /\ c2 \in Seq(Calls(l))
    BY <2>2
  <2> HIDE DEF c1, c2, l
  <2>4. c1 \o c2 \in Seq(Calls(l)) /\ c1 \o <<>> \in Seq(Calls(l))
    BY <2>3
  <2>5. Withdrawal(j) \in Seq(Calls(l))
    BY <2>4, Zenon DEF Withdrawal, c1, c2
  <2>6. CASE BestEffort(p, Withdrawal(j))
    BY <1>0, <1>9, <2>5, <2>6, BestEffortTyped DEF TypeInv, WithdrawDetach, NoKernel, l
  <2>7. CASE Done(p)
    BY <1>0, <1>9, <2>7, DoneTyped DEF TypeInv, WithdrawDetach, NoKernel
  <2> QED
    BY <1>9, <2>6, <2>7 DEF WithdrawDetach
<1> QED
  BY <1>2, <1>3, <1>4, <1>5, <1>6, <1>7, <1>8, <1>9

\* The first of the calls that are left, and the rest of them.
LEMMA TodoTyped ==
    ASSUME TypeInv, NEW p \in Procs, At(p, "todo")
    PROVE  Next1(p) \in Calls(lastId) /\ Rest(p) \in Seq(Calls(lastId))
<1> DEFINE s == job[p].todo
<1>1. s \in Seq(Calls(lastId)) /\ s # <<>>
  BY DEF At, TypeInv, RequestsOK, Request
<1> HIDE DEF s
<1>2. Head(s) \in Calls(lastId) /\ Tail(s) \in Seq(Calls(lastId))
  BY <1>1
<1> QED
  BY <1>2 DEF Next1, Rest, s

\* deleteUser, and the best-effort calls of every handler.
LEMMA TailTyped ==
    ASSUME TypeInv, Grows(lastId, lastId'), NEW p \in Procs,
           DeleteUserStart(p) \/ TodoKernel(p) \/ TodoRecompute(p) \/ TodoDetach(p)
    PROVE  RequestsOK' /\ KernelOK'
<1>0. UNCHANGED kvars => KernelOK'
  BY DEF kvars, KernelOK, TypeInv, Grows
<1>1. CASE DeleteUserStart(p)
  <2>1. PICK t \in DOMAIN user : DeleteUser(t) /\ BestEffort(p, UserCleanup(t))
    BY <1>1 DEF DeleteUserStart
  <2>2. lastId' = lastId
    BY <2>1 DEF DeleteUser
  <2>3. UserCleanup(t) \in Seq(Calls(lastId'))
    <3>1. /\ \A n \in DOMAIN node :
                /\ [c |-> "rmPeer", k |-> node[n].key] \in Calls(lastId)
                /\ [c |-> "recompute", n |-> n, k |-> node[n].key, ip |-> node[n].ip] \in Calls(lastId)
          /\ \A z \in DOMAIN zone, n \in DOMAIN node :
                [c |-> "rmMember", z |-> z, ip |-> node[n].ip] \in Calls(lastId)
          /\ \A z \in DOMAIN zone, a \in DOMAIN ann :
                [c |-> "rmRoute", z |-> z, b |-> ann[a].synth] \in Calls(lastId)
          /\ \A z \in ZonesOf(t) : [c |-> "rmZone", z |-> z] \in Calls(lastId)
      BY RowTypes DEF TypeInv, Calls, ZonesOf
    <3> QED
      BY <2>2, <3>1, UserCleanupCalls DEF TypeInv
  <2> QED
    BY <1>0, <1>1, <2>1, <2>3, BestEffortTyped DEF TypeInv, DeleteUserStart, NoKernel
<1> DEFINE c == Next1(p)
           l == lastId
<1>2. CASE TodoKernel(p)
  <2>1. c \in Calls(l) /\ Rest(p) \in Seq(Calls(lastId')) /\ lastId' = lastId
    BY <1>2, TodoTyped, NoDbGrows DEF TodoKernel
  <2>2. KernelCall(c) => KernelOK'
    <3>1. CASE c.c = "setPeer" /\ SetPeerRoutes(c.k, c.ip, c.rs)
      <4>1. c.k \in Keys
        BY <2>1, <3>1 DEF Calls
      <4> QED
        BY <2>1, <3>1, <4>1 DEF SetPeerRoutes, KernelOK, TypeInv
    <3> QED
      BY <2>1, <3>1 DEF KernelCall, RemovePeer, RemoveMember, RemoveZoneRoute, DeleteZoneSets,
                        KernelOK, TypeInv
  <2> QED
    BY <1>0, <1>2, <2>1, <2>2, BestEffortTyped DEF TodoKernel, TypeInv, NoKernel
<1>3. CASE TodoRecompute(p)
  <2>1. c \in Calls(l) /\ Rest(p) \in Seq(Calls(l)) /\ lastId' = lastId
    BY <1>3, TodoTyped, NoDbGrows DEF TodoRecompute
  <2> DEFINE gone == c.c = "recomputeByID" /\ c.n \notin DOMAIN node
             k    == IF c.c = "recompute" THEN c.k ELSE node[c.n].key
             ip   == IF c.c = "recompute" THEN c.ip ELSE node[c.n].ip
             rs   == RoutesForNode(c.n)
             d    == [c |-> "setPeer", k |-> k, ip |-> ip, rs |-> rs]
             todo == IF gone THEN Rest(p) ELSE <<d>> \o Rest(p)
  <2>2. todo \in Seq(Calls(l))
    <3>1. CASE ~ gone
      <4>1. k \in Keys /\ ip \in Pool
        <5>1. CASE c.c = "recompute"
          BY <2>1, <5>1 DEF Calls
        <5>2. CASE c.c # "recompute"
          <6>1. c.n \in DOMAIN node
            BY <1>3, <3>1, <5>2 DEF TodoRecompute
          <6> QED
            BY <5>2, <6>1, RowTypes DEF TypeInv
        <5> QED
          BY <5>1, <5>2
      <4>2. rs \in SUBSET Block
        BY RowTypes DEF TypeInv, RoutesForNode, AnnsOf
      <4> HIDE DEF k, ip, rs
      <4>3. d \in Calls(l)
        BY <4>1, <4>2 DEF Calls
      <4> HIDE DEF d
      <4>4. <<d>> \o Rest(p) \in Seq(Calls(l))
        BY <2>1, <4>3
      <4> QED
        BY <3>1, <4>4
    <3> QED
      BY <2>1, <3>1
  <2>3. BestEffort(p, todo) \/ BestEffort(p, Rest(p))
    BY <1>3 DEF TodoRecompute
  <2> HIDE DEF todo
  <2> QED
    BY <1>0, <1>3, <2>1, <2>2, <2>3, BestEffortTyped DEF TodoRecompute, TypeInv, NoKernel
<1>4. CASE TodoDetach(p)
  <2>1. c \in Calls(l) /\ Rest(p) \in Seq(Calls(l)) /\ c.c = "detach"
    BY <1>4, TodoTyped DEF TodoDetach
  <2>2. c \in [c : {"detach"}, z : ZoneIds(l), n : NodeIds(l), k : Keys, ip : Pool]
    BY <2>1 DEF Calls
  <2>3. lastId' = lastId
    BY <1>4, NoDbGrows DEF TodoDetach, DetachAllForNodeZone, DetachSet
  <2> DEFINE gone == OfNodeZone(c.n, c.z)
             pre  == SetToSeq({[c |-> "rmRoute", z |-> c.z, b |-> ann[t[1]].synth] : t \in gone})
                        \o (IF Reclaimed(gone) # {} THEN <<Recompute(c)>> ELSE <<>>)
             todo == pre \o Rest(p)
  <2>4. /\ Recompute(c) \in Calls(l)
        /\ \A a \in DOMAIN ann : [c |-> "rmRoute", z |-> c.z, b |-> ann[a].synth] \in Calls(l)
    BY <2>2, RowTypes DEF TypeInv, Recompute, Calls
  <2>5. todo \in Seq(Calls(l))
    BY <2>1, <2>4, DetachCalls DEF TypeInv
  <2>6. BestEffort(p, todo) \/ BestEffort(p, Rest(p))
    BY <1>4 DEF TodoDetach
  <2> HIDE DEF todo
  <2> QED
    BY <1>0, <1>4, <2>1, <2>3, <2>5, <2>6, BestEffortTyped DEF TodoDetach, TypeInv, NoKernel
<1> QED
  BY <1>1, <1>2, <1>3, <1>4

\* A request's step fails one call at most, and only while calls may still fail.
LEMMA RequestCounts ==
    ASSUME NEW p \in Procs, Start(p) \/ Step(p)
    PROVE  /\ UNCHANGED <<phase, crashes>>
           /\ UNCHANGED faults \/ (faults < MaxFaults /\ faults' = faults + 1)
<1>1. CASE Start(p)
  BY <1>1 DEF Start, env, NoFault, RegisterStart, DeleteNodeStart, CreateZoneStart, JoinStart,
         LeaveStart, KickStart, PasswordStart, DeleteZoneStart, AnnounceStart, WithdrawStart,
         DeleteUserStart
<1>2. CASE Step(p)
  BY <1>2 DEF Step, env, NoFault, Fault, RegisterInsert, RegisterRealloc, RegisterAddPeer,
         RegisterUndo, DeleteNodeSnapshot, DeleteNodeLookup, DeleteNodeRow, CreateZoneInsert,
         CreateZoneAddZone, CreateZoneJoin, CreateZoneMember, CreateZoneUndo, JoinRow, JoinMember,
         JoinUndo, LeaveRow, PasswordUpdate, DeleteZoneDetach, DeleteZoneRow, AnnounceTx,
         AnnounceRoutes, AnnouncePeer, AnnounceZoneRoute, AnnounceUndo, WithdrawDetach, TodoKernel,
         TodoRecompute, TodoDetach
<1> QED
  BY <1>1, <1>2

\* Every step keeps the types.
LEMMA TypeStep ==
    ASSUME TypeInv, JobInv, [NextRelay]_rvars PROVE TypeInv'
<1>1. IInv' /\ [NextStore]_dbvars
  BY RelayStep, NextPreserves DEF TypeInv
<1>2. Grows(lastId, lastId')
  BY <1>1, StoreGrows DEF TypeInv
<1>3. CASE \E p \in Procs : Start(p) \/ Step(p)
  <2>1. RequestsOK' /\ KernelOK'
    BY <1>2, <1>3, RegisterTyped, DeleteNodeTyped, CreateZoneTyped, MembershipTyped,
       DeleteZoneTyped, AnnouncementTyped, TailTyped DEF Start, Step
  <2>2. CountersOK'
    BY <1>3, RequestCounts, RelayAssumption DEF TypeInv, CountersOK
  <2> QED
    BY <1>1, <2>1, <2>2 DEF TypeInv
<1>4. ASSUME UNCHANGED job PROVE RequestsOK'
  <2>1. ASSUME NEW q \in Procs PROVE Request(job[q], lastId')
    BY <1>2, RequestGrows DEF TypeInv, RequestsOK
  <2> QED
    BY <1>4, <2>1 DEF TypeInv, RequestsOK
<1>5. CASE NewUser
  <2>1. KernelOK' /\ CountersOK'
    BY <1>2, <1>5 DEF NewUser, NoKernel, NoFault, kvars, TypeInv, KernelOK, CountersOK, Grows
  <2> QED
    BY <1>1, <1>4, <1>5, <2>1 DEF NewUser, TypeInv
<1>6. CASE Crash
  <2>1. KernelOK' /\ CountersOK'
    BY <1>2, <1>6, RelayAssumption
    DEF Crash, NoKernel, NoFault, kvars, TypeInv, KernelOK, CountersOK, Grows
  <2>2. RequestsOK'
    BY <1>6 DEF Crash, RequestsOK, Request, Idle, Pcs
  <2> QED
    BY <1>1, <2>1, <2>2 DEF TypeInv
<1>7. CASE Boot
  <2>1. UNCHANGED job /\ CountersOK'
    BY <1>7 DEF Boot, BootInterface, BootPeers, BootClear, BootBuild, BootStep, NoFault, TypeInv,
                CountersOK
  <2>2. DOMAIN PeersFromDb \subseteq Keys /\ DOMAIN ZonesFromDb \subseteq ZoneIds(lastId)
    BY RowTypes DEF PeersFromDb, ZonesFromDb, TypeInv
  <2> HIDE DEF PeersFromDb, ZonesFromDb
  <2>3. KernelOK'
    BY <1>2, <1>7, <2>2 DEF Boot, BootInterface, BootPeers, BootClear, BootBuild, ReplacePeers,
                            ClearTable, BuildTable, TypeInv, KernelOK, Grows
  <2> QED
    BY <1>1, <1>4, <2>1, <2>3 DEF TypeInv
<1>8. CASE UNCHANGED rvars
  <2>1. UNCHANGED job /\ KernelOK' /\ CountersOK'
    BY <1>2, <1>8 DEF rvars, kvars, TypeInv, KernelOK, CountersOK, Grows
  <2> QED
    BY <1>1, <1>4, <2>1 DEF TypeInv
<1> QED
  BY <1>3, <1>5, <1>6, <1>7, <1>8 DEF NextRelay

\* The relay starts with everything typed.
LEMMA InitTyped == InitRelay => TypeInv /\ JobInv
<1> SUFFICES ASSUME InitRelay PROVE TypeInv /\ JobInv
  OBVIOUS
<1>1. IInv /\ JobInv
  BY InitEstablishes DEF InitRelay, JobInv, Carries, Idle
<1>2. RequestsOK
  BY DEF InitRelay, RequestsOK, Request, Idle, Pcs
<1>3. DOMAIN PeersFromDb \subseteq Keys /\ DOMAIN ZonesFromDb \subseteq ZoneIds(lastId)
  BY <1>1, RowTypes DEF PeersFromDb, ZonesFromDb
<1> HIDE DEF PeersFromDb, ZonesFromDb
<1>4. KernelOK /\ CountersOK
  BY <1>3, RelayAssumption DEF InitRelay, KernelOK, CountersOK
<1> QED
  BY <1>1, <1>2, <1>4 DEF TypeInv

\* The fields of a typed request.
LEMMA RequestFields ==
    ASSUME NEW l, l.node \in Nat, NEW j, Request(j, l)
    PROVE  /\ "ip" \in DOMAIN j => \/ j.ip \in Pool
                                   \/ j.pc \in {"insertZone", "addZone"} /\ j.n = 0
           /\ "n" \in DOMAIN j => j.n \in 0 .. l.node
           /\ "z" \in DOMAIN j => j.z \in 1 .. l.zone
           /\ "a" \in DOMAIN j => j.a \in 1 .. l.ann
           /\ "tries" \in DOMAIN j => j.tries \in 1 .. MaxAllocRetries
<1> USE DEF Request, NodeIds, ZoneIds, AnnIds
<1>1. CASE j.pc \in {"idle", "insertNode", "realloc"}
  BY <1>1 DEF Idle
<1>2. CASE j.pc \in {"addPeer", "undoNode", "snapshot"}
  BY <1>2
<1>3. CASE j.pc \in {"lookup", "deleteNode"}
  BY <1>3
<1>4. CASE j.pc \in {"insertZone", "addZone"}
  BY <1>4
<1>5. CASE j.pc \in {"autoJoin", "autoMember", "join", "addMember", "undoJoin"}
  BY <1>5
<1>6. CASE j.pc \in {"undoZone", "leave", "setPassword", "detachZone", "deleteZone"}
  BY <1>6 DEF Rollback
<1>7. CASE j.pc \in {"announce", "routes", "setRoutes"}
  BY <1>7
<1>8. CASE j.pc \in {"addRoute", "undoAnnounce", "withdraw"}
  BY <1>8
<1>9. CASE j.pc = "todo"
  BY <1>9
<1> QED
  BY <1>1, <1>2, <1>3, <1>4, <1>5, <1>6, <1>7, <1>8, <1>9 DEF Pcs

(***************************************************************************)
(* The types: whatever requests interleave, fail or are cut short, every   *)
(* one works on rows whose ids were handed out and, above all, on an       *)
(* address of the pool, on the retry after a lost race too; the kernel     *)
(* knows only registered keys and zones that were created (registerNode,   *)
(* the best-effort tails of every handler, app.Run).                       *)
(***************************************************************************)
THEOREM RelayTypeCorrect == SpecRelay => []RelayTypeOK
<1>1. TypeInv /\ JobInv /\ [NextRelay]_rvars => TypeInv' /\ JobInv'
  BY TypeStep, RelayStep DEF TypeInv
<1>2. TypeInv => RelayTypeOK
  <2> SUFFICES ASSUME TypeInv PROVE RelayTypeOK
    OBVIOUS
  <2>1. lastId.node \in Nat
    BY StoreAssumption DEF TypeInv, IInv, StoreTypeOK
  <2>2. ASSUME NEW p \in Procs PROVE Request(job[p], lastId)
    BY DEF TypeInv, RequestsOK
  <2> QED
    BY <2>1, <2>2, RequestFields
    DEF TypeInv, RequestsOK, KernelOK, CountersOK, RelayTypeOK, ZoneIds, Pool
<1> QED
  BY <1>1, <1>2, InitTyped, PTL DEF SpecRelay

-----------------------------------------------------------------------------
(* Leaked blocks *)

OneAtATime == \A p, q \in Procs : p = q

\* The requests that may delete a zone without looking at its attachments.
ZoneDeleters == {"addZone", "autoJoin", "autoMember", "undoZone", "deleteZone"}

\* Such a request's zone has no attachment: it is new, or was just detached.
DeletesEmptied ==
    \A p \in Procs : job[p].pc \in ZoneDeleters => \A t \in att : t[2] # job[p].z

LeakInv == TypeInv /\ JobInv /\ NoLeakedBlock /\ DeletesEmptied

\* No transaction but the deletion of a zone takes an announcement's last
\* attachment and leaves the announcement.
LEMMA TxKeepsAttached ==
    ASSUME IInv, NoLeakedBlock,
           \/ UNCHANGED <<ann, att>>
           \/ \E n : DeleteNode(n)
           \/ \E n, r, z : Announce(n, r, z) \/ AttachAgain(n, r, z)
           \/ \E gone : DetachSet(gone)
           \/ \E u : DeleteUser(u)
    PROVE  NoLeakedBlock'
<1>1. CASE UNCHANGED <<ann, att>>
  BY <1>1 DEF NoLeakedBlock, Attached
<1>2. ASSUME NEW n, DeleteNode(n) PROVE NoLeakedBlock'
  BY <1>2 DEF DeleteNode, Without, NoLeakedBlock, Attached
<1>3. ASSUME NEW n, NEW r, NEW z, Announce(n, r, z) PROVE NoLeakedBlock'
  <2> SUFFICES ASSUME NEW a \in DOMAIN ann' PROVE \E t \in att' : t[1] = a
    BY DEF NoLeakedBlock, Attached
  <2> DEFINE s == <<lastId.ann + 1, z>>
  <2>1. att' = att \cup {s} /\ DOMAIN ann' = DOMAIN ann \cup {lastId.ann + 1}
    BY <1>3 DEF Announce, Put
  <2>2. CASE a = lastId.ann + 1
    <3>1. s[1] = a /\ s \in att'
      BY <2>1, <2>2
    <3> QED
      BY <3>1
  <2>3. CASE a \in DOMAIN ann
    BY <2>1, <2>3 DEF NoLeakedBlock, Attached
  <2> QED
    BY <2>1, <2>2, <2>3
<1>4. ASSUME NEW n, NEW r, NEW z, AttachAgain(n, r, z) PROVE NoLeakedBlock'
  BY <1>4 DEF AttachAgain, NoLeakedBlock, Attached
<1>5. ASSUME NEW gone, DetachSet(gone) PROVE NoLeakedBlock'
  BY <1>5 DEF DetachSet, Without, Reclaimed, NoLeakedBlock, Attached
<1>6. ASSUME NEW u, DeleteUser(u) PROVE NoLeakedBlock'
  BY <1>6 DEF DeleteUser, NoLeakedBlock, Attached
<1> QED
  BY <1>1, <1>2, <1>3, <1>4, <1>5, <1>6

\* What a step leaves behind when it is the only request's.
LEMMA OnlyRequest ==
    ASSUME OneAtATime, NEW p \in Procs,
           job'[p].pc \in ZoneDeleters => \A t \in att' : t[2] # job'[p].z
    PROVE  DeletesEmptied'
  BY DEF OneAtATime, DeletesEmptied

\* A request goes on, is answered, or turns to its best-effort calls.
LEMMA Moves ==
    ASSUME JobInv, NEW p \in Procs
    PROVE  /\ \A j : Go(p, j) => job'[p] = j
           /\ Done(p) => job'[p].pc = "idle"
           /\ \A todo : BestEffort(p, todo) => job'[p].pc \in {"idle", "todo"}
           /\ \A x : [job[p] EXCEPT !.pc = x].pc = x
<1>1. ASSUME NEW j, Go(p, j) PROVE job'[p] = j
  BY <1>1 DEF Go, JobInv
<1>2. ASSUME Done(p) PROVE job'[p].pc = "idle"
  BY <1>1, <1>2 DEF Done, Idle
<1>3. ASSUME NEW todo, BestEffort(p, todo) PROVE job'[p].pc \in {"idle", "todo"}
  <2> DEFINE x == IF todo = <<>> THEN Idle ELSE [pc |-> "todo", todo |-> todo]
  <2>1. x.pc \in {"idle", "todo"}
    BY DEF Idle
  <2>2. Go(p, x)
    BY <1>3 DEF BestEffort
  <2> HIDE DEF x
  <2> QED
    BY <1>1, <2>1, <2>2
<1>4. ASSUME NEW x PROVE [job[p] EXCEPT !.pc = x].pc = x
  BY DEF JobInv, Carries
<1> QED
  BY <1>1, <1>2, <1>3, <1>4

\* registerNode, deleteNode.
LEMMA NodesLeakNothing ==
    ASSUME OneAtATime, LeakInv, NEW p \in Procs,
           \/ RegisterStart(p) \/ RegisterInsert(p) \/ RegisterRealloc(p)
           \/ RegisterAddPeer(p) \/ RegisterUndo(p)
           \/ DeleteNodeStart(p) \/ DeleteNodeSnapshot(p) \/ DeleteNodeLookup(p)
           \/ DeleteNodeRow(p)
    PROVE  NoLeakedBlock' /\ DeletesEmptied'
<1> DEFINE j == job[p]
<1>1. NoLeakedBlock'
  <2>1. UNCHANGED <<ann, att>> \/ \E n : DeleteNode(n)
    BY DEF RegisterStart, RegisterInsert, RegisterRealloc, RegisterAddPeer, RegisterUndo,
           DeleteNodeStart, DeleteNodeSnapshot, DeleteNodeLookup, DeleteNodeRow, NoDb, dbvars,
           InsertNode
  <2> QED
    BY <2>1, TxKeepsAttached DEF LeakInv, TypeInv
<1>2. job'[p].pc \notin ZoneDeleters
  <2>0. JobInv
    BY DEF LeakInv
  <2>1. CASE RegisterStart(p)
    BY <2>0, <2>1, Moves DEF RegisterStart, ZoneDeleters
  <2>2. CASE RegisterInsert(p)
    <3>1. j \in RegisterJob
      BY <2>2 DEF RegisterInsert, At, LeakInv, JobInv, Carries
    <3> DEFINE x == [j EXCEPT !.pc = "realloc", !.tries = @ + 1]
               y == [pc |-> "addPeer", n |-> lastId.node + 1, k |-> j.k, ip |-> j.ip]
    <3>2. x.pc = "realloc" /\ y.pc = "addPeer"
      BY <3>1 DEF RegisterJob
    <3>3. Done(p) \/ Go(p, x) \/ Go(p, y)
      BY <2>2 DEF RegisterInsert
    <3> HIDE DEF x, y
    <3> QED
      BY <2>0, <3>2, <3>3, Moves DEF ZoneDeleters
  <2>3. CASE RegisterRealloc(p)
    <3>1. j \in RegisterJob
      BY <2>3 DEF RegisterRealloc, At, LeakInv, JobInv, Carries
    <3> DEFINE x == [j EXCEPT !.pc = "insertNode", !.ip = LowestFree(TakenIPs, FirstIP, LastIP)]
    <3>2. x.pc = "insertNode"
      BY <3>1 DEF RegisterJob
    <3>3. Done(p) \/ Go(p, x)
      BY <2>3 DEF RegisterRealloc
    <3> HIDE DEF x
    <3> QED
      BY <2>0, <3>2, <3>3, Moves DEF ZoneDeleters
  <2>4. CASE RegisterAddPeer(p)
    BY <2>0, <2>4, Moves DEF RegisterAddPeer, ZoneDeleters
  <2>5. CASE DeleteNodeStart(p)
    BY <2>0, <2>5, Moves DEF DeleteNodeStart, ZoneDeleters
  <2>6. CASE DeleteNodeSnapshot(p)
    BY <2>0, <2>6, Moves DEF DeleteNodeSnapshot, ZoneDeleters
  <2>7. CASE DeleteNodeLookup(p)
    BY <2>0, <2>7, Moves DEF DeleteNodeLookup, ZoneDeleters
  <2>8. CASE DeleteNodeRow(p) \/ RegisterUndo(p)
    BY <2>0, <2>8, Moves DEF DeleteNodeRow, RegisterUndo, ZoneDeleters
  <2> QED
    BY <2>1, <2>2, <2>3, <2>4, <2>5, <2>6, <2>7, <2>8
<1> QED
  BY <1>1, <1>2, OnlyRequest

\* createZone, deleteZone.
LEMMA ZonesLeakNothing ==
    ASSUME OneAtATime, LeakInv, NEW p \in Procs,
           \/ CreateZoneStart(p) \/ CreateZoneInsert(p) \/ CreateZoneAddZone(p)
           \/ CreateZoneJoin(p) \/ CreateZoneMember(p) \/ CreateZoneUndo(p)
           \/ DeleteZoneStart(p) \/ DeleteZoneDetach(p) \/ DeleteZoneRow(p)
    PROVE  NoLeakedBlock' /\ DeletesEmptied'
<1> DEFINE j == job[p]
<1>0. JobInv /\ IInv /\ NoLeakedBlock
  BY DEF LeakInv, TypeInv
<1>1. ASSUME \A t \in att : t[2] # j.z PROVE DeleteZone(j.z) => UNCHANGED <<ann, att>>
  BY <1>1 DEF DeleteZone
<1>2. CASE CreateZoneStart(p) \/ DeleteZoneStart(p)
  <2>1. job'[p].pc \notin ZoneDeleters
    BY <1>0, <1>2 DEF CreateZoneStart, DeleteZoneStart, ZoneDeleters, Go, JobInv
  <2>2. UNCHANGED <<ann, att>>
    BY <1>2 DEF CreateZoneStart, DeleteZoneStart, NoDb, dbvars
  <2> QED
    BY <1>0, <2>1, <2>2, OnlyRequest, TxKeepsAttached
<1>3. CASE CreateZoneInsert(p)
  <2>1. UNCHANGED <<ann, att>>
    BY <1>3 DEF CreateZoneInsert, InsertZone, NoDb, dbvars
  <2>2. \A t \in att : t[2] # lastId.zone + 1
    <3>1. lastId.zone \in Nat
      BY <1>0, StoreAssumption DEF IInv, StoreTypeOK
    <3>2. \A t \in att : t[2] \in 1 .. lastId.zone
      BY <1>0 DEF IInv, StoreTypeOK
    <3> QED
      BY <3>1, <3>2
  <2>3. job'[p].pc = "idle" \/ job'[p].z = lastId.zone + 1
    BY <1>0, <1>3, Moves DEF CreateZoneInsert
  <2>4. job'[p].pc \in ZoneDeleters => \A t \in att' : t[2] # job'[p].z
    BY <2>1, <2>2, <2>3 DEF ZoneDeleters
  <2> QED
    BY <1>0, <2>1, <2>4, OnlyRequest, TxKeepsAttached
<1>4. CASE CreateZoneAddZone(p) \/ CreateZoneJoin(p) \/ CreateZoneMember(p)
  <2>1. UNCHANGED <<ann, att>>
    BY <1>4 DEF CreateZoneAddZone, CreateZoneJoin, CreateZoneMember, Join, NoDb, dbvars
  <2>2. \A t \in att : t[2] # j.z
    BY <1>4 DEF CreateZoneAddZone, CreateZoneJoin, CreateZoneMember, At, LeakInv, DeletesEmptied,
                ZoneDeleters
  <2>3. job'[p].pc = "idle" \/ job'[p].z = j.z
    <3> DEFINE x == [j EXCEPT !.pc = "autoJoin"]
               y == [j EXCEPT !.pc = "autoMember"]
               w == [pc |-> "undoZone", z |-> j.z, todo |-> <<>>]
               v == Rollback(j.z)
    <3>1. x.z = j.z /\ y.z = j.z /\ w.z = j.z /\ v.z = j.z
      BY <1>4 DEF CreateZoneAddZone, CreateZoneJoin, CreateZoneMember, At, LeakInv, TypeInv,
                  RequestsOK, Request, Rollback
    <3>2. Done(p) \/ Go(p, x) \/ Go(p, y) \/ Go(p, w) \/ Go(p, v)
      BY <1>4 DEF CreateZoneAddZone, CreateZoneJoin, CreateZoneMember
    <3> HIDE DEF x, y, w, v
    <3> QED
      BY <1>0, <3>1, <3>2, Moves
  <2>4. job'[p].pc \in ZoneDeleters => \A t \in att' : t[2] # job'[p].z
    BY <2>1, <2>2, <2>3 DEF ZoneDeleters
  <2> QED
    BY <1>0, <2>1, <2>4, OnlyRequest, TxKeepsAttached
<1>5. CASE CreateZoneUndo(p) \/ DeleteZoneRow(p)
  <2>1. \A t \in att : t[2] # j.z
    BY <1>5 DEF CreateZoneUndo, DeleteZoneRow, At, LeakInv, DeletesEmptied, ZoneDeleters
  <2>2. UNCHANGED <<ann, att>>
    BY <1>1, <1>5, <2>1 DEF CreateZoneUndo, DeleteZoneRow, NoDb, dbvars
  <2>3. job'[p].pc \notin ZoneDeleters
    BY <1>0, <1>5, Moves DEF CreateZoneUndo, DeleteZoneRow, ZoneDeleters
  <2> QED
    BY <1>0, <2>2, <2>3, OnlyRequest, TxKeepsAttached
<1>6. CASE DeleteZoneDetach(p)
  <2>1. CASE Done(p) /\ NoDb
    <3>1. UNCHANGED <<ann, att>> /\ job'[p].pc \notin ZoneDeleters
      BY <1>0, <2>1, Moves DEF NoDb, dbvars, ZoneDeleters
    <3> QED
      BY <1>0, <3>1, OnlyRequest, TxKeepsAttached
  <2>2. CASE /\ DetachAllForZone(j.z)
             /\ Go(p, [pc |-> "deleteZone", z |-> j.z,
                       ns |-> {ann[a].node : a \in Reclaimed(OfZone(j.z))}])
    <3>1. NoLeakedBlock'
      BY <1>0, <2>2, TxKeepsAttached DEF DetachAllForZone
    <3>2. job'[p].z = j.z /\ \A t \in att' : t[2] # j.z
      BY <1>0, <2>2, Moves DEF DetachAllForZone, DetachSet, OfZone
    <3> QED
      BY <3>1, <3>2, OnlyRequest
  <2> QED
    BY <1>6, <2>1, <2>2 DEF DeleteZoneDetach
<1> QED
  BY <1>2, <1>3, <1>4, <1>5, <1>6

\* joinZone, leaveZone, kickMember, changeZonePassword.
LEMMA MembershipLeaksNothing ==
    ASSUME OneAtATime, LeakInv, NEW p \in Procs,
           \/ JoinStart(p) \/ JoinRow(p) \/ JoinMember(p) \/ JoinUndo(p)
           \/ LeaveStart(p) \/ KickStart(p) \/ LeaveRow(p)
           \/ PasswordStart(p) \/ PasswordUpdate(p)
    PROVE  NoLeakedBlock' /\ DeletesEmptied'
<1>1. UNCHANGED <<ann, att>>
  BY DEF JoinStart, JoinRow, JoinMember, JoinUndo, LeaveStart, KickStart, LeaveRow, PasswordStart,
         PasswordUpdate, Join, Leave, UpdatePassword, NoDb, dbvars
<1>2. JobInv
  BY DEF LeakInv
<1>3. job'[p].pc \notin ZoneDeleters
  <2>1. CASE JoinStart(p) \/ LeaveStart(p) \/ KickStart(p) \/ PasswordStart(p)
    BY <1>2, <2>1 DEF JoinStart, LeaveStart, KickStart, Exit, PasswordStart, ZoneDeleters, Go, JobInv
  <2>2. CASE JoinRow(p) \/ JoinMember(p)
    <3> DEFINE x == [job[p] EXCEPT !.pc = "addMember"]
               y == [job[p] EXCEPT !.pc = "undoJoin"]
    <3>1. x.pc = "addMember" /\ y.pc = "undoJoin"
      BY <1>2, Moves
    <3>2. Done(p) \/ Go(p, x) \/ Go(p, y)
      BY <2>2 DEF JoinRow, JoinMember
    <3> HIDE DEF x, y
    <3> QED
      BY <1>2, <3>1, <3>2, Moves DEF ZoneDeleters
  <2>3. CASE JoinUndo(p) \/ LeaveRow(p) \/ PasswordUpdate(p)
    BY <1>2, <2>3, Moves DEF JoinUndo, LeaveRow, PasswordUpdate, ZoneDeleters
  <2> QED
    BY <2>1, <2>2, <2>3
<1> QED
  BY <1>1, <1>3, OnlyRequest, TxKeepsAttached DEF LeakInv, TypeInv

\* createAnnouncement, deleteAnnouncement, deleteUser and the best-effort calls.
LEMMA AnnouncementsLeakNothing ==
    ASSUME OneAtATime, LeakInv, NEW p \in Procs,
           \/ AnnounceStart(p) \/ AnnounceTx(p) \/ AnnounceRoutes(p) \/ AnnouncePeer(p)
           \/ AnnounceZoneRoute(p) \/ AnnounceUndo(p)
           \/ WithdrawStart(p) \/ WithdrawDetach(p)
           \/ DeleteUserStart(p) \/ TodoKernel(p) \/ TodoRecompute(p) \/ TodoDetach(p)
    PROVE  NoLeakedBlock' /\ DeletesEmptied'
<1>1. \/ UNCHANGED <<ann, att>>
      \/ \E n, r, z : Announce(n, r, z) \/ AttachAgain(n, r, z)
      \/ \E gone : DetachSet(gone)
      \/ \E u : DeleteUser(u)
  <2>1. CASE AnnounceTx(p)
    BY <2>1 DEF AnnounceTx, NoDb, dbvars
  <2>2. CASE AnnounceUndo(p) \/ WithdrawDetach(p) \/ TodoDetach(p)
    BY <2>2 DEF AnnounceUndo, WithdrawDetach, TodoDetach, Detach, DetachAllForNodeZone, NoDb, dbvars
  <2>3. CASE DeleteUserStart(p)
    BY <2>3 DEF DeleteUserStart
  <2> QED
    BY <2>1, <2>2, <2>3 DEF AnnounceStart, AnnounceRoutes, AnnouncePeer, AnnounceZoneRoute,
                            WithdrawStart, TodoKernel, TodoRecompute, NoDb, dbvars
<1>2. JobInv
  BY DEF LeakInv
<1>3. job'[p].pc \notin ZoneDeleters
  <2>1. CASE AnnounceStart(p) \/ WithdrawStart(p)
    BY <1>2, <2>1 DEF AnnounceStart, WithdrawStart, ZoneDeleters, Go, JobInv
  <2>2. CASE AnnounceTx(p)
    <3>1. Done(p) \/ \E a, b : Go(p, Growing(job[p], a, b))
      BY <2>2 DEF AnnounceTx
    <3>2. \A a, b : Growing(job[p], a, b).pc = "routes"
      BY DEF Growing
    <3> QED
      BY <1>2, <3>1, <3>2, Moves DEF ZoneDeleters
  <2>3. CASE AnnounceRoutes(p) \/ AnnouncePeer(p) \/ AnnounceZoneRoute(p)
    BY <1>2, <2>3, Moves DEF AnnounceRoutes, AnnouncePeer, AnnounceZoneRoute, Growing, Undo,
                             ZoneDeleters
  <2>4. CASE AnnounceUndo(p) \/ WithdrawDetach(p) \/ DeleteUserStart(p)
    BY <1>2, <2>4, Moves DEF AnnounceUndo, WithdrawDetach, DeleteUserStart, ZoneDeleters
  <2>5. CASE TodoKernel(p) \/ TodoRecompute(p) \/ TodoDetach(p)
    BY <1>2, <2>5, Moves DEF TodoKernel, TodoRecompute, TodoDetach, ZoneDeleters
  <2> QED
    BY <2>1, <2>2, <2>3, <2>4, <2>5
<1> QED
  BY <1>1, <1>3, OnlyRequest, TxKeepsAttached DEF LeakInv, TypeInv

(***************************************************************************)
(* One request at a time, no synthetic block is ever leaked: whatever      *)
(* calls fail and wherever the relay is killed, every announcement stays   *)
(* attached to a zone, so that it can be withdrawn and its block returned  *)
(* (DetachAllForZone before ZoneRepo.Delete; rollbackZone of a zone that   *)
(* is still new).  With overlapping requests it fails: finding 2.          *)
(***************************************************************************)
THEOREM NoBlockLeaks == OneAtATime => (SpecRelay => []NoLeakedBlock)
<1> SUFFICES ASSUME OneAtATime PROVE SpecRelay => []NoLeakedBlock
  OBVIOUS
<1>1. InitRelay => LeakInv
  <2>1. InitRelay => NoLeakedBlock /\ DeletesEmptied
    BY DEF InitRelay, InitStore, NoLeakedBlock, DeletesEmptied
  <2> QED
    BY <2>1, InitTyped DEF LeakInv
<1>2. LeakInv /\ [NextRelay]_rvars => LeakInv'
  <2> SUFFICES ASSUME LeakInv, [NextRelay]_rvars PROVE LeakInv'
    OBVIOUS
  <2>1. TypeInv' /\ JobInv'
    BY TypeStep, RelayStep DEF LeakInv, TypeInv
  <2>2. CASE \E p \in Procs : Start(p) \/ Step(p)
    BY <2>1, <2>2, NodesLeakNothing, ZonesLeakNothing, MembershipLeaksNothing,
       AnnouncementsLeakNothing DEF LeakInv, Start, Step
  <2>3. CASE NewUser \/ Boot \/ UNCHANGED rvars
    <3>1. UNCHANGED <<ann, att, job>>
      BY <2>3 DEF NewUser, CreateUser, Boot, BootInterface, BootPeers, BootClear, BootBuild,
                  BootStep, NoDb, dbvars, rvars
    <3> QED
      BY <2>1, <3>1 DEF LeakInv, NoLeakedBlock, Attached, DeletesEmptied
  <2>4. CASE Crash
    <3>1. UNCHANGED <<ann, att>> /\ \A p \in Procs : job'[p].pc = "idle"
      BY <2>4 DEF Crash, NoDb, dbvars, Idle
    <3> QED
      BY <2>1, <3>1 DEF LeakInv, NoLeakedBlock, Attached, DeletesEmptied, ZoneDeleters
  <2> QED
    BY <2>2, <2>3, <2>4 DEF NextRelay
<1>3. LeakInv => NoLeakedBlock
  BY DEF LeakInv
<1> QED
  BY <1>1, <1>2, <1>3, PTL DEF SpecRelay

-----------------------------------------------------------------------------
(* Members and their announcements *)

ZoneCreation == {"insertZone", "addZone", "autoJoin", "autoMember", "undoZone"}

\* Request j has still to detach node n's announcements from zone z.
Detaches(j, z, n) ==
    j.pc = "todo" /\ \E i \in DOMAIN j.todo :
        j.todo[i].c = "detach" /\ j.todo[i].z = z /\ j.todo[i].n = n

\* Request j takes the sets only of zones outside Z, the live ones, and gives
\* up a membership only of such a zone.
Careful(j, Z) ==
    /\ j.pc \notin ZoneCreation
    /\ j.pc = "undoJoin" => j.z \notin Z
    /\ j.pc = "todo" => \A i \in DOMAIN j.todo : j.todo[i].c = "rmZone" => j.todo[i].z \notin Z

\* An announcement is attached for a member, or about to be detached.
Covered == \A t \in att : \/ <<t[2], ann[t[1]].node>> \in member
                          \/ \E p \in Procs : Detaches(job[p], t[2], ann[t[1]].node)

Members ==
    /\ DOMAIN zone \subseteq DOMAIN nft
    /\ \A p \in Procs : Careful(job[p], DOMAIN zone)
    /\ Covered

MemberInv == TypeInv /\ JobInv /\ Members

\* A transaction that attaches only for members and drops no membership of a
\* node it leaves attached.
KeepsMembers ==
    \A t \in att' :
        \/ <<t[2], ann'[t[1]].node>> \in member'
        \/ /\ t \in att /\ ann'[t[1]].node = ann[t[1]].node
           /\ <<t[2], ann[t[1]].node>> \notin member

\* All transactions but Leave are like that.
LEMMA TxKeepsMembers ==
    ASSUME IInv,
           \/ UNCHANGED <<ann, att, member>>
           \/ \E n : DeleteNode(n)
           \/ \E z : DeleteZone(z)
           \/ \E z, n : Join(z, n)
           \/ \E n, r, z : Announce(n, r, z) \/ AttachAgain(n, r, z)
           \/ \E gone : DetachSet(gone)
           \/ \E u : DeleteUser(u)
    PROVE  KeepsMembers
<1> USE DEF KeepsMembers
<1>0. \A t \in att : t[1] \in DOMAIN ann /\ t[2] \in DOMAIN zone
  BY DEF IInv, ReferentialIntegrity
<1>1. CASE UNCHANGED <<ann, att, member>>
  BY <1>1
<1>2. ASSUME NEW n, DeleteNode(n) PROVE KeepsMembers
  <2> SUFFICES ASSUME NEW t \in att', <<t[2], ann[t[1]].node>> \in member
               PROVE  <<t[2], ann'[t[1]].node>> \in member' /\ ann'[t[1]].node = ann[t[1]].node
    <3>1. \A t \in att' : t \in att /\ ann'[t[1]] = ann[t[1]]
      BY <1>0, <1>2 DEF DeleteNode, Without
    <3> QED
      BY <3>1
  <2>1. t \in att /\ t[1] \in DOMAIN ann /\ t[1] \notin AnnsOf({n})
    BY <1>0, <1>2 DEF DeleteNode
  <2>2. ann'[t[1]] = ann[t[1]] /\ ann[t[1]].node # n
    BY <1>2, <2>1 DEF DeleteNode, Without, AnnsOf
  <2> DEFINE m == <<t[2], ann[t[1]].node>>
  <2>3. m[2] # n /\ m \in member
    BY <2>2
  <2>4. m \in member'
    BY <1>2, <2>3 DEF DeleteNode
  <2> QED
    BY <2>2, <2>4
<1>3. ASSUME NEW z, DeleteZone(z) PROVE KeepsMembers
  <2> SUFFICES ASSUME NEW t \in att', <<t[2], ann[t[1]].node>> \in member
               PROVE  <<t[2], ann[t[1]].node>> \in member'
    BY <1>3 DEF DeleteZone
  <2> DEFINE m == <<t[2], ann[t[1]].node>>
  <2>1. m[1] # z /\ m \in member
    BY <1>3 DEF DeleteZone
  <2> QED
    BY <1>3, <2>1 DEF DeleteZone
<1>4. ASSUME NEW z, NEW n, Join(z, n) PROVE KeepsMembers
  BY <1>4 DEF Join
<1>5. ASSUME NEW n, NEW r, NEW z, Announce(n, r, z) PROVE KeepsMembers
  <2> DEFINE a == lastId.ann + 1
             s == AllocateBlock(SynthPool, r.len, SynthInUse)
  <2>0. a \notin DOMAIN ann
    BY StoreAssumption DEF IInv, StoreTypeOK
  <2>1. /\ att' = att \cup {<<a, z>>} /\ member' = member /\ <<z, n>> \in member
        /\ ann' = Put(ann, a, [node |-> n, real |-> r, synth |-> s])
    BY <1>5 DEF Announce, Announceable
  <2>2. ann'[a].node = n /\ \A x \in DOMAIN ann : ann'[x] = ann[x]
    BY <2>0, <2>1 DEF Put
  <2> HIDE DEF a, s
  <2> QED
    BY <1>0, <2>1, <2>2
<1>6. ASSUME NEW n, NEW r, NEW z, AttachAgain(n, r, z) PROVE KeepsMembers
  <2>1. PICK a \in AnnsOf({n}) : att' = att \cup {<<a, z>>}
    BY <1>6 DEF AttachAgain
  <2>2. ann[a].node = n /\ <<z, n>> \in member /\ UNCHANGED <<ann, member>>
    BY <1>6 DEF AttachAgain, AnnsOf
  <2> QED
    BY <2>1, <2>2
<1>7. ASSUME NEW gone, DetachSet(gone) PROVE KeepsMembers
  <2>1. \A t \in att' : t \in att /\ t[1] \notin Reclaimed(gone)
    BY <1>7 DEF DetachSet, Reclaimed
  <2>2. \A t \in att' : ann'[t[1]] = ann[t[1]]
    BY <1>0, <1>7, <2>1 DEF DetachSet, Without
  <2> QED
    BY <1>7, <2>1, <2>2 DEF DetachSet
<1>8. ASSUME NEW u, DeleteUser(u) PROVE KeepsMembers
  <2> SUFFICES ASSUME NEW t \in att'
               PROVE  /\ t \in att /\ ann'[t[1]].node = ann[t[1]].node
                      /\ <<t[2], ann[t[1]].node>> \in member => <<t[2], ann[t[1]].node>> \in member'
    OBVIOUS
  <2>1. t \in att /\ t[1] \in DOMAIN ann \ AnnsOf(NodesOf(u)) /\ t[2] \notin ZonesOf(u)
    BY <1>0, <1>8 DEF DeleteUser
  <2>2. ann'[t[1]] = ann[t[1]]
    BY <1>8, <2>1 DEF DeleteUser
  <2>3. ann[t[1]].node \notin NodesOf(u)
    BY <2>1 DEF AnnsOf
  <2> DEFINE m == <<t[2], ann[t[1]].node>>
  <2>4. m[1] \notin ZonesOf(u) /\ m[2] \notin NodesOf(u)
    BY <2>1, <2>3
  <2>5. m \in member => m \in member'
    BY <1>8, <2>4 DEF DeleteUser
  <2> QED
    BY <2>1, <2>2, <2>5
<1> QED
  BY <1>1, <1>2, <1>3, <1>4, <1>5, <1>6, <1>7, <1>8

\* A step of request p: the live zones keep their sets, and what it had to
\* detach is detached or stays on its list.
LEMMA MembersMove ==
    ASSUME MemberInv, NEW p \in Procs, NEW j, Go(p, j), Careful(j, DOMAIN zone'),
           DOMAIN zone' \subseteq DOMAIN zone, DOMAIN zone' \subseteq DOMAIN nft',
           \A t \in att' :
              \/ <<t[2], ann'[t[1]].node>> \in member'
              \/ Detaches(j, t[2], ann'[t[1]].node)
              \/ /\ t \in att /\ ann'[t[1]].node = ann[t[1]].node
                 /\ <<t[2], ann[t[1]].node>> \notin member
                 /\ ~ Detaches(job[p], t[2], ann[t[1]].node)
    PROVE  Members'
<1>1. job'[p] = j /\ \A q \in Procs : q # p => job'[q] = job[q]
  BY DEF MemberInv, JobInv, Go
<1>2. ASSUME NEW q \in Procs PROVE Careful(job'[q], DOMAIN zone')
  <2>1. CASE q = p
    BY <1>1, <2>1
  <2>2. CASE q # p
    <3>1. Careful(job[q], DOMAIN zone)
      BY DEF MemberInv, Members
    <3>2. Careful(job[q], DOMAIN zone')
      BY <3>1 DEF Careful
    <3> QED
      BY <1>1, <2>2, <3>2
  <2> QED
    BY <2>1, <2>2
<1>3. Covered'
  <2> SUFFICES ASSUME NEW t \in att', <<t[2], ann'[t[1]].node>> \notin member'
               PROVE  \E q \in Procs : Detaches(job'[q], t[2], ann'[t[1]].node)
    BY DEF Covered
  <2> HIDE DEF Detaches
  <2>1. CASE Detaches(j, t[2], ann'[t[1]].node)
    BY <1>1, <2>1
  <2>2. CASE /\ t \in att /\ ann'[t[1]].node = ann[t[1]].node
             /\ <<t[2], ann[t[1]].node>> \notin member
             /\ ~ Detaches(job[p], t[2], ann[t[1]].node)
    <3>1. PICK q \in Procs : Detaches(job[q], t[2], ann[t[1]].node)
      BY <2>2 DEF MemberInv, Members, Covered
    <3> QED
      BY <1>1, <2>2, <3>1
  <2> QED
    BY <2>1, <2>2
<1> QED
  BY <1>2, <1>3 DEF Members

\* A step of a request that has nothing to detach.
LEMMA MembersKept ==
    ASSUME MemberInv, NEW p \in Procs, job[p].pc # "todo", KeepsMembers,
           NEW j, Go(p, j), Careful(j, DOMAIN zone'),
           DOMAIN zone' \subseteq DOMAIN zone, DOMAIN nft \subseteq DOMAIN nft'
    PROVE  Members'
<1>1. DOMAIN zone' \subseteq DOMAIN nft'
  BY DEF MemberInv, Members
<1>2. \A z, n : ~ Detaches(job[p], z, n)
  BY DEF Detaches
<1> QED
  BY <1>1, <1>2, MembersMove DEF KeepsMembers

\* A request with no zone to create or to give up is careful.
LEMMA PlainIsCareful ==
    ASSUME NEW j, NEW Z, j.pc \notin ZoneCreation \cup {"undoJoin", "todo"} PROVE Careful(j, Z)
  BY DEF Careful

\* A request that turns to its best-effort calls is careful if they are.
LEMMA TailIsCareful ==
    ASSUME NEW Z, NEW C, NEW todo \in Seq(C), \A c \in C : c.c = "rmZone" => c.z \notin Z
    PROVE  Careful(IF todo = <<>> THEN Idle ELSE [pc |-> "todo", todo |-> todo], Z)
<1>1. CASE todo = <<>>
  BY <1>1 DEF Careful, Idle, ZoneCreation
<1>2. CASE todo # <<>>
  <2> DEFINE x == [pc |-> "todo", todo |-> todo]
  <2>1. x.pc = "todo" /\ x.todo = todo
    OBVIOUS
  <2>2. \A i \in DOMAIN todo : todo[i] \in C
    OBVIOUS
  <2> HIDE DEF x
  <2>3. Careful(x, Z)
    BY <2>1, <2>2 DEF Careful, ZoneCreation
  <2> QED
    BY <1>2, <2>3 DEF x
<1> QED
  BY <1>1, <1>2

\* No call fails, and no zone is created.
Undisturbed == FaultKinds = {} /\ "createZone" \notin Ops

\* registerNode, deleteNode.
LEMMA NodesKeepMembers ==
    ASSUME Undisturbed, MemberInv, NEW p \in Procs,
           \/ RegisterStart(p) \/ RegisterInsert(p) \/ RegisterRealloc(p)
           \/ RegisterAddPeer(p) \/ RegisterUndo(p)
           \/ DeleteNodeStart(p) \/ DeleteNodeSnapshot(p) \/ DeleteNodeLookup(p)
           \/ DeleteNodeRow(p)
    PROVE  Members'
<1> DEFINE j == job[p]
           Z == DOMAIN zone
<1>1. KeepsMembers
  <2>1. UNCHANGED <<ann, att, member>> \/ \E n : DeleteNode(n)
    BY DEF RegisterStart, RegisterInsert, RegisterRealloc, RegisterAddPeer, RegisterUndo,
           DeleteNodeStart, DeleteNodeSnapshot, DeleteNodeLookup, DeleteNodeRow, NoDb, dbvars,
           InsertNode
  <2> QED
    BY <2>1, TxKeepsMembers DEF MemberInv, TypeInv
<1>2. zone' = zone /\ nft' = nft /\ j.pc # "todo"
  <2>1. zone' = zone
    BY DEF RegisterStart, RegisterInsert, RegisterRealloc, RegisterAddPeer, RegisterUndo,
           DeleteNodeStart, DeleteNodeSnapshot, DeleteNodeLookup, DeleteNodeRow, NoDb, dbvars,
           InsertNode, DeleteNode
  <2>2. nft' = nft
    BY DEF RegisterStart, RegisterInsert, RegisterRealloc, RegisterAddPeer, RegisterUndo,
           DeleteNodeStart, DeleteNodeSnapshot, DeleteNodeLookup, DeleteNodeRow, NoKernel, kvars,
           AddPeer, SetPeerRoutes
  <2>3. j.pc # "todo"
    BY DEF RegisterStart, RegisterInsert, RegisterRealloc, RegisterAddPeer, RegisterUndo,
           DeleteNodeStart, DeleteNodeSnapshot, DeleteNodeLookup, DeleteNodeRow, Ready, At, Idle
  <2> QED
    BY <2>1, <2>2, <2>3
<1>3. \E x : Go(p, x) /\ Careful(x, Z)
  <2>0. Careful(Idle, Z)
    BY PlainIsCareful DEF Idle, ZoneCreation
  <2>1. CASE RegisterStart(p)
    BY <2>1, PlainIsCareful DEF RegisterStart, ZoneCreation
  <2>2. CASE RegisterInsert(p)
    <3>1. j \in RegisterJob
      BY <2>2 DEF RegisterInsert, At, MemberInv, JobInv, Carries
    <3> DEFINE x == [j EXCEPT !.pc = "realloc", !.tries = @ + 1]
               y == [pc |-> "addPeer", n |-> lastId.node + 1, k |-> j.k, ip |-> j.ip]
    <3>2. x.pc = "realloc" /\ y.pc = "addPeer"
      BY <3>1 DEF RegisterJob
    <3>3. Done(p) \/ Go(p, x) \/ Go(p, y)
      BY <2>2 DEF RegisterInsert
    <3> HIDE DEF x, y
    <3>4. Careful(x, Z) /\ Careful(y, Z)
      BY <3>2, PlainIsCareful DEF ZoneCreation
    <3> QED
      BY <2>0, <3>3, <3>4 DEF Done
  <2>3. CASE RegisterRealloc(p)
    <3>1. j \in RegisterJob
      BY <2>3 DEF RegisterRealloc, At, MemberInv, JobInv, Carries
    <3> DEFINE x == [j EXCEPT !.pc = "insertNode", !.ip = LowestFree(TakenIPs, FirstIP, LastIP)]
    <3>2. x.pc = "insertNode"
      BY <3>1 DEF RegisterJob
    <3>3. Done(p) \/ Go(p, x)
      BY <2>3 DEF RegisterRealloc
    <3> HIDE DEF x
    <3>4. Careful(x, Z)
      BY <3>2, PlainIsCareful DEF ZoneCreation
    <3> QED
      BY <2>0, <3>3, <3>4 DEF Done
  <2>4. CASE RegisterAddPeer(p) \/ RegisterUndo(p)
    BY <2>0, <2>4 DEF RegisterAddPeer, RegisterUndo, Undisturbed, Fault, Done
  <2>5. CASE DeleteNodeStart(p)
    BY <2>5, PlainIsCareful DEF DeleteNodeStart, ZoneCreation
  <2>6. CASE DeleteNodeSnapshot(p)
    BY <2>6, PlainIsCareful DEF DeleteNodeSnapshot, ZoneCreation, Undisturbed, Fault
  <2>7. CASE DeleteNodeLookup(p)
    <3> DEFINE x == [j EXCEPT !.pc = "deleteNode"]
    <3>1. x.pc = "deleteNode"
      BY Moves DEF MemberInv
    <3>2. Done(p) \/ Go(p, x)
      BY <2>7 DEF DeleteNodeLookup
    <3> HIDE DEF x
    <3>3. Careful(x, Z)
      BY <3>1, PlainIsCareful DEF ZoneCreation
    <3> QED
      BY <2>0, <3>2, <3>3 DEF Done
  <2>8. CASE DeleteNodeRow(p)
    <3> DEFINE C == {c \in Calls(lastId) : c.c # "rmZone"}
               s == NodeCleanup(j)
    <3>1. /\ j \in [pc : {"lookup", "deleteNode"}, n : NodeIds(lastId), k : Keys, ip : Pool,
                    zs : SUBSET ZoneIds(lastId), rs : SUBSET (ZoneIds(lastId) \X Block)]
          /\ IsFiniteSet(j.rs)
      BY <2>8 DEF DeleteNodeRow, At, MemberInv, TypeInv, RequestsOK, Request
    <3>2. IsFiniteSet(j.zs)
      BY <3>1, IdsFinite DEF MemberInv, TypeInv
    <3>3. /\ [c |-> "rmPeer", k |-> j.k] \in C
          /\ \A z \in j.zs : [c |-> "rmMember", z |-> z, ip |-> j.ip] \in C
          /\ \A r \in j.rs : [c |-> "rmRoute", z |-> r[1], b |-> r[2]] \in C
      BY <3>1 DEF Calls
    <3>4. \A c \in C : c.c = "rmZone" => c.z \notin Z
      OBVIOUS
    <3> HIDE DEF C
    <3>5. s \in Seq(C)
      BY <3>1, <3>2, <3>3, NodeCleanupCalls
    <3>6. BestEffort(p, s)
      BY <2>8 DEF DeleteNodeRow, Undisturbed, Fault
    <3> HIDE DEF s
    <3> QED
      BY <3>4, <3>5, <3>6, TailIsCareful DEF BestEffort
  <2> QED
    BY <2>1, <2>2, <2>3, <2>4, <2>5, <2>6, <2>7, <2>8
<1> QED
  BY <1>1, <1>2, <1>3, MembersKept

\* deleteZone; createZone is never under way.
LEMMA ZonesKeepMembers ==
    ASSUME Undisturbed, MemberInv, NEW p \in Procs,
           \/ CreateZoneStart(p) \/ CreateZoneInsert(p) \/ CreateZoneAddZone(p)
           \/ CreateZoneJoin(p) \/ CreateZoneMember(p) \/ CreateZoneUndo(p)
           \/ DeleteZoneStart(p) \/ DeleteZoneDetach(p) \/ DeleteZoneRow(p)
    PROVE  Members'
<1> DEFINE j == job[p]
<1>0. JobInv /\ IInv
  BY DEF MemberInv, TypeInv
<1>1. ~ CreateZoneStart(p)
  BY DEF CreateZoneStart, Ready, Undisturbed
<1>2. ~ (\/ CreateZoneInsert(p) \/ CreateZoneAddZone(p) \/ CreateZoneJoin(p)
         \/ CreateZoneMember(p) \/ CreateZoneUndo(p))
  <2>1. j.pc \notin ZoneCreation
    BY DEF MemberInv, Members, Careful
  <2> QED
    BY <2>1 DEF CreateZoneInsert, CreateZoneAddZone, CreateZoneJoin, CreateZoneMember,
                CreateZoneUndo, At, ZoneCreation
<1>3. /\ nft' = nft /\ j.pc # "todo"
  BY <1>1, <1>2 DEF DeleteZoneStart, DeleteZoneDetach, DeleteZoneRow, NoKernel, kvars, Ready, At, Idle
<1>4. CASE DeleteZoneStart(p)
  <2>1. KeepsMembers /\ zone' = zone
    BY <1>0, <1>4, TxKeepsMembers DEF DeleteZoneStart, NoDb, dbvars
  <2>2. \E x : Go(p, x) /\ Careful(x, DOMAIN zone')
    BY <1>4, PlainIsCareful DEF DeleteZoneStart, ZoneCreation
  <2> QED
    BY <1>3, <2>1, <2>2, MembersKept
<1>5. CASE DeleteZoneDetach(p)
  <2>1. DetachSet(OfZone(j.z))
    BY <1>5 DEF DeleteZoneDetach, DetachAllForZone, Undisturbed, Fault
  <2>2. KeepsMembers /\ zone' = zone
    BY <1>0, <2>1, TxKeepsMembers DEF DetachSet
  <2>3. \E x : Go(p, x) /\ Careful(x, DOMAIN zone')
    BY <1>5, PlainIsCareful DEF DeleteZoneDetach, ZoneCreation, Undisturbed, Fault
  <2> QED
    BY <1>3, <2>2, <2>3, MembersKept
<1>6. CASE DeleteZoneRow(p)
  <2>1. IF j.z \in DOMAIN zone THEN DeleteZone(j.z) ELSE NoDb
    BY <1>6 DEF DeleteZoneRow, Undisturbed, Fault
  <2>2. KeepsMembers
    BY <1>0, <2>1, TxKeepsMembers DEF NoDb, dbvars
  <2>3. DOMAIN zone' \subseteq DOMAIN zone /\ j.z \notin DOMAIN zone'
    BY <2>1 DEF DeleteZone, Without, NoDb, dbvars
  <2>4. j.z \in ZoneIds(lastId) /\ j.ns \in SUBSET NodeIds(lastId)
    BY <1>6 DEF DeleteZoneRow, At, MemberInv, TypeInv, RequestsOK, Request
  <2> DEFINE C == {c \in Calls(lastId) : c.c = "rmZone" => c.z \notin DOMAIN zone'}
             S == {[c |-> "recomputeByID", n |-> n] : n \in j.ns}
             f == [n \in j.ns |-> [c |-> "recomputeByID", n |-> n]]
             d == <<[c |-> "rmZone", z |-> j.z]>>
             s == d \o SetToSeq(S)
  <2>5. S \subseteq C /\ d \in Seq(C)
    BY <2>3, <2>4 DEF Calls
  <2>6. IsFiniteSet(S)
    <3>1. IsFiniteSet(j.ns)
      BY <1>0, <2>4, IdsFinite
    <3>2. DOMAIN f = j.ns /\ {f[n] : n \in j.ns} = S
      OBVIOUS
    <3> HIDE DEF f, S
    <3> QED
      BY <3>1, <3>2, FiniteValues
  <2>7. \A c \in C : c.c = "rmZone" => c.z \notin DOMAIN zone'
    OBVIOUS
  <2>8. BestEffort(p, s)
    BY <1>6 DEF DeleteZoneRow, Undisturbed, Fault
  <2> HIDE DEF C, S, d
  <2>9. s \in Seq(C)
    BY <2>5, <2>6, ListedCalls
  <2> HIDE DEF s
  <2>10. \E x : Go(p, x) /\ Careful(x, DOMAIN zone')
    BY <2>7, <2>8, <2>9, TailIsCareful DEF BestEffort
  <2> QED
    BY <1>3, <2>2, <2>3, <2>10, MembersKept
<1> QED
  BY <1>1, <1>2, <1>4, <1>5, <1>6

\* joinZone, leaveZone, kickMember, changeZonePassword.
LEMMA MembershipKeepsMembers ==
    ASSUME Undisturbed, MemberInv, NEW p \in Procs,
           \/ JoinStart(p) \/ JoinRow(p) \/ JoinMember(p) \/ JoinUndo(p)
           \/ LeaveStart(p) \/ KickStart(p) \/ LeaveRow(p)
           \/ PasswordStart(p) \/ PasswordUpdate(p)
    PROVE  Members'
<1> DEFINE j == job[p]
<1>0. JobInv /\ IInv /\ ~ Fault("db") /\ ~ Fault("kernel")
  BY DEF MemberInv, TypeInv, Undisturbed, Fault
<1>1. DOMAIN zone' = DOMAIN zone /\ DOMAIN nft' = DOMAIN nft /\ j.pc # "todo"
  <2>1. DOMAIN zone' = DOMAIN zone
    BY DEF JoinStart, JoinRow, JoinMember, JoinUndo, LeaveStart, KickStart, LeaveRow, PasswordStart,
           PasswordUpdate, Join, Leave, UpdatePassword, NoDb, dbvars
  <2>2. DOMAIN nft' = DOMAIN nft
    BY DEF JoinStart, JoinRow, JoinMember, JoinUndo, LeaveStart, KickStart, LeaveRow, PasswordStart,
           PasswordUpdate, NoKernel, kvars, AddMember
  <2>3. j.pc # "todo"
    BY DEF JoinStart, JoinRow, JoinMember, JoinUndo, LeaveStart, KickStart, LeaveRow, PasswordStart,
           PasswordUpdate, Ready, At, Idle
  <2> QED
    BY <2>1, <2>2, <2>3
<1>2. Careful(Idle, DOMAIN zone')
  BY PlainIsCareful DEF Idle, ZoneCreation
<1>3. CASE JoinStart(p) \/ LeaveStart(p) \/ KickStart(p) \/ PasswordStart(p)
  <2>1. UNCHANGED <<ann, att, member>>
    BY <1>3 DEF JoinStart, LeaveStart, KickStart, PasswordStart, NoDb, dbvars
  <2>2. \E x : Go(p, x) /\ Careful(x, DOMAIN zone')
    <3>1. CASE JoinStart(p)
      BY <3>1, PlainIsCareful DEF JoinStart, ZoneCreation
    <3>2. ASSUME NEW z, NEW n, Exit(p, z, n) PROVE \E x : Go(p, x) /\ Careful(x, DOMAIN zone')
      BY <3>2, PlainIsCareful DEF Exit, ZoneCreation
    <3>3. CASE LeaveStart(p)
      BY <3>2, <3>3 DEF LeaveStart
    <3>4. CASE KickStart(p)
      BY <3>2, <3>4 DEF KickStart
    <3>5. CASE PasswordStart(p)
      BY <3>5, PlainIsCareful DEF PasswordStart, ZoneCreation
    <3> QED
      BY <1>3, <3>1, <3>3, <3>4, <3>5
  <2> QED
    BY <1>0, <1>1, <2>1, <2>2, TxKeepsMembers, MembersKept
<1>4. CASE JoinRow(p)
  <2>1. UNCHANGED <<ann, att, member>> \/ \E z, n : Join(z, n)
    BY <1>4 DEF JoinRow, NoDb, dbvars
  <2> DEFINE x == [j EXCEPT !.pc = "addMember"]
  <2>2. x.pc = "addMember"
    BY <1>0, Moves
  <2>3. Done(p) \/ Go(p, x)
    BY <1>4 DEF JoinRow
  <2> HIDE DEF x
  <2>4. \E y : Go(p, y) /\ Careful(y, DOMAIN zone')
    BY <1>2, <2>2, <2>3, PlainIsCareful DEF Done, ZoneCreation
  <2> QED
    BY <1>0, <1>1, <2>1, <2>4, TxKeepsMembers, MembersKept
<1>5. CASE JoinMember(p)
  <2>1. UNCHANGED <<ann, att, member>>
    BY <1>5 DEF JoinMember, NoDb, dbvars
  <2> DEFINE x == [j EXCEPT !.pc = "undoJoin"]
  <2>2. x.pc = "undoJoin" /\ x.z = j.z
    <3>1. j \in [pc : {"autoJoin", "autoMember", "join", "addMember", "undoJoin"},
                 z : ZoneIds(lastId), n : NodeIds(lastId), ip : Pool]
      BY <1>5 DEF JoinMember, At, MemberInv, TypeInv, RequestsOK, Request
    <3> QED
      BY <3>1
  <2>3. Done(p) \/ (Go(p, x) /\ j.z \notin DOMAIN nft)
    BY <1>0, <1>5 DEF JoinMember
  <2> HIDE DEF x
  <2>4. j.z \notin DOMAIN nft => Careful(x, DOMAIN zone')
    BY <1>1, <2>2 DEF Careful, ZoneCreation, MemberInv, Members
  <2>5. \E y : Go(p, y) /\ Careful(y, DOMAIN zone')
    BY <1>2, <2>3, <2>4 DEF Done
  <2> QED
    BY <1>0, <1>1, <2>1, <2>5, TxKeepsMembers, MembersKept
<1>6. CASE JoinUndo(p)
  <2>1. j.z \notin DOMAIN zone
    BY <1>6 DEF JoinUndo, At, MemberInv, Members, Careful
  <2> DEFINE m == <<j.z, j.n>>
  <2>2. m \notin member
    <3>1. m[1] = j.z
      OBVIOUS
    <3> HIDE DEF m
    <3> QED
      BY <1>0, <2>1, <3>1 DEF IInv, ReferentialIntegrity
  <2>3. UNCHANGED <<ann, att, member>>
    BY <1>0, <1>6, <2>2 DEF JoinUndo, NoDb, dbvars
  <2>4. \E y : Go(p, y) /\ Careful(y, DOMAIN zone')
    BY <1>2, <1>6 DEF JoinUndo, Done
  <2> QED
    BY <1>0, <1>1, <2>3, <2>4, TxKeepsMembers, MembersKept
<1>7. CASE PasswordUpdate(p)
  <2>1. UNCHANGED <<ann, att, member>>
    BY <1>7 DEF PasswordUpdate, UpdatePassword, NoDb, dbvars
  <2>2. \E y : Go(p, y) /\ Careful(y, DOMAIN zone')
    BY <1>2, <1>7 DEF PasswordUpdate, Done
  <2> QED
    BY <1>0, <1>1, <2>1, <2>2, TxKeepsMembers, MembersKept
<1>8. CASE LeaveRow(p)
  <2>1. CASE Done(p) /\ NoDb
    <3>1. UNCHANGED <<ann, att, member>>
      BY <2>1 DEF NoDb, dbvars
    <3>2. KeepsMembers
      BY <1>0, <3>1, TxKeepsMembers
    <3>3. \E y : Go(p, y) /\ Careful(y, DOMAIN zone')
      BY <1>2, <2>1 DEF Done
    <3> QED
      BY <1>1, <3>2, <3>3, MembersKept
  <2> DEFINE d1 == [c |-> "rmMember", z |-> j.z, ip |-> j.ip]
             d2 == [c |-> "detach", z |-> j.z, n |-> j.n, k |-> j.k, ip |-> j.ip]
             s  == <<d1, d2>>
             x  == [pc |-> "todo", todo |-> s]
  <2>2. CASE Leave(j.z, j.n) /\ BestEffort(p, s)
    <3>1. /\ s # <<>> /\ DOMAIN s = {1, 2} /\ s[1].c = "rmMember" /\ s[2].c = "detach"
          /\ s[2].z = j.z /\ s[2].n = j.n
      OBVIOUS
    <3> HIDE DEF s
    <3>2. Go(p, x) /\ x.pc = "todo" /\ x.todo = s
      BY <2>2, <3>1 DEF BestEffort
    <3> HIDE DEF x
    <3>3. Careful(x, DOMAIN zone')
      BY <3>1, <3>2 DEF Careful, ZoneCreation
    <3>4. Detaches(x, j.z, j.n)
      BY <3>1, <3>2 DEF Detaches
    <3>5. \A z, n : ~ Detaches(j, z, n)
      BY <1>1 DEF Detaches
    <3>6. UNCHANGED <<ann, att>> /\ member' = member \ {<<j.z, j.n>>}
      BY <2>2 DEF Leave
    <3> HIDE DEF j
    <3>7. ASSUME NEW t \in att'
          PROVE  \/ <<t[2], ann'[t[1]].node>> \in member'
                 \/ Detaches(x, t[2], ann'[t[1]].node)
                 \/ /\ t \in att /\ ann'[t[1]].node = ann[t[1]].node
                    /\ <<t[2], ann[t[1]].node>> \notin member
                    /\ ~ Detaches(j, t[2], ann[t[1]].node)
      BY <3>4, <3>5, <3>6
    <3>8. DOMAIN zone' \subseteq DOMAIN nft'
      BY <1>1 DEF MemberInv, Members
    <3> QED
      BY <1>1, <3>2, <3>3, <3>7, <3>8, MembersMove DEF j
  <2> QED
    BY <1>0, <1>8, <2>1, <2>2 DEF LeaveRow
<1> QED
  BY <1>3, <1>4, <1>5, <1>6, <1>7, <1>8

\* createAnnouncement, deleteAnnouncement.
LEMMA AnnouncementsKeepMembers ==
    ASSUME Undisturbed, MemberInv, NEW p \in Procs,
           \/ AnnounceStart(p) \/ AnnounceTx(p) \/ AnnounceRoutes(p) \/ AnnouncePeer(p)
           \/ AnnounceZoneRoute(p) \/ AnnounceUndo(p)
           \/ WithdrawStart(p) \/ WithdrawDetach(p)
    PROVE  Members'
<1> DEFINE j == job[p]
           Z == DOMAIN zone
           l == lastId
<1>0. JobInv /\ IInv /\ ~ Fault("db") /\ ~ Fault("kernel")
  BY DEF MemberInv, TypeInv, Undisturbed, Fault
<1>1. KeepsMembers
  <2>1. \/ UNCHANGED <<ann, att, member>>
        \/ \E n, r, z : Announce(n, r, z) \/ AttachAgain(n, r, z)
        \/ \E gone : DetachSet(gone)
    <3>1. CASE AnnounceTx(p)
      BY <3>1 DEF AnnounceTx, NoDb, dbvars
    <3>2. CASE AnnounceUndo(p) \/ WithdrawDetach(p)
      BY <3>2 DEF AnnounceUndo, WithdrawDetach, Detach, NoDb, dbvars
    <3> QED
      BY <3>1, <3>2 DEF AnnounceStart, AnnounceRoutes, AnnouncePeer, AnnounceZoneRoute,
                        WithdrawStart, NoDb, dbvars
  <2> QED
    BY <1>0, <2>1, TxKeepsMembers
<1>2. zone' = zone /\ DOMAIN nft' = DOMAIN nft /\ j.pc # "todo"
  <2>1. zone' = zone
    BY DEF AnnounceStart, AnnounceTx, AnnounceRoutes, AnnouncePeer, AnnounceZoneRoute, AnnounceUndo,
           WithdrawStart, WithdrawDetach, Announce, AttachAgain, Detach, DetachSet, NoDb, dbvars
  <2>2. DOMAIN nft' = DOMAIN nft
    BY DEF AnnounceStart, AnnounceTx, AnnounceRoutes, AnnouncePeer, AnnounceZoneRoute, AnnounceUndo,
           WithdrawStart, WithdrawDetach, NoKernel, kvars, SetPeerRoutes, AddZoneRoute
  <2>3. j.pc # "todo"
    BY DEF AnnounceStart, AnnounceTx, AnnounceRoutes, AnnouncePeer, AnnounceZoneRoute, AnnounceUndo,
           WithdrawStart, WithdrawDetach, Ready, At, Idle
  <2> QED
    BY <2>1, <2>2, <2>3
<1>3. Careful(Idle, Z)
  BY PlainIsCareful DEF Idle, ZoneCreation
<1>4. \E x : Go(p, x) /\ Careful(x, Z)
  <2>1. CASE AnnounceStart(p)
    BY <2>1, PlainIsCareful DEF AnnounceStart, ZoneCreation
  <2>2. CASE AnnounceTx(p)
    <3>1. Done(p) \/ \E a, b : Go(p, Growing(j, a, b))
      BY <2>2 DEF AnnounceTx
    <3>2. \A a, b : Careful(Growing(j, a, b), Z)
      BY PlainIsCareful DEF Growing, ZoneCreation
    <3> QED
      BY <1>3, <3>1, <3>2 DEF Done
  <2>3. CASE AnnounceRoutes(p)
    BY <1>0, <2>3, PlainIsCareful DEF AnnounceRoutes, ZoneCreation
  <2>4. CASE AnnouncePeer(p)
    <3> DEFINE x == [Growing(j, j.a, j.b) EXCEPT !.pc = "addRoute"]
    <3>1. x.pc = "addRoute"
      BY DEF Growing
    <3>2. Go(p, x)
      BY <1>0, <2>4 DEF AnnouncePeer
    <3> HIDE DEF x
    <3> QED
      BY <3>1, <3>2, PlainIsCareful DEF ZoneCreation
  <2>5. CASE AnnounceZoneRoute(p)
    <3>1. Done(p) \/ Go(p, Undo(j))
      BY <2>5 DEF AnnounceZoneRoute
    <3>2. Careful(Undo(j), Z)
      BY PlainIsCareful DEF Undo, ZoneCreation
    <3> QED
      BY <1>3, <3>1, <3>2 DEF Done
  <2> DEFINE C == {c \in Calls(l) : c.c # "rmZone"}
  <2>6. \A c \in C : c.c = "rmZone" => c.z \notin Z
    OBVIOUS
  <2>7. CASE AnnounceUndo(p)
    <3> DEFINE d == Recompute(j)
    <3>1. d \in C
      BY <2>7 DEF AnnounceUndo, At, MemberInv, TypeInv, RequestsOK, Request, Recompute, Calls
    <3>2. Done(p) \/ BestEffort(p, <<d>>)
      BY <2>7 DEF AnnounceUndo
    <3> HIDE DEF C, d
    <3>3. <<d>> \in Seq(C)
      BY <3>1
    <3> QED
      BY <1>3, <2>6, <3>2, <3>3, TailIsCareful DEF Done, BestEffort
  <2>8. CASE WithdrawStart(p)
    BY <2>8, PlainIsCareful DEF WithdrawStart, ZoneCreation
  <2>9. CASE WithdrawDetach(p)
    <3> DEFINE d == Recompute(j)
               e == [c |-> "rmRoute", z |-> j.z, b |-> j.b]
               s == Withdrawal(j)
    <3>1. j \in [pc : {"withdraw"}, z : ZoneIds(l), a : AnnIds(l), b : Block, n : NodeIds(l), k : Keys,
                 ip : Pool]
      BY <2>9 DEF WithdrawDetach, At, MemberInv, TypeInv, RequestsOK, Request
    <3>2. d \in C /\ e \in C
      BY <3>1 DEF Recompute, Calls
    <3>3. s = <<e>> \o <<d>> \/ s = <<e>> \o <<>>
      BY DEF Withdrawal
    <3>4. Done(p) \/ BestEffort(p, s)
      BY <2>9 DEF WithdrawDetach
    <3> HIDE DEF C, d, e, s
    <3>5. s \in Seq(C)
      <4>1. <<e>> \o <<d>> \in Seq(C) /\ <<e>> \o <<>> \in Seq(C)
        BY <3>2
      <4> QED
        BY <3>3, <4>1, Zenon
    <3> QED
      BY <1>3, <2>6, <3>4, <3>5, TailIsCareful DEF Done, BestEffort
  <2> QED
    BY <2>1, <2>2, <2>3, <2>4, <2>5, <2>7, <2>8, <2>9
<1> QED
  BY <1>1, <1>2, <1>4, MembersKept

\* What is left of a list of calls after its first is made and others are put
\* before the rest.
LEMMA StillListed ==
    ASSUME NEW C, NEW s \in Seq(C), s # <<>>, NEW pre \in Seq(C), NEW i \in DOMAIN s, s[i] # Head(s)
    PROVE  \E k \in DOMAIN (pre \o Tail(s)) : (pre \o Tail(s))[k] = s[i]
<1>1. i \in 2 .. Len(s)
  OBVIOUS
<1> DEFINE k == Len(pre) + i - 1
<1>2. k \in DOMAIN (pre \o Tail(s)) /\ (pre \o Tail(s))[k] = s[i]
  BY <1>1
<1> QED
  BY <1>2

\* deleteUser.
LEMMA DeleteUserKeepsMembers ==
    ASSUME MemberInv, NEW p \in Procs, DeleteUserStart(p) PROVE Members'
<1>1. PICK u \in DOMAIN user : DeleteUser(u) /\ BestEffort(p, UserCleanup(u))
  BY DEF DeleteUserStart
<1>2. KeepsMembers
  BY <1>1, TxKeepsMembers DEF MemberInv, TypeInv
<1>3. DOMAIN zone' = DOMAIN zone \ ZonesOf(u) /\ nft' = nft /\ job[p].pc # "todo"
  BY <1>1 DEF DeleteUser, Without, DeleteUserStart, NoKernel, kvars, Ready, Idle
<1> DEFINE C == {c \in Calls(lastId) : c.c = "rmZone" => c.z \notin DOMAIN zone'}
           s == UserCleanup(u)
<1>4. \A c \in C : c.c = "rmZone" => c.z \notin DOMAIN zone'
  OBVIOUS
<1>5. /\ \A n \in DOMAIN node :
            /\ [c |-> "rmPeer", k |-> node[n].key] \in C
            /\ [c |-> "recompute", n |-> n, k |-> node[n].key, ip |-> node[n].ip] \in C
      /\ \A z \in DOMAIN zone, n \in DOMAIN node : [c |-> "rmMember", z |-> z, ip |-> node[n].ip] \in C
      /\ \A z \in DOMAIN zone, a \in DOMAIN ann : [c |-> "rmRoute", z |-> z, b |-> ann[a].synth] \in C
  BY RowTypes DEF MemberInv, TypeInv, Calls
<1>6. \A z \in ZonesOf(u) : [c |-> "rmZone", z |-> z] \in C
  BY <1>3, RowTypes DEF MemberInv, TypeInv, Calls, ZonesOf
<1> HIDE DEF C
<1>7. s \in Seq(C)
  BY <1>5, <1>6, UserCleanupCalls DEF MemberInv, TypeInv
<1> HIDE DEF s
<1>8. \E x : Go(p, x) /\ Careful(x, DOMAIN zone')
  BY <1>1, <1>4, <1>7, TailIsCareful DEF BestEffort, s
<1> QED
  BY <1>2, <1>3, <1>8, MembersKept

\* A request makes the first of its best-effort calls and lists others before
\* the rest: what it had to detach is detached by this call or still listed.
LEMMA TailMoves ==
    ASSUME MemberInv, NEW p \in Procs, At(p, "todo"), NEW C, NEW pre \in Seq(C), Calls(lastId) \subseteq C,
           \A c \in {pre[i] : i \in DOMAIN pre} : c.c # "rmZone",
           BestEffort(p, pre \o Rest(p)), KeepsMembers, zone' = zone, DOMAIN zone \subseteq DOMAIN nft',
           Next1(p).c = "detach" =>
              \A t \in att' : ~ (t[2] = Next1(p).z /\ ann'[t[1]].node = Next1(p).n)
    PROVE  Members'
<1> DEFINE s == job[p].todo
           r == pre \o Tail(s)
           x == IF r = <<>> THEN Idle ELSE [pc |-> "todo", todo |-> r]
<1>1. s \in Seq(C) /\ s # <<>> /\ job[p].pc = "todo"
  <2>1. s \in Seq(Calls(lastId)) /\ s # <<>> /\ job[p].pc = "todo"
    BY DEF At, MemberInv, TypeInv, RequestsOK, Request
  <2> HIDE DEF s
  <2> QED
    BY <2>1
<1>2. Go(p, x)
  BY DEF BestEffort, Rest
<1>3. \A i \in DOMAIN s : s[i].c = "rmZone" => s[i].z \notin DOMAIN zone
  BY <1>1 DEF MemberInv, Members, Careful
<1>4. Next1(p) = Head(s)
  BY DEF Next1
<1> HIDE DEF s
<1>5. r \in Seq(C)
  BY <1>1
<1>6. ASSUME NEW i \in DOMAIN r PROVE r[i].c = "rmZone" => r[i].z \notin DOMAIN zone
  <2>1. CASE i \in DOMAIN pre
    <3>1. r[i] = pre[i]
      BY <1>1, <2>1
    <3> QED
      BY <2>1, <3>1
  <2>2. CASE i \notin DOMAIN pre
    <3>1. (i - Len(pre) + 1) \in DOMAIN s /\ r[i] = s[i - Len(pre) + 1]
      BY <1>1, <2>2
    <3> QED
      BY <1>3, <3>1
  <2> QED
    BY <2>1, <2>2
<1>7. ASSUME NEW i \in DOMAIN s, s[i] # Head(s) PROVE \E k \in DOMAIN r : r[k] = s[i]
  BY <1>1, <1>7, StillListed
<1> HIDE DEF r
<1>8. r # <<>> => x.pc = "todo" /\ x.todo = r
  OBVIOUS
<1>9. Careful(x, DOMAIN zone')
  <2>1. CASE r = <<>>
    BY <2>1 DEF Careful, Idle, ZoneCreation
  <2>2. CASE r # <<>>
    <3> HIDE DEF x
    <3> QED
      BY <1>6, <1>8, <2>2 DEF Careful, ZoneCreation
  <2> QED
    BY <2>1, <2>2
<1> HIDE DEF x
<1>10. ASSUME NEW z, NEW n, Detaches(job[p], z, n), ~ (Head(s).c = "detach" /\ Head(s).z = z /\ Head(s).n = n)
       PROVE  Detaches(x, z, n)
  <2>1. PICK i \in DOMAIN s : s[i].c = "detach" /\ s[i].z = z /\ s[i].n = n
    BY <1>10 DEF Detaches, s
  <2>2. s[i] # Head(s)
    BY <1>10, <2>1
  <2>3. PICK k \in DOMAIN r : r[k] = s[i]
    BY <1>7, <2>2
  <2>4. r # <<>>
    BY <2>3
  <2> QED
    BY <1>8, <2>1, <2>3, <2>4 DEF Detaches
<1>11. ASSUME NEW t \in att'
       PROVE  \/ <<t[2], ann'[t[1]].node>> \in member'
              \/ Detaches(x, t[2], ann'[t[1]].node)
              \/ /\ t \in att /\ ann'[t[1]].node = ann[t[1]].node
                 /\ <<t[2], ann[t[1]].node>> \notin member
                 /\ ~ Detaches(job[p], t[2], ann[t[1]].node)
  <2>1. ~ (Head(s).c = "detach" /\ Head(s).z = t[2] /\ Head(s).n = ann'[t[1]].node)
    BY <1>4
  <2>2. Detaches(job[p], t[2], ann'[t[1]].node) => Detaches(x, t[2], ann'[t[1]].node)
    BY <1>10, <2>1
  <2> QED
    BY <2>2 DEF KeepsMembers
<1> QED
  BY <1>2, <1>9, <1>11, MembersMove

\* The best-effort calls of every handler.
LEMMA TailKeepsMembers ==
    ASSUME Undisturbed, MemberInv, NEW p \in Procs, TodoKernel(p) \/ TodoRecompute(p) \/ TodoDetach(p)
    PROVE  Members'
<1> DEFINE c == Next1(p)
           l == lastId
<1>0. IInv /\ TypeInv /\ DOMAIN zone \subseteq DOMAIN nft /\ ~ Fault("db") /\ ~ Fault("kernel")
  BY DEF MemberInv, Members, TypeInv, Undisturbed, Fault
<1>1. At(p, "todo")
  BY DEF TodoKernel, TodoRecompute, TodoDetach
<1>2. c \in Calls(l) /\ Rest(p) \in Seq(Calls(l))
  BY <1>0, <1>1, TodoTyped
<1>3. <<>> \o Rest(p) = Rest(p)
  BY <1>2
<1>4. c.c = "rmZone" => c.z \notin DOMAIN zone
  <2> DEFINE s == job[p].todo
  <2>1. s \in Seq(Calls(l)) /\ s # <<>> /\ \A i \in DOMAIN s : s[i].c = "rmZone" => s[i].z \notin DOMAIN zone
    BY <1>0, <1>1 DEF At, TypeInv, RequestsOK, Request, MemberInv, Members, Careful
  <2> HIDE DEF s
  <2>2. Head(s) = s[1] /\ 1 \in DOMAIN s
    BY <2>1
  <2> QED
    BY <2>1, <2>2 DEF Next1, s
<1>5. CASE TodoKernel(p)
  <2>1. KernelCall(c) /\ BestEffort(p, Rest(p)) /\ c.c # "detach" /\ NoDb
    BY <1>0, <1>5 DEF TodoKernel
  <2>2. DOMAIN zone \subseteq DOMAIN nft'
    BY <1>0, <1>4, <2>1 DEF KernelCall, RemovePeer, RemoveMember, RemoveZoneRoute, DeleteZoneSets,
                            SetPeerRoutes
  <2>3. KeepsMembers /\ zone' = zone
    BY <1>0, <2>1, TxKeepsMembers DEF NoDb, dbvars
  <2>4. <<>> \in Seq(Calls(l)) /\ DOMAIN <<>> = {}
    OBVIOUS
  <2> QED
    BY <1>1, <1>3, <2>1, <2>2, <2>3, <2>4, TailMoves
<1>6. CASE TodoRecompute(p)
  <2> DEFINE k  == IF c.c = "recompute" THEN c.k ELSE node[c.n].key
             ip == IF c.c = "recompute" THEN c.ip ELSE node[c.n].ip
             d  == [c |-> "setPeer", k |-> k, ip |-> ip, rs |-> RoutesForNode(c.n)]
  <2>1. BestEffort(p, Rest(p)) \/ BestEffort(p, <<d>> \o Rest(p))
    BY <1>6 DEF TodoRecompute
  <2>2. c.c # "detach" /\ NoDb /\ nft' = nft
    BY <1>6 DEF TodoRecompute, NoKernel, kvars
  <2>3. KeepsMembers /\ zone' = zone
    BY <1>0, <2>2, TxKeepsMembers DEF NoDb, dbvars
  <2>4. d.c = "setPeer"
    OBVIOUS
  <2> HIDE DEF d
  <2> DEFINE C == Calls(l) \cup {d}
  <2>5. /\ <<>> \in Seq(C) /\ <<d>> \in Seq(C) /\ Calls(l) \subseteq C
        /\ DOMAIN <<>> = {} /\ DOMAIN <<d>> = {1} /\ <<d>>[1] = d
    OBVIOUS
  <2>6. \A e \in {<<d>>[i] : i \in DOMAIN <<d>>} : e.c # "rmZone"
    BY <2>4, <2>5
  <2> HIDE DEF C
  <2>7. CASE BestEffort(p, Rest(p))
    BY <1>0, <1>1, <1>3, <2>2, <2>3, <2>5, <2>7, TailMoves
  <2>8. CASE BestEffort(p, <<d>> \o Rest(p))
    BY <1>0, <1>1, <2>2, <2>3, <2>5, <2>6, <2>8, TailMoves
  <2> QED
    BY <2>1, <2>7, <2>8
<1>7. CASE TodoDetach(p)
  <2> DEFINE gone == OfNodeZone(c.n, c.z)
             pre  == SetToSeq({[c |-> "rmRoute", z |-> c.z, b |-> ann[t[1]].synth] : t \in gone})
                        \o (IF Reclaimed(gone) # {} THEN <<Recompute(c)>> ELSE <<>>)
             C    == {d \in Calls(l) : d.c # "rmZone"}
  <2>1. c.c = "detach" /\ DetachSet(gone) /\ BestEffort(p, pre \o Rest(p)) /\ nft' = nft
    BY <1>0, <1>7 DEF TodoDetach, DetachAllForNodeZone, NoKernel, kvars
  <2>2. c \in [c : {"detach"}, z : ZoneIds(l), n : NodeIds(l), k : Keys, ip : Pool]
    BY <1>2, <2>1 DEF Calls
  <2>3. /\ Recompute(c) \in C
        /\ \A a \in DOMAIN ann : [c |-> "rmRoute", z |-> c.z, b |-> ann[a].synth] \in C
    BY <1>0, <2>2, RowTypes DEF Recompute, Calls
  <2>4. C \subseteq Calls(l) /\ \A d \in C : d.c # "rmZone"
    OBVIOUS
  <2> HIDE DEF C
  <2>5. pre \in Seq(C)
    <3>1. <<>> \in Seq(C)
      OBVIOUS
    <3> QED
      BY <1>0, <2>3, <3>1, DetachCalls
  <2>6. KeepsMembers /\ zone' = zone
    BY <1>0, <2>1, TxKeepsMembers DEF DetachSet
  <2>7. \A t \in att' : ~ (t[2] = c.z /\ ann'[t[1]].node = c.n)
    <3> SUFFICES ASSUME NEW t \in att', t[2] = c.z, ann'[t[1]].node = c.n PROVE FALSE
      OBVIOUS
    <3>1. t \in att /\ t \notin gone /\ t[1] \in DOMAIN ann /\ t[1] \notin Reclaimed(gone)
      BY <1>0, <2>1 DEF DetachSet, Reclaimed, IInv, ReferentialIntegrity
    <3>2. ann'[t[1]] = ann[t[1]]
      BY <2>1, <3>1 DEF DetachSet, Without
    <3> QED
      BY <3>1, <3>2 DEF OfNodeZone
  <2> HIDE DEF pre
  <2>8. pre \in Seq(Calls(l)) /\ \A d \in {pre[i] : i \in DOMAIN pre} : d.c # "rmZone"
    BY <2>4, <2>5
  <2> QED
    BY <1>0, <1>1, <2>1, <2>6, <2>7, <2>8, TailMoves
<1> QED
  BY <1>5, <1>6, <1>7

\* A relay that has served whatever it was asked: no request is in flight, the
\* kernel is what the database says, and a zone routes only its members' blocks.
AtRest ==
    /\ IInv /\ KernelMatches
    /\ job = [p \in Procs |-> Idle] /\ phase = "serving" /\ faults = 0 /\ crashes = 0
    /\ \A t \in att : <<t[2], ann[t[1]].node>> \in member

\* Such a relay has the invariant.
LEMMA AtRestHolds == AtRest => MemberInv
<1> SUFFICES ASSUME AtRest PROVE MemberInv
  OBVIOUS
<1>1. IInv /\ DOMAIN job = Procs /\ \A p \in Procs : job[p] = Idle
  BY DEF AtRest
<1>2. JobInv
  BY <1>1 DEF JobInv, Carries, Idle
<1>3. RequestsOK
  <2>1. Request(Idle, lastId)
    BY DEF Request, Idle, Pcs
  <2> QED
    BY <1>1, <2>1 DEF RequestsOK
<1>4. KernelOK /\ DOMAIN zone \subseteq DOMAIN nft
  <2>1. /\ DOMAIN PeersFromDb \subseteq Keys /\ DOMAIN ZonesFromDb \subseteq ZoneIds(lastId)
        /\ DOMAIN ZonesFromDb = DOMAIN zone
    BY <1>1, RowTypes DEF PeersFromDb, ZonesFromDb
  <2> HIDE DEF PeersFromDb, ZonesFromDb
  <2> QED
    BY <2>1 DEF AtRest, KernelMatches, KernelOK
<1>5. CountersOK
  BY RelayAssumption DEF AtRest, CountersOK
<1>6. \A p \in Procs : Careful(job[p], DOMAIN zone)
  BY <1>1, PlainIsCareful DEF Idle, ZoneCreation
<1>7. Covered
  BY DEF AtRest, Covered
<1> QED
  BY <1>1, <1>2, <1>3, <1>4, <1>5, <1>6, <1>7 DEF MemberInv, TypeInv, Members

(***************************************************************************)
(* A zone routes only its members' blocks, however many joins, leaves,     *)
(* kicks, announcements, registrations and deletions of nodes, zones and   *)
(* users interleave, from any state of rest up to the first restart: the   *)
(* request that takes a membership away detaches the announcements later,  *)
(* and nothing between its two transactions can hide what it must detach   *)
(* (cascadeNodeZoneAnnouncements).  The two hypotheses are needed.  A call *)
(* that fails may be the detaching one; and a join into a zone whose sets  *)
(* are still being created is undone without the detaching: finding 23.    *)
(***************************************************************************)
THEOREM MembersAnnounce ==
    Undisturbed => (AtRest /\ [][NextRelay]_rvars => []OnlyMembersAnnounce)
<1> SUFFICES ASSUME Undisturbed
             PROVE  AtRest /\ [][NextRelay]_rvars => []OnlyMembersAnnounce
  OBVIOUS
<1> DEFINE Inv == TypeInv /\ JobInv /\ (crashes = 0 => Members /\ phase = "serving")
<1>1. AtRest => Inv
  BY AtRestHolds DEF MemberInv, AtRest
<1>2. Inv /\ [NextRelay]_rvars => Inv'
  <2> SUFFICES ASSUME Inv, [NextRelay]_rvars PROVE Inv'
    OBVIOUS
  <2>1. TypeInv' /\ JobInv'
    BY TypeStep, RelayStep DEF TypeInv
  <2> SUFFICES ASSUME crashes' = 0 PROVE Members' /\ phase' = "serving"
    BY <2>1
  <2>2. CASE \E p \in Procs : Start(p) \/ Step(p)
    <3>1. UNCHANGED <<phase, crashes>>
      BY <2>2, RequestCounts
    <3>2. MemberInv
      BY <3>1 DEF MemberInv
    <3> QED
      BY <2>2, <3>1, <3>2, NodesKeepMembers, ZonesKeepMembers, MembershipKeepsMembers,
         AnnouncementsKeepMembers, DeleteUserKeepsMembers, TailKeepsMembers DEF Start, Step
  <2>3. CASE NewUser \/ UNCHANGED rvars
    <3>1. UNCHANGED <<zone, member, ann, att, nft, job, phase, crashes>>
      BY <2>3 DEF NewUser, CreateUser, NoKernel, kvars, rvars, dbvars
    <3> QED
      BY <3>1 DEF Members, Covered
  <2>4. CASE Crash
    <3>1. crashes' # 0
      BY <2>4 DEF Crash, TypeInv, CountersOK
    <3> QED
      BY <3>1
  <2>5. CASE Boot
    <3>1. crashes = 0 /\ phase # "serving"
      BY <2>5 DEF Boot, BootInterface, BootPeers, BootClear, BootBuild, BootStep
    <3> QED
      BY <3>1
  <2> QED
    BY <2>2, <2>3, <2>4, <2>5 DEF NextRelay
<1>3. Inv => OnlyMembersAnnounce
  BY DEF Members, Covered, OnlyMembersAnnounce, DetachPending, Detaches, At
<1> QED
  BY <1>1, <1>2, <1>3, PTL

-----------------------------------------------------------------------------
(* The kernel as a mirror of the database                                  *)
(*                                                                         *)
(* First: a row is recognised by what it puts into the kernel.             *)

\* Announced blocks are parts of the announce pool.
SynthInPool ==
    \A a \in DOMAIN ann :
        LET b == ann[a].synth IN
        /\ SynthPool.base <= b.base
        /\ b.base + Size(b.len) <= SynthPool.base + Size(SynthPool.len)

\* Keys, addresses and blocks identify nodes and announcements, and no block is
\* a node's address.
Keyed ==
    /\ IInv
    /\ \A m, n \in DOMAIN node : node[m].key = node[n].key \/ node[m].ip = node[n].ip => m = n
    /\ \A a, b \in DOMAIN ann : ann[a].synth = ann[b].synth => a = b
    /\ \A a \in DOMAIN ann, n \in DOMAIN node : ann[a].synth # Host(node[n].ip)

\* A block AllocateBlock returns lies in the pool.
LEMMA AllocatedInPool ==
    ASSUME NEW pool \in Block, NEW len \in 0 .. AddrBits, NEW inUse,
           AllocateBlock(pool, len, inUse) # NoBlock
    PROVE  LET b == AllocateBlock(pool, len, inUse) IN
           /\ pool.base <= b.base
           /\ b.base + Size(b.len) <= pool.base + Size(pool.len)
<1> DEFINE free == FreeCandidates(pool, len, inUse)
           m    == Min(free)
           s    == Size(len)
           w    == Size(pool.len)
<1>1. free # {} /\ AllocateBlock(pool, len, inUse) = [base |-> m, len |-> len]
  BY DEF AllocateBlock
<1>2. pool.base \in Nat /\ s \in Nat /\ w \in Nat
  BY SizePositive DEF Block
<1>3. free \subseteq pool.base .. (pool.base + w - s)
  BY DEF FreeCandidates
<1>4. free \in SUBSET Nat
  BY <1>2, <1>3
<1>5. m \in free
  BY <1>1, <1>4, MinOfNats
<1> HIDE DEF free, m, s, w
<1>6. pool.base <= m /\ m + s <= pool.base + w
  BY <1>2, <1>3, <1>5
<1> QED
  BY <1>1, <1>6 DEF s, w

\* Only Create puts a block into the table, and it takes it from the pool.
LEMMA SynthInPoolStep ==
    ASSUME IInv, SynthInPool, [NextStore]_dbvars PROVE SynthInPool'
<1>1. CASE Restricts(ann', ann)
  BY <1>1 DEF SynthInPool, Restricts
<1>2. ASSUME NEW n, NEW r \in RealBlocks, NEW z, Announce(n, r, z) PROVE SynthInPool'
  <2> DEFINE a == lastId.ann + 1
             s == AllocateBlock(SynthPool, r.len, SynthInUse)
  <2>1. s # NoBlock /\ ann' = Put(ann, a, [node |-> n, real |-> r, synth |-> s])
    BY <1>2 DEF Announce, Announceable
  <2>2. SynthPool \in Block /\ r.len \in 0 .. AddrBits
    BY StoreAssumption DEF Block
  <2>3. SynthPool.base <= s.base /\ s.base + Size(s.len) <= SynthPool.base + Size(SynthPool.len)
    BY <2>1, <2>2, AllocatedInPool
  <2> HIDE DEF s, a
  <2> QED
    BY <2>1, <2>3 DEF SynthInPool, Put
<1>3. UNCHANGED ann => Restricts(ann', ann)
  BY DEF Restricts, IInv, StoreTypeOK
<1>4. CASE NextUsers
  BY <1>1, <1>3, <1>4 DEF NextUsers, CreateUser, DeleteUser, Restricts
<1>5. CASE NextNodes
  BY <1>1, <1>3, <1>5 DEF NextNodes, InsertNode, DeleteNode, Restricts, Without
<1>6. CASE NextZones
  BY <1>1, <1>3, <1>6 DEF NextZones, InsertZone, UpdatePassword, DeleteZone, Join, Leave
<1>7. CASE NextAnns
  <2>1. (\E gone : DetachSet(gone)) => Restricts(ann', ann)
    BY DEF DetachSet, Without, Restricts
  <2> QED
    BY <1>1, <1>2, <1>3, <1>7, <2>1
    DEF NextAnns, AttachAgain, Detach, DetachAllForNodeZone, DetachAllForZone
<1>8. CASE UNCHANGED dbvars
  BY <1>1, <1>3, <1>8 DEF dbvars
<1> QED
  BY <1>4, <1>5, <1>6, <1>7, <1>8 DEF NextStore

\* Disjoint blocks are different, and a block of the announce pool is no address.
LEMMA KeysIdentify ==
    ASSUME IInv, SynthInPool PROVE Keyed
<1>1. ASSUME NEW a \in DOMAIN ann PROVE Overlaps(ann[a].synth, ann[a].synth)
  <2>1. ann[a].synth \in Block
    BY DEF IInv, StoreTypeOK, AnnRow
  <2>2. ann[a].synth.base \in Nat /\ Size(ann[a].synth.len) \in Nat \ {0}
    BY <2>1, SizePositive DEF Block
  <2> QED
    BY <2>2 DEF Overlaps
<1>2. ASSUME NEW a \in DOMAIN ann, NEW b \in DOMAIN ann, ann[a].synth = ann[b].synth PROVE a = b
  BY <1>1, <1>2 DEF IInv, SyntheticDisjoint
<1>3. ASSUME NEW a \in DOMAIN ann, NEW n \in DOMAIN node PROVE ann[a].synth # Host(node[n].ip)
  <2> DEFINE ip == node[n].ip
             s  == Size(AddrBits)
             w  == Size(SynthPool.len)
             b  == SynthPool.base
  <2> SUFFICES ASSUME ann[a].synth = Host(ip) PROVE FALSE
    OBVIOUS
  <2>1. ip \in FirstIP .. LastIP /\ ip \in Nat
    BY StoreAssumption DEF IInv, StoreTypeOK, NodeRow
  <2>2. s \in Nat \ {0} /\ w \in Nat \ {0} /\ b \in Nat
    BY SizePositive, StoreAssumption, AddrBitsAssumption DEF Block
  <2>3. Host(ip).base = ip /\ Host(ip).len = AddrBits
    BY DEF Host
  <2>4. b <= ip /\ ip + s <= b + w
    BY <2>3 DEF SynthInPool
  <2>5. ~ (ip < b + w /\ b < ip + s)
    BY <2>1, <2>3, PoolsApart DEF Overlaps
  <2> HIDE DEF ip, s, w, b
  <2> QED
    BY <2>1, <2>2, <2>4, <2>5
<1>4. \A m, n \in DOMAIN node : node[m].key = node[n].key \/ node[m].ip = node[n].ip => m = n
  BY DEF IInv, NodesDistinct
<1> QED
  BY <1>2, <1>3, <1>4 DEF Keyed

\* So the tables of the relay are keyed at all times.
LEMMA KeyedAlways ==
    InitRelay /\ [][NextRelay]_rvars => [](Keyed /\ TypeInv /\ JobInv)
<1> DEFINE Inv == TypeInv /\ JobInv /\ SynthInPool
<1>1. InitRelay => Inv
  BY InitTyped DEF InitRelay, InitStore, SynthInPool
<1>2. Inv /\ [NextRelay]_rvars => Inv'
  BY TypeStep, RelayStep, SynthInPoolStep DEF TypeInv
<1>3. Inv => Keyed
  BY KeysIdentify DEF TypeInv
<1> QED
  BY <1>1, <1>2, <1>3, PTL

-----------------------------------------------------------------------------
(* The facts the kernel shows and the facts the rows ask for               *)

Want == Facts(PeersFromDb, ZonesFromDb)
Have == Facts(peers, nft)

\* The facts one row asks for.
NodePeer(nd, n)     == <<"peer", nd[n].key>>
NodeHost(nd, n)     == <<"allows", nd[n].key, Host(nd[n].ip)>>
AnnAllow(nd, an, a) == <<"allows", nd[an[a].node].key, an[a].synth>>
ZoneSets(z)         == <<"zone", z>>
MemberAddr(nd, m)   == <<"member", m[1], nd[m[2]].ip>>
AttRoute(an, t)     == <<"route", t[2], an[t[1]].synth>>

\* The facts all rows ask for.
Rows(nd, zn, mb, an, at) ==
    {NodePeer(nd, n) : n \in DOMAIN nd} \cup {NodeHost(nd, n) : n \in DOMAIN nd}
    \cup {AnnAllow(nd, an, a) : a \in DOMAIN an} \cup {ZoneSets(z) : z \in DOMAIN zn}
    \cup {MemberAddr(nd, m) : m \in mb} \cup {AttRoute(an, t) : t \in at}

\* The facts of a kernel state.
LEMMA FactsAre ==
    ASSUME NEW ps, NEW zs, NEW f
    PROVE  f \in Facts(ps, zs) <=>
              \/ \E k \in DOMAIN ps : f = <<"peer", k>>
              \/ \E k \in DOMAIN ps : \E b \in ps[k] : f = <<"allows", k, b>>
              \/ \E z \in DOMAIN zs : f = <<"zone", z>>
              \/ \E z \in DOMAIN zs : \E ip \in zs[z].members : f = <<"member", z, ip>>
              \/ \E z \in DOMAIN zs : \E b \in zs[z].routes : f = <<"route", z, b>>
<1>1. f \in PeerFacts(ps) <=>
         \E k \in DOMAIN ps : f = <<"peer", k>> \/ \E b \in ps[k] : f = <<"allows", k, b>>
  BY SMT DEF PeerFacts
<1>2. f \in ZoneFacts(zs) <=>
         \E z \in DOMAIN zs : \/ f = <<"zone", z>>
                              \/ \E ip \in zs[z].members : f = <<"member", z, ip>>
                              \/ \E b \in zs[z].routes : f = <<"route", z, b>>
  BY SMT DEF ZoneFacts
<1> QED
  BY <1>1, <1>2 DEF Facts

\* Which they are, by kind.
LEMMA FactKinds ==
    ASSUME NEW ps, NEW zs
    PROVE  /\ \A k : <<"peer", k>> \in Facts(ps, zs) <=> k \in DOMAIN ps
           /\ \A k, b : <<"allows", k, b>> \in Facts(ps, zs) <=> k \in DOMAIN ps /\ b \in ps[k]
           /\ \A z : <<"zone", z>> \in Facts(ps, zs) <=> z \in DOMAIN zs
           /\ \A z, ip : <<"member", z, ip>> \in Facts(ps, zs) <=> z \in DOMAIN zs /\ ip \in zs[z].members
           /\ \A z, b : <<"route", z, b>> \in Facts(ps, zs) <=> z \in DOMAIN zs /\ b \in zs[z].routes
<1>1. ASSUME NEW k PROVE <<"peer", k>> \in Facts(ps, zs) <=> k \in DOMAIN ps
  BY FactsAre
<1>2. ASSUME NEW k, NEW b PROVE <<"allows", k, b>> \in Facts(ps, zs) <=> k \in DOMAIN ps /\ b \in ps[k]
  BY FactsAre
<1>3. ASSUME NEW z PROVE <<"zone", z>> \in Facts(ps, zs) <=> z \in DOMAIN zs
  BY FactsAre
<1>4. ASSUME NEW z, NEW ip
      PROVE  <<"member", z, ip>> \in Facts(ps, zs) <=> z \in DOMAIN zs /\ ip \in zs[z].members
  BY FactsAre
<1>5. ASSUME NEW z, NEW b
      PROVE  <<"route", z, b>> \in Facts(ps, zs) <=> z \in DOMAIN zs /\ b \in zs[z].routes
  BY FactsAre
<1> QED
  BY <1>1, <1>2, <1>3, <1>4, <1>5

\* PeersFromDb and ZonesFromDb of given tables.
PeersOf(nd, an) ==
    [k \in {nd[n].key : n \in DOMAIN nd} |->
        UNION {{Host(nd[n].ip)} \cup {an[a].synth : a \in {x \in DOMAIN an : an[x].node \in {n}}} :
                  n \in {m \in DOMAIN nd : nd[m].key = k}}]
ZonesFor(nd, zn, mb, an, at) ==
    [z \in DOMAIN zn |-> [members |-> {nd[n].ip : n \in {m \in DOMAIN nd : <<z, m>> \in mb}},
                          routes  |-> {an[t[1]].synth : t \in {x \in at : x[2] = z}}]]

\* What the database says the kernel should hold is what its rows ask for.
LEMMA WantIsRows ==
    ASSUME NEW nd, NEW zn, NEW mb, NEW an, NEW at,
           \A a \in DOMAIN an : an[a].node \in DOMAIN nd,
           \A m \in mb : m[1] \in DOMAIN zn /\ m[2] \in DOMAIN nd /\ m = <<m[1], m[2]>>,
           \A t \in at : t[1] \in DOMAIN an /\ t[2] \in DOMAIN zn
    PROVE  Facts(PeersOf(nd, an), ZonesFor(nd, zn, mb, an, at)) = Rows(nd, zn, mb, an, at)
<1> DEFINE ps == PeersOf(nd, an)
           zs == ZonesFor(nd, zn, mb, an, at)
           R  == Rows(nd, zn, mb, an, at)
<1>1. ASSUME NEW k PROVE k \in DOMAIN ps <=> \E n \in DOMAIN nd : nd[n].key = k
  BY DEF PeersOf
<1>2. ASSUME NEW k, k \in DOMAIN ps, NEW b
      PROVE  b \in ps[k] <=> \E n \in DOMAIN nd : /\ nd[n].key = k
                                                  /\ \/ b = Host(nd[n].ip)
                                                     \/ \E a \in DOMAIN an : an[a].node = n /\ an[a].synth = b
  <2>1. ps[k] = UNION {{Host(nd[n].ip)} \cup {an[a].synth : a \in {x \in DOMAIN an : an[x].node \in {n}}} :
                          n \in {m \in DOMAIN nd : nd[m].key = k}}
    BY <1>2 DEF PeersOf
  <2> QED
    BY <2>1
<1>3. DOMAIN zs = DOMAIN zn
  BY DEF ZonesFor
<1>4. ASSUME NEW z \in DOMAIN zn
      PROVE  /\ zs[z].members = {nd[n].ip : n \in {m \in DOMAIN nd : <<z, m>> \in mb}}
             /\ zs[z].routes = {an[t[1]].synth : t \in {x \in at : x[2] = z}}
  BY DEF ZonesFor
<1> HIDE DEF ps, zs
<1>5. ASSUME NEW f \in Facts(ps, zs) PROVE f \in R
  <2>1. ASSUME NEW k \in DOMAIN ps, f = <<"peer", k>> PROVE f \in R
    BY <1>1, <2>1, Zenon DEF Rows, NodePeer
  <2>2. ASSUME NEW k \in DOMAIN ps, NEW b \in ps[k], f = <<"allows", k, b>> PROVE f \in R
    <3>1. PICK n \in DOMAIN nd : /\ nd[n].key = k
                                 /\ \/ b = Host(nd[n].ip)
                                    \/ \E a \in DOMAIN an : an[a].node = n /\ an[a].synth = b
      BY <1>2
    <3>2. CASE b = Host(nd[n].ip)
      BY <2>2, <3>1, <3>2, Zenon DEF Rows, NodeHost
    <3>3. ASSUME NEW a \in DOMAIN an, an[a].node = n, an[a].synth = b PROVE f \in R
      BY <2>2, <3>1, <3>3, Zenon DEF Rows, AnnAllow
    <3> QED
      BY <3>1, <3>2, <3>3
  <2>3. ASSUME NEW z \in DOMAIN zs, f = <<"zone", z>> PROVE f \in R
    BY <1>3, <2>3, Zenon DEF Rows, ZoneSets
  <2>4. ASSUME NEW z \in DOMAIN zs, NEW ip \in zs[z].members, f = <<"member", z, ip>> PROVE f \in R
    <3>1. PICK n \in DOMAIN nd : <<z, n>> \in mb /\ ip = nd[n].ip
      BY <1>3, <1>4
    <3> DEFINE m == <<z, n>>
    <3>2. m \in mb /\ m[1] = z /\ m[2] = n
      BY <3>1
    <3> HIDE DEF m
    <3>3. f = MemberAddr(nd, m)
      BY <2>4, <3>1, <3>2, Zenon DEF MemberAddr
    <3> QED
      BY <3>2, <3>3, Zenon DEF Rows
  <2>5. ASSUME NEW z \in DOMAIN zs, NEW b \in zs[z].routes, f = <<"route", z, b>> PROVE f \in R
    <3>1. PICK t \in at : t[2] = z /\ b = an[t[1]].synth
      BY <1>3, <1>4
    <3> QED
      BY <2>5, <3>1, Zenon DEF Rows, AttRoute
  <2> QED
    BY <2>1, <2>2, <2>3, <2>4, <2>5, FactsAre
<1>6. ASSUME NEW f \in R PROVE f \in Facts(ps, zs)
  <2>1. ASSUME NEW n \in DOMAIN nd, f = NodePeer(nd, n) \/ f = NodeHost(nd, n) PROVE f \in Facts(ps, zs)
    BY <1>1, <1>2, <2>1, FactKinds DEF NodePeer, NodeHost
  <2>2. ASSUME NEW a \in DOMAIN an, f = AnnAllow(nd, an, a) PROVE f \in Facts(ps, zs)
    BY <1>1, <1>2, <2>2, FactKinds DEF AnnAllow
  <2>3. ASSUME NEW z \in DOMAIN zn, f = ZoneSets(z) PROVE f \in Facts(ps, zs)
    BY <1>3, <2>3, FactKinds DEF ZoneSets
  <2>4. ASSUME NEW m \in mb, f = MemberAddr(nd, m) PROVE f \in Facts(ps, zs)
    <3>1. m[1] \in DOMAIN zn /\ m[2] \in DOMAIN nd /\ <<m[1], m[2]>> \in mb
      OBVIOUS
    <3>2. nd[m[2]].ip \in zs[m[1]].members
      BY <1>4, <3>1
    <3> QED
      BY <1>3, <2>4, <3>1, <3>2, FactKinds DEF MemberAddr
  <2>5. ASSUME NEW t \in at, f = AttRoute(an, t) PROVE f \in Facts(ps, zs)
    <3>1. t[2] \in DOMAIN zn /\ an[t[1]].synth \in zs[t[2]].routes
      BY <1>4
    <3> QED
      BY <1>3, <2>5, <3>1, FactKinds DEF AttRoute
  <2> QED
    BY <2>1, <2>2, <2>3, <2>4, <2>5, Zenon DEF Rows
<1> QED
  BY <1>5, <1>6 DEF ps, zs

\* What the database says now.
LEMMA WantNow ==
    ASSUME IInv PROVE Want = Rows(node, zone, member, ann, att)
<1>1. /\ \A a \in DOMAIN ann : ann[a].node \in DOMAIN node
      /\ \A m \in member : m[1] \in DOMAIN zone /\ m[2] \in DOMAIN node /\ m = <<m[1], m[2]>>
      /\ \A t \in att : t[1] \in DOMAIN ann /\ t[2] \in DOMAIN zone
  BY DEF IInv, ReferentialIntegrity, StoreTypeOK
<1>2. Want = Facts(PeersOf(node, ann), ZonesFor(node, zone, member, ann, att))
  BY Zenon DEF Want, PeersFromDb, ZonesFromDb, PeersOf, ZonesFor, RoutesForNode, AnnsOf, OfZone
<1> QED
  BY <1>1, <1>2, WantIsRows

\* What it says after a step.
LEMMA WantNext ==
    ASSUME IInv' PROVE Want' = Rows(node', zone', member', ann', att')
<1>1. /\ \A a \in DOMAIN ann' : ann'[a].node \in DOMAIN node'
      /\ \A m \in member' : m[1] \in DOMAIN zone' /\ m[2] \in DOMAIN node' /\ m = <<m[1], m[2]>>
      /\ \A t \in att' : t[1] \in DOMAIN ann' /\ t[2] \in DOMAIN zone'
  BY DEF IInv, ReferentialIntegrity, StoreTypeOK
<1>2. Want' = Facts(PeersOf(node', ann'), ZonesFor(node', zone', member', ann', att'))
  BY Zenon DEF Want, PeersFromDb, ZonesFromDb, PeersOf, ZonesFor, RoutesForNode, AnnsOf, OfZone
<1> QED
  BY <1>1, <1>2, WantIsRows

\* A step that deletes rows and changes none.
Removes(dn, dz, dm, da, dt) ==
    /\ node' = Without(node, dn) /\ zone' = Without(zone, dz) /\ ann' = Without(ann, da)
    /\ member' = member \ dm /\ att' = att \ dt

\* A fact one of these rows asked for.
OfRemoved(dn, dz, dm, da, dt, f) ==
    \/ \E n \in dn \cap DOMAIN node : f = NodePeer(node, n) \/ f = NodeHost(node, n)
    \/ \E z \in dz \cap DOMAIN zone : f = ZoneSets(z)
    \/ \E m \in dm \cap member : f = MemberAddr(node, m)
    \/ \E a \in da \cap DOMAIN ann : f = AnnAllow(node, ann, a)
    \/ \E t \in dt \cap att : f = AttRoute(ann, t)

\* No two rows ask for the same fact.
LEMMA RowsDistinct ==
    ASSUME Keyed
    PROVE  /\ \A m, n \in DOMAIN node :
                 /\ NodePeer(node, m) = NodePeer(node, n) => m = n
                 /\ NodeHost(node, m) = NodeHost(node, n) => m = n
                 /\ NodePeer(node, m) # NodeHost(node, n)
           /\ \A a, b \in DOMAIN ann : AnnAllow(node, ann, a) = AnnAllow(node, ann, b) => a = b
           /\ \A a \in DOMAIN ann, n \in DOMAIN node :
                 AnnAllow(node, ann, a) # NodePeer(node, n) /\ AnnAllow(node, ann, a) # NodeHost(node, n)
           /\ \A x, y \in member : MemberAddr(node, x) = MemberAddr(node, y) => x = y
           /\ \A s, t \in att : AttRoute(ann, s) = AttRoute(ann, t) => s = t
<1>1. ASSUME NEW m \in DOMAIN node, NEW n \in DOMAIN node
      PROVE  /\ NodePeer(node, m) = NodePeer(node, n) => m = n
             /\ NodeHost(node, m) = NodeHost(node, n) => m = n
             /\ NodePeer(node, m) # NodeHost(node, n)
  BY DEF Keyed, NodePeer, NodeHost
<1>2. ASSUME NEW a \in DOMAIN ann, NEW b \in DOMAIN ann, AnnAllow(node, ann, a) = AnnAllow(node, ann, b)
      PROVE  a = b
  BY <1>2 DEF Keyed, AnnAllow
<1>3. ASSUME NEW a \in DOMAIN ann, NEW n \in DOMAIN node
      PROVE  AnnAllow(node, ann, a) # NodePeer(node, n) /\ AnnAllow(node, ann, a) # NodeHost(node, n)
  BY DEF Keyed, AnnAllow, NodePeer, NodeHost
<1>4. ASSUME NEW x \in member, NEW y \in member, MemberAddr(node, x) = MemberAddr(node, y) PROVE x = y
  <2>1. x = <<x[1], x[2]>> /\ y = <<y[1], y[2]>> /\ x[2] \in DOMAIN node /\ y[2] \in DOMAIN node
    BY DEF Keyed, IInv, StoreTypeOK, ReferentialIntegrity
  <2>2. x[1] = y[1] /\ node[x[2]].ip = node[y[2]].ip
    BY <1>4 DEF MemberAddr
  <2>3. x[2] = y[2]
    BY <2>1, <2>2 DEF Keyed
  <2> QED
    BY <2>1, <2>2, <2>3, Zenon
<1>5. ASSUME NEW s \in att, NEW t \in att, AttRoute(ann, s) = AttRoute(ann, t) PROVE s = t
  <2>1. s = <<s[1], s[2]>> /\ t = <<t[1], t[2]>> /\ s[1] \in DOMAIN ann /\ t[1] \in DOMAIN ann
    BY DEF Keyed, IInv, StoreTypeOK, ReferentialIntegrity
  <2>2. s[2] = t[2] /\ ann[s[1]].synth = ann[t[1]].synth
    BY <1>5 DEF AttRoute
  <2>3. s[1] = t[1]
    BY <2>1, <2>2 DEF Keyed
  <2> QED
    BY <2>1, <2>2, <2>3, Zenon
<1> QED
  BY <1>1, <1>2, <1>3, <1>4, <1>5

\* The facts of all rows, row by row.
LEMMA InRows ==
    ASSUME NEW nd, NEW zn, NEW mb, NEW an, NEW at, NEW f
    PROVE  f \in Rows(nd, zn, mb, an, at) <=>
              \/ \E n \in DOMAIN nd : f = NodePeer(nd, n) \/ f = NodeHost(nd, n)
              \/ \E z \in DOMAIN zn : f = ZoneSets(z)
              \/ \E m \in mb : f = MemberAddr(nd, m)
              \/ \E a \in DOMAIN an : f = AnnAllow(nd, an, a)
              \/ \E t \in at : f = AttRoute(an, t)
  BY Zenon DEF Rows

\* Kinds of facts are told apart by their tags.
LEMMA Tags ==
    ASSUME NEW nd, NEW an
    PROVE  /\ \A n : NodePeer(nd, n)[1] = "peer" /\ NodeHost(nd, n)[1] = "allows"
           /\ \A a : AnnAllow(nd, an, a)[1] = "allows"
           /\ \A z : ZoneSets(z)[1] = "zone"
           /\ \A m : MemberAddr(nd, m)[1] = "member"
           /\ \A t : AttRoute(an, t)[1] = "route"
  BY DEF NodePeer, NodeHost, AnnAllow, ZoneSets, MemberAddr, AttRoute

\* Deleting rows takes away the facts they asked for and no other.
LEMMA Removal ==
    ASSUME Keyed, IInv', NEW dn, NEW dz, NEW dm, NEW da, NEW dt, Removes(dn, dz, dm, da, dt)
    PROVE  \A f : f \in Want' <=> f \in Want /\ ~ OfRemoved(dn, dz, dm, da, dt, f)
<1>1. /\ Want = Rows(node, zone, member, ann, att)
      /\ Want' = Rows(node', zone', member', ann', att')
  BY WantNow, WantNext DEF Keyed
<1>2. /\ DOMAIN node' = DOMAIN node \ dn /\ DOMAIN zone' = DOMAIN zone \ dz /\ DOMAIN ann' = DOMAIN ann \ da
      /\ \A n \in DOMAIN node' : node'[n] = node[n]
      /\ \A a \in DOMAIN ann' : ann'[a] = ann[a]
      /\ member' = member \ dm /\ att' = att \ dt
  BY DEF Removes, Without
<1>3. /\ \A a \in DOMAIN ann' : ann'[a].node \in DOMAIN node'
      /\ \A m \in member' : m[2] \in DOMAIN node'
      /\ \A t \in att' : t[1] \in DOMAIN ann'
  BY DEF IInv, ReferentialIntegrity
<1>4. /\ \A n \in DOMAIN node' : NodePeer(node', n) = NodePeer(node, n) /\ NodeHost(node', n) = NodeHost(node, n)
      /\ \A a \in DOMAIN ann' : AnnAllow(node', ann', a) = AnnAllow(node, ann, a)
      /\ \A m \in member' : MemberAddr(node', m) = MemberAddr(node, m)
      /\ \A t \in att' : AttRoute(ann', t) = AttRoute(ann, t)
  BY <1>2, <1>3 DEF NodePeer, NodeHost, AnnAllow, MemberAddr, AttRoute
<1>5. ASSUME NEW f \in Want' PROVE f \in Want
  BY <1>1, <1>2, <1>4, InRows
<1>6. ASSUME NEW f \in Want' PROVE ~ OfRemoved(dn, dz, dm, da, dt, f)
  <2>1. ASSUME NEW n \in DOMAIN node', f = NodePeer(node, n) \/ f = NodeHost(node, n)
        PROVE  ~ OfRemoved(dn, dz, dm, da, dt, f)
    BY <1>2, <2>1, RowsDistinct, Tags DEF OfRemoved
  <2>2. ASSUME NEW z \in DOMAIN zone', f = ZoneSets(z) PROVE ~ OfRemoved(dn, dz, dm, da, dt, f)
    <3>1. \A y : ZoneSets(y) = f => y = z
      BY <2>2 DEF ZoneSets
    <3> QED
      BY <1>2, <2>2, <3>1, Tags DEF OfRemoved
  <2>3. ASSUME NEW m \in member', f = MemberAddr(node, m) PROVE ~ OfRemoved(dn, dz, dm, da, dt, f)
    BY <1>2, <2>3, RowsDistinct, Tags DEF OfRemoved
  <2>4. ASSUME NEW a \in DOMAIN ann', f = AnnAllow(node, ann, a) PROVE ~ OfRemoved(dn, dz, dm, da, dt, f)
    BY <1>2, <2>4, RowsDistinct, Tags DEF OfRemoved
  <2>5. ASSUME NEW t \in att', f = AttRoute(ann, t) PROVE ~ OfRemoved(dn, dz, dm, da, dt, f)
    BY <1>2, <2>5, RowsDistinct, Tags DEF OfRemoved
  <2> QED
    BY <1>1, <1>4, <2>1, <2>2, <2>3, <2>4, <2>5, InRows
<1>7. ASSUME NEW f \in Want, f \notin Want' PROVE OfRemoved(dn, dz, dm, da, dt, f)
  <2>1. ASSUME NEW n \in DOMAIN node, f = NodePeer(node, n) \/ f = NodeHost(node, n)
        PROVE  OfRemoved(dn, dz, dm, da, dt, f)
    BY <1>1, <1>2, <1>4, <1>7, <2>1, InRows DEF OfRemoved
  <2>2. ASSUME NEW z \in DOMAIN zone, f = ZoneSets(z) PROVE OfRemoved(dn, dz, dm, da, dt, f)
    BY <1>1, <1>2, <1>7, <2>2, InRows DEF OfRemoved
  <2>3. ASSUME NEW m \in member, f = MemberAddr(node, m) PROVE OfRemoved(dn, dz, dm, da, dt, f)
    BY <1>1, <1>2, <1>4, <1>7, <2>3, InRows DEF OfRemoved
  <2>4. ASSUME NEW a \in DOMAIN ann, f = AnnAllow(node, ann, a) PROVE OfRemoved(dn, dz, dm, da, dt, f)
    BY <1>1, <1>2, <1>4, <1>7, <2>4, InRows DEF OfRemoved
  <2>5. ASSUME NEW t \in att, f = AttRoute(ann, t) PROVE OfRemoved(dn, dz, dm, da, dt, f)
    BY <1>1, <1>2, <1>4, <1>7, <2>5, InRows DEF OfRemoved
  <2> QED
    BY <1>1, <2>1, <2>2, <2>3, <2>4, <2>5, InRows
<1> QED
  BY <1>5, <1>6, <1>7

\* A step that inserts rows and changes no column the kernel depends on.
Adds(dn, dz, dm, da, dt) ==
    /\ DOMAIN node' = DOMAIN node \cup dn /\ \A n \in DOMAIN node : node'[n] = node[n]
    /\ DOMAIN ann' = DOMAIN ann \cup da /\ \A a \in DOMAIN ann : ann'[a] = ann[a]
    /\ DOMAIN zone' = DOMAIN zone \cup dz /\ member' = member \cup dm /\ att' = att \cup dt

\* A fact one of these rows asks for.
OfAdded(dn, dz, dm, da, dt, f) ==
    \/ \E n \in dn : f = NodePeer(node', n) \/ f = NodeHost(node', n)
    \/ \E z \in dz : f = ZoneSets(z)
    \/ \E m \in dm : f = MemberAddr(node', m)
    \/ \E a \in da : f = AnnAllow(node', ann', a)
    \/ \E t \in dt : f = AttRoute(ann', t)

\* Inserting rows adds the facts they ask for and no other.
LEMMA Addition ==
    ASSUME IInv, IInv', NEW dn, NEW dz, NEW dm, NEW da, NEW dt, Adds(dn, dz, dm, da, dt)
    PROVE  \A f : f \in Want' <=> f \in Want \/ OfAdded(dn, dz, dm, da, dt, f)
<1>1. /\ Want = Rows(node, zone, member, ann, att)
      /\ Want' = Rows(node', zone', member', ann', att')
  BY WantNow, WantNext
<1>2. /\ \A a \in DOMAIN ann : ann[a].node \in DOMAIN node
      /\ \A m \in member : m[2] \in DOMAIN node
      /\ \A t \in att : t[1] \in DOMAIN ann
  BY DEF IInv, ReferentialIntegrity
<1>3. /\ \A n \in DOMAIN node : NodePeer(node', n) = NodePeer(node, n) /\ NodeHost(node', n) = NodeHost(node, n)
      /\ \A a \in DOMAIN ann : AnnAllow(node', ann', a) = AnnAllow(node, ann, a)
      /\ \A m \in member : MemberAddr(node', m) = MemberAddr(node, m)
      /\ \A t \in att : AttRoute(ann', t) = AttRoute(ann, t)
  BY <1>2 DEF Adds, NodePeer, NodeHost, AnnAllow, MemberAddr, AttRoute
<1>4. /\ DOMAIN node' = DOMAIN node \cup dn /\ DOMAIN ann' = DOMAIN ann \cup da
      /\ DOMAIN zone' = DOMAIN zone \cup dz /\ member' = member \cup dm /\ att' = att \cup dt
  BY DEF Adds
<1> SUFFICES ASSUME NEW f PROVE f \in Want' <=> f \in Want \/ OfAdded(dn, dz, dm, da, dt, f)
  OBVIOUS
<1>5. f \in Want <=> \/ \E n \in DOMAIN node : f = NodePeer(node, n) \/ f = NodeHost(node, n)
                     \/ \E z \in DOMAIN zone : f = ZoneSets(z)
                     \/ \E m \in member : f = MemberAddr(node, m)
                     \/ \E a \in DOMAIN ann : f = AnnAllow(node, ann, a)
                     \/ \E t \in att : f = AttRoute(ann, t)
  BY <1>1, InRows
<1>6. f \in Want' <=> \/ \E n \in DOMAIN node' : f = NodePeer(node', n) \/ f = NodeHost(node', n)
                      \/ \E z \in DOMAIN zone' : f = ZoneSets(z)
                      \/ \E m \in member' : f = MemberAddr(node', m)
                      \/ \E a \in DOMAIN ann' : f = AnnAllow(node', ann', a)
                      \/ \E t \in att' : f = AttRoute(ann', t)
  BY <1>1, InRows
<1> QED
  BY <1>3, <1>4, <1>5, <1>6 DEF OfAdded

\* A new node asks for its peer and its address.
LEMMA NodeInserted ==
    ASSUME IInv, IInv', NEW u, NEW nm, NEW k, NEW ip, NEW pf, InsertNode(u, nm, k, ip, pf)
    PROVE  /\ Want' = Want \cup {<<"peer", k>>, <<"allows", k, Host(ip)>>}
           /\ lastId.node + 1 \in DOMAIN node' /\ node'[lastId.node + 1].key = k /\ node'[lastId.node + 1].ip = ip
           /\ \A a \in DOMAIN ann' : ann'[a].node # lastId.node + 1
<1> DEFINE n == lastId.node + 1
<1>1. /\ DOMAIN node' = DOMAIN node \cup {n} /\ \A m \in DOMAIN node : node'[m] = node[m]
      /\ node'[n].key = k /\ node'[n].ip = ip
      /\ UNCHANGED <<zone, member, ann, att>>
      /\ n \notin DOMAIN node
  <2>1. n \notin DOMAIN node
    BY StoreAssumption DEF IInv, StoreTypeOK
  <2> QED
    BY <2>1 DEF InsertNode, Put
<1>2. Adds({n}, {}, {}, {}, {})
  BY <1>1 DEF Adds
<1>3. \A f : OfAdded({n}, {}, {}, {}, {}, f) <=> f \in {<<"peer", k>>, <<"allows", k, Host(ip)>>}
  BY <1>1 DEF OfAdded, NodePeer, NodeHost
<1>4. Want' = Want \cup {<<"peer", k>>, <<"allows", k, Host(ip)>>}
  BY <1>2, <1>3, Addition
<1>5. \A a \in DOMAIN ann' : ann'[a].node # n
  BY <1>1 DEF IInv, ReferentialIntegrity
<1> QED
  BY <1>1, <1>4, <1>5

\* A new zone asks for its sets.
LEMMA ZoneInserted ==
    ASSUME IInv, IInv', NEW u, NEW nm, NEW h, InsertZone(u, nm, h)
    PROVE  /\ Want' = Want \cup {<<"zone", lastId.zone + 1>>}
           /\ lastId.zone + 1 \in DOMAIN zone' /\ lastId.zone + 1 \notin DOMAIN zone
<1> DEFINE z == lastId.zone + 1
<1>1. DOMAIN zone' = DOMAIN zone \cup {z} /\ UNCHANGED <<node, member, ann, att>>
  BY DEF InsertZone, Put
<1>2. z \notin DOMAIN zone
  BY StoreAssumption DEF IInv, StoreTypeOK
<1>3. Adds({}, {z}, {}, {}, {})
  BY <1>1 DEF Adds
<1>4. \A f : OfAdded({}, {z}, {}, {}, {}, f) <=> f = <<"zone", z>>
  BY DEF OfAdded, ZoneSets
<1> QED
  BY <1>1, <1>2, <1>3, <1>4, Addition

\* A join asks for the node's address in the zone's set.
LEMMA Joined ==
    ASSUME IInv, IInv', NEW z, NEW n, Join(z, n)
    PROVE  Want' = Want \cup {<<"member", z, node[n].ip>>} /\ <<z, n>> \in member' /\ UNCHANGED <<node, zone>>
<1> DEFINE m == <<z, n>>
<1>1. member' = member \cup {m} /\ UNCHANGED <<node, zone, ann, att>>
  BY DEF Join
<1>2. Adds({}, {}, {m}, {}, {})
  BY <1>1 DEF Adds
<1>3. m[1] = z /\ m[2] = n
  OBVIOUS
<1> HIDE DEF m
<1>4. \A f : OfAdded({}, {}, {m}, {}, {}, f) <=> f = <<"member", z, node[n].ip>>
  BY <1>1, <1>3 DEF OfAdded, MemberAddr
<1>5. Want' = Want \cup {<<"member", z, node[n].ip>>}
  BY <1>2, <1>4, Addition
<1> QED
  BY <1>1, <1>5 DEF m

\* A new announcement asks for its block at the node's peer and in the zone's set.
LEMMA Announced ==
    ASSUME IInv, IInv', NEW n, NEW r, NEW z, Announce(n, r, z)
    PROVE  LET a == lastId.ann + 1
               b == AllocateBlock(SynthPool, r.len, SynthInUse)
           IN  /\ Want' = Want \cup {<<"allows", node[n].key, b>>, <<"route", z, b>>}
               /\ a \in DOMAIN ann' /\ ann'[a].node = n /\ ann'[a].synth = b /\ <<a, z>> \in att'
               /\ \A t \in att' : t[1] = a => t[2] = z
               /\ UNCHANGED <<node, zone, member>>
<1> DEFINE a == lastId.ann + 1
           b == AllocateBlock(SynthPool, r.len, SynthInUse)
           t == <<a, z>>
<1>1. /\ ann' = Put(ann, a, [node |-> n, real |-> r, synth |-> b])
      /\ att' = att \cup {t} /\ UNCHANGED <<node, zone, member>>
  BY DEF Announce
<1>2. a \notin DOMAIN ann /\ \A s \in att : s[1] # a
  BY StoreAssumption DEF IInv, StoreTypeOK
<1>3. t[1] = a /\ t[2] = z
  OBVIOUS
<1> HIDE DEF a, b, t
<1>4. /\ DOMAIN ann' = DOMAIN ann \cup {a} /\ ann'[a].node = n /\ ann'[a].synth = b
      /\ \A x \in DOMAIN ann : ann'[x] = ann[x]
  BY <1>1, <1>2 DEF Put
<1>5. Adds({}, {}, {}, {a}, {t})
  BY <1>1, <1>4 DEF Adds
<1>6. \A f : OfAdded({}, {}, {}, {a}, {t}, f) <=> f \in {<<"allows", node[n].key, b>>, <<"route", z, b>>}
  BY <1>1, <1>3, <1>4 DEF OfAdded, AnnAllow, AttRoute
<1>7. Want' = Want \cup {<<"allows", node[n].key, b>>, <<"route", z, b>>}
  BY <1>5, <1>6, Addition
<1>8. \A s \in att' : s[1] = a => s[2] = z
  BY <1>1, <1>2, <1>3
<1> QED
  BY <1>1, <1>4, <1>7, <1>8 DEF a, b, t

\* Another zone of an announcement asks for its block in that zone's set.
LEMMA AttachedAgain ==
    ASSUME IInv, IInv', NEW a \in DOMAIN ann, NEW z, att' = att \cup {<<a, z>>},
           UNCHANGED <<node, zone, member, ann>>
    PROVE  Want' = Want \cup {<<"route", z, ann[a].synth>>}
<1> DEFINE t == <<a, z>>
<1>1. Adds({}, {}, {}, {}, {t})
  BY DEF Adds
<1>2. t[1] = a /\ t[2] = z
  OBVIOUS
<1> HIDE DEF t
<1>3. \A f : OfAdded({}, {}, {}, {}, {t}, f) <=> f = <<"route", z, ann[a].synth>>
  BY <1>2 DEF OfAdded, AttRoute
<1> QED
  BY <1>1, <1>3, Addition

\* Passwords and accounts ask for nothing.
LEMMA SameRows ==
    ASSUME IInv, IInv', DOMAIN zone' = DOMAIN zone, UNCHANGED <<node, member, ann, att>>
    PROVE  Want' = Want
<1>1. Adds({}, {}, {}, {}, {}) /\ \A f : ~ OfAdded({}, {}, {}, {}, {}, f)
  BY DEF Adds, OfAdded
<1> QED
  BY <1>1, Addition

-----------------------------------------------------------------------------
(* What deletions take away *)

\* A fact about the peer with key k, about its AllowedIPs, about zone z's sets.
AboutPeer(k, f) == f[1] \in {"peer", "allows"} /\ f[2] = k
AllowsTo(k, f)  == f[1] = "allows" /\ f[2] = k
AboutZone(z, f) == f[1] \in {"zone", "member", "route"} /\ f[2] = z

\* The database's facts by kind.
LEMMA WantKinds ==
    ASSUME IInv
    PROVE  /\ \A k : <<"peer", k>> \in Want <=> \E n \in DOMAIN node : node[n].key = k
           /\ \A k, b : <<"allows", k, b>> \in Want <=>
                 \/ \E n \in DOMAIN node : node[n].key = k /\ Host(node[n].ip) = b
                 \/ \E a \in DOMAIN ann : node[ann[a].node].key = k /\ ann[a].synth = b
           /\ \A z : <<"zone", z>> \in Want <=> z \in DOMAIN zone
           /\ \A z, ip : <<"member", z, ip>> \in Want <=> \E m \in member : m[1] = z /\ node[m[2]].ip = ip
           /\ \A z, b : <<"route", z, b>> \in Want <=> \E t \in att : t[2] = z /\ ann[t[1]].synth = b
<1>1. \A f : f \in Want <=> \/ \E n \in DOMAIN node : f = NodePeer(node, n) \/ f = NodeHost(node, n)
                            \/ \E z \in DOMAIN zone : f = ZoneSets(z)
                            \/ \E m \in member : f = MemberAddr(node, m)
                            \/ \E a \in DOMAIN ann : f = AnnAllow(node, ann, a)
                            \/ \E t \in att : f = AttRoute(ann, t)
  BY WantNow, InRows
<1>2. ASSUME NEW k PROVE <<"peer", k>> \in Want <=> \E n \in DOMAIN node : node[n].key = k
  BY <1>1 DEF NodePeer, NodeHost, AnnAllow, ZoneSets, MemberAddr, AttRoute
<1>3. ASSUME NEW k, NEW b
      PROVE  <<"allows", k, b>> \in Want <=>
                 \/ \E n \in DOMAIN node : node[n].key = k /\ Host(node[n].ip) = b
                 \/ \E a \in DOMAIN ann : node[ann[a].node].key = k /\ ann[a].synth = b
  BY <1>1 DEF NodePeer, NodeHost, AnnAllow, ZoneSets, MemberAddr, AttRoute
<1>4. ASSUME NEW z PROVE <<"zone", z>> \in Want <=> z \in DOMAIN zone
  BY <1>1 DEF NodePeer, NodeHost, AnnAllow, ZoneSets, MemberAddr, AttRoute
<1>5. ASSUME NEW z, NEW ip
      PROVE  <<"member", z, ip>> \in Want <=> \E m \in member : m[1] = z /\ node[m[2]].ip = ip
  BY <1>1 DEF NodePeer, NodeHost, AnnAllow, ZoneSets, MemberAddr, AttRoute
<1>6. ASSUME NEW z, NEW b
      PROVE  <<"route", z, b>> \in Want <=> \E t \in att : t[2] = z /\ ann[t[1]].synth = b
  BY <1>1 DEF NodePeer, NodeHost, AnnAllow, ZoneSets, MemberAddr, AttRoute
<1> QED
  BY <1>2, <1>3, <1>4, <1>5, <1>6

\* A deleted node takes its peer, its addresses in the zones and the routes to its
\* blocks with it.
LEMMA NodeRemoved ==
    ASSUME Keyed, IInv', NEW n, DeleteNode(n)
    PROVE  /\ n \in DOMAIN node
           /\ \A f : f \in Want' <=>
                 /\ f \in Want /\ ~ AboutPeer(node[n].key, f)
                 /\ \A m \in member : m[2] = n => f # <<"member", m[1], node[n].ip>>
                 /\ \A t \in att : ann[t[1]].node = n => f # <<"route", t[2], ann[t[1]].synth>>
<1> DEFINE dm == {m \in member : m[2] = n}
           da == AnnsOf({n})
           dt == {t \in att : t[1] \in da}
<1>1. n \in DOMAIN node /\ Removes({n}, {}, dm, da, dt)
  BY DEF DeleteNode, Removes, Without, IInv, StoreTypeOK, Keyed
<1>2. IInv /\ \A a : a \in da <=> a \in DOMAIN ann /\ ann[a].node = n
  BY DEF Keyed, AnnsOf
<1>3. \A t \in att : t[1] \in DOMAIN ann
  BY <1>2 DEF IInv, ReferentialIntegrity
<1> HIDE DEF da
<1> SUFFICES ASSUME NEW f PROVE f \in Want' <=>
                 /\ f \in Want /\ ~ AboutPeer(node[n].key, f)
                 /\ \A m \in member : m[2] = n => f # <<"member", m[1], node[n].ip>>
                 /\ \A t \in att : ann[t[1]].node = n => f # <<"route", t[2], ann[t[1]].synth>>
  BY <1>1
<1>4. f \in Want' <=> f \in Want /\ ~ OfRemoved({n}, {}, dm, da, dt, f)
  BY <1>1, Removal
<1>5. ASSUME OfRemoved({n}, {}, dm, da, dt, f)
      PROVE  \/ AboutPeer(node[n].key, f)
             \/ \E m \in member : m[2] = n /\ f = <<"member", m[1], node[n].ip>>
             \/ \E t \in att : ann[t[1]].node = n /\ f = <<"route", t[2], ann[t[1]].synth>>
  BY <1>1, <1>2, <1>5 DEF OfRemoved, NodePeer, NodeHost, AnnAllow, MemberAddr, AttRoute, AboutPeer
<1>6. ASSUME f \in Want, AboutPeer(node[n].key, f) PROVE OfRemoved({n}, {}, dm, da, dt, f)
  <2>1. \/ \E x \in DOMAIN node : f = NodePeer(node, x) \/ f = NodeHost(node, x)
        \/ \E z \in DOMAIN zone : f = ZoneSets(z)
        \/ \E m \in member : f = MemberAddr(node, m)
        \/ \E a \in DOMAIN ann : f = AnnAllow(node, ann, a)
        \/ \E t \in att : f = AttRoute(ann, t)
    BY <1>2, <1>6, WantNow, InRows
  <2>2. f[1] # "zone" /\ f[1] # "member" /\ f[1] # "route"
    BY <1>6 DEF AboutPeer
  <2>3. ASSUME NEW x \in DOMAIN node, f = NodePeer(node, x) \/ f = NodeHost(node, x)
        PROVE  x = n
    BY <1>1, <1>6, <2>3 DEF NodePeer, NodeHost, AboutPeer, Keyed
  <2>4. ASSUME NEW a \in DOMAIN ann, f = AnnAllow(node, ann, a) PROVE a \in da
    <3>1. ann[a].node \in DOMAIN node
      BY <1>2 DEF IInv, ReferentialIntegrity
    <3> QED
      BY <1>1, <1>2, <1>6, <2>4, <3>1 DEF AnnAllow, AboutPeer, Keyed
  <2> QED
    BY <1>1, <2>1, <2>2, <2>3, <2>4, Tags DEF OfRemoved
<1>7. ASSUME NEW m \in member, m[2] = n, f = <<"member", m[1], node[n].ip>>
      PROVE  OfRemoved({n}, {}, dm, da, dt, f)
  BY <1>7 DEF OfRemoved, MemberAddr
<1>8. ASSUME NEW t \in att, ann[t[1]].node = n, f = <<"route", t[2], ann[t[1]].synth>>
      PROVE  OfRemoved({n}, {}, dm, da, dt, f)
  BY <1>2, <1>3, <1>8 DEF OfRemoved, AttRoute
<1> QED
  BY <1>4, <1>5, <1>6, <1>7, <1>8

\* A deleted zone takes everything about it.
LEMMA ZoneRemoved ==
    ASSUME Keyed, IInv', NEW z, DeleteZone(z)
    PROVE  \A f : f \in Want' <=> f \in Want /\ ~ AboutZone(z, f)
<1> DEFINE dm == {m \in member : m[1] = z}
           dt == {t \in att : t[2] = z}
<1>1. z \in DOMAIN zone /\ Removes({}, {z}, dm, {}, dt)
  BY DEF DeleteZone, Removes, Without, IInv, StoreTypeOK, Keyed
<1> SUFFICES ASSUME NEW f PROVE f \in Want' <=> f \in Want /\ ~ AboutZone(z, f)
  OBVIOUS
<1>2. f \in Want' <=> f \in Want /\ ~ OfRemoved({}, {z}, dm, {}, dt, f)
  BY <1>1, Removal
<1>3. ASSUME OfRemoved({}, {z}, dm, {}, dt, f) PROVE AboutZone(z, f)
  BY <1>3 DEF OfRemoved, ZoneSets, MemberAddr, AttRoute, AboutZone
<1>4. ASSUME f \in Want, AboutZone(z, f) PROVE OfRemoved({}, {z}, dm, {}, dt, f)
  <2>1. \/ \E x \in DOMAIN node : f = NodePeer(node, x) \/ f = NodeHost(node, x)
        \/ \E y \in DOMAIN zone : f = ZoneSets(y)
        \/ \E m \in member : f = MemberAddr(node, m)
        \/ \E a \in DOMAIN ann : f = AnnAllow(node, ann, a)
        \/ \E t \in att : f = AttRoute(ann, t)
    BY <1>4, WantNow, InRows DEF Keyed
  <2>2. f[1] # "peer" /\ f[1] # "allows" /\ f[2] = z
    BY <1>4 DEF AboutZone
  <2>3. /\ \A y : ZoneSets(y)[2] = y
        /\ \A m : MemberAddr(node, m)[2] = m[1]
        /\ \A t : AttRoute(ann, t)[2] = t[2]
    BY DEF ZoneSets, MemberAddr, AttRoute
  <2>4. ASSUME NEW y \in DOMAIN zone, f = ZoneSets(y) PROVE OfRemoved({}, {z}, dm, {}, dt, f)
    BY <2>2, <2>3, <2>4 DEF OfRemoved
  <2>5. ASSUME NEW m \in member, f = MemberAddr(node, m) PROVE OfRemoved({}, {z}, dm, {}, dt, f)
    BY <2>2, <2>3, <2>5 DEF OfRemoved
  <2>6. ASSUME NEW t \in att, f = AttRoute(ann, t) PROVE OfRemoved({}, {z}, dm, {}, dt, f)
    BY <2>2, <2>3, <2>6 DEF OfRemoved
  <2> QED
    BY <2>1, <2>2, <2>4, <2>5, <2>6, Tags
<1> QED
  BY <1>2, <1>3, <1>4

\* A membership takes the node's address out of the zone.
LEMMA MemberRemoved ==
    ASSUME Keyed, IInv', NEW z, NEW n, Leave(z, n)
    PROVE  \A f : f \in Want' <=> f \in Want /\ f # <<"member", z, node[n].ip>>
<1> DEFINE m == <<z, n>>
<1>1. m \in member /\ member' = member \ {m} /\ UNCHANGED <<node, zone, ann, att>>
  BY DEF Leave
<1>2. Removes({}, {}, {m}, {}, {})
  BY <1>1 DEF Removes, Without, IInv, StoreTypeOK, Keyed
<1>3. m[1] = z /\ m[2] = n
  OBVIOUS
<1> HIDE DEF m
<1>4. \A f : OfRemoved({}, {}, {m}, {}, {}, f) <=> f = <<"member", z, node[n].ip>>
  BY <1>1, <1>3 DEF OfRemoved, MemberAddr
<1> QED
  BY <1>2, <1>4, Removal

\* A detachment takes the block out of the zone; the last one also takes it from
\* the peer.
LEMMA AttachmentsRemoved ==
    ASSUME Keyed, IInv', NEW gone, DetachSet(gone)
    PROVE  \A f : f \in Want' <=>
              /\ f \in Want
              /\ \A t \in gone \cap att : f # <<"route", t[2], ann[t[1]].synth>>
              /\ \A a \in Reclaimed(gone) : f # <<"allows", node[ann[a].node].key, ann[a].synth>>
<1> DEFINE da == Reclaimed(gone)
<1>1. Removes({}, {}, {}, da, gone)
  BY DEF DetachSet, Removes, Without, IInv, StoreTypeOK, Keyed
<1>2. da \subseteq DOMAIN ann
  BY DEF Reclaimed
<1> HIDE DEF da
<1>3. \A f : OfRemoved({}, {}, {}, da, gone, f) <=>
           \/ \E t \in gone \cap att : f = <<"route", t[2], ann[t[1]].synth>>
           \/ \E a \in da : f = <<"allows", node[ann[a].node].key, ann[a].synth>>
  BY <1>2 DEF OfRemoved, AnnAllow, AttRoute
<1> QED
  BY <1>1, <1>3, Removal DEF da

\* The announcements of other users' nodes that only the zones of user u used.
Orphans(u) == {a \in DOMAIN ann \ AnnsOf(NodesOf(u)) : \A x \in att : x[1] = a => x[2] \in ZonesOf(u)}

\* A deleted user takes everything about their nodes and zones, and the blocks that
\* were only announced in these zones.
LEMMA UserRemoved ==
    ASSUME Keyed, IInv', NEW u, DeleteUser(u)
    PROVE  \A f : f \in Want' <=>
              /\ f \in Want
              /\ \A n \in NodesOf(u) : ~ AboutPeer(node[n].key, f)
              /\ \A z \in ZonesOf(u) : ~ AboutZone(z, f)
              /\ \A m \in member : m[2] \in NodesOf(u) /\ m[1] \notin ZonesOf(u) => f # <<"member", m[1], node[m[2]].ip>>
              /\ \A t \in att : ann[t[1]].node \in NodesOf(u) /\ t[2] \notin ZonesOf(u)
                                   => f # <<"route", t[2], ann[t[1]].synth>>
              /\ \A a \in Orphans(u) : f # <<"allows", node[ann[a].node].key, ann[a].synth>>
<1> DEFINE dn == NodesOf(u)
           dz == ZonesOf(u)
           an == AnnsOf(dn)
           dm == {m \in member : m[1] \in dz \/ m[2] \in dn}
           dt == {t \in att : t[1] \in an \/ t[2] \in dz}
           da == an \cup Orphans(u)
           Gone(f) == OfRemoved(dn, dz, dm, da, dt, f)
<1>1. IInv /\ dn \subseteq DOMAIN node /\ dz \subseteq DOMAIN zone
  BY DEF Keyed, NodesOf, ZonesOf
<1>2. \A a : a \in an <=> a \in DOMAIN ann /\ ann[a].node \in dn
  BY DEF AnnsOf
<1>3. /\ \A t \in att : t[1] \in DOMAIN ann
      /\ \A a \in DOMAIN ann : ann[a].node \in DOMAIN node
      /\ \A m \in member : m[2] \in DOMAIN node
  BY <1>1 DEF IInv, ReferentialIntegrity
<1>4. Removes(dn, dz, dm, da, dt)
  <2>1. /\ node' = Without(node, dn) /\ zone' = Without(zone, dz)
        /\ member' = {m \in member : m[1] \notin dz /\ m[2] \notin dn}
        /\ att' = {t \in att : t[1] \notin an /\ t[2] \notin dz}
        /\ ann' = [a \in {x \in DOMAIN ann \ an : \E t \in att' : t[1] = x} |-> ann[a]]
    BY DEF DeleteUser
  <2> HIDE DEF an, dn, dz
  <2>2. {x \in DOMAIN ann \ an : \E t \in att' : t[1] = x} = DOMAIN ann \ da
    BY <2>1 DEF Orphans, an, dn, dz
  <2>3. ann' = Without(ann, da)
    BY <2>1, <2>2 DEF Without
  <2>4. member' = member \ dm /\ att' = att \ dt
    BY <2>1
  <2> QED
    BY <2>1, <2>3, <2>4 DEF Removes
<1> SUFFICES ASSUME NEW f
             PROVE  f \in Want' <=>
              /\ f \in Want
              /\ \A n \in dn : ~ AboutPeer(node[n].key, f)
              /\ \A z \in dz : ~ AboutZone(z, f)
              /\ \A m \in member : m[2] \in dn /\ m[1] \notin dz => f # <<"member", m[1], node[m[2]].ip>>
              /\ \A t \in att : ann[t[1]].node \in dn /\ t[2] \notin dz
                                   => f # <<"route", t[2], ann[t[1]].synth>>
              /\ \A a \in Orphans(u) : f # <<"allows", node[ann[a].node].key, ann[a].synth>>
  OBVIOUS
<1>5. f \in Want' <=> f \in Want /\ ~ Gone(f)
  BY <1>4, Removal
<1>6. Orphans(u) \subseteq DOMAIN ann
  BY DEF Orphans
<1> HIDE DEF dn, dz, an
<1>7. ASSUME NEW n \in dn, f = NodePeer(node, n) \/ f = NodeHost(node, n)
      PROVE  AboutPeer(node[n].key, f)
  BY <1>7 DEF NodePeer, NodeHost, AboutPeer
<1>8. ASSUME NEW z \in dz, f = ZoneSets(z) PROVE AboutZone(z, f)
  BY <1>8 DEF ZoneSets, AboutZone
<1>9. ASSUME NEW m \in dm, f = MemberAddr(node, m)
      PROVE  \/ m[1] \in dz /\ AboutZone(m[1], f)
             \/ m[2] \in dn /\ m[1] \notin dz /\ f = <<"member", m[1], node[m[2]].ip>>
  BY <1>9 DEF MemberAddr, AboutZone
<1>10. ASSUME NEW a \in da, f = AnnAllow(node, ann, a)
       PROVE  \/ ann[a].node \in dn /\ AboutPeer(node[ann[a].node].key, f)
              \/ a \in Orphans(u) /\ f = <<"allows", node[ann[a].node].key, ann[a].synth>>
  BY <1>2, <1>10 DEF AnnAllow, AboutPeer
<1>11. ASSUME NEW t \in dt, f = AttRoute(ann, t)
       PROVE  \/ t[2] \in dz /\ AboutZone(t[2], f)
              \/ ann[t[1]].node \in dn /\ t[2] \notin dz /\ f = <<"route", t[2], ann[t[1]].synth>>
  BY <1>2, <1>11 DEF AttRoute, AboutZone
<1>12. ASSUME Gone(f)
       PROVE  \/ \E n \in dn : AboutPeer(node[n].key, f)
              \/ \E z \in dz : AboutZone(z, f)
              \/ \E m \in member : m[2] \in dn /\ m[1] \notin dz /\ f = <<"member", m[1], node[m[2]].ip>>
              \/ \E t \in att : ann[t[1]].node \in dn /\ t[2] \notin dz /\ f = <<"route", t[2], ann[t[1]].synth>>
              \/ \E a \in Orphans(u) : f = <<"allows", node[ann[a].node].key, ann[a].synth>>
  <2>1. \/ \E n \in dn : f = NodePeer(node, n) \/ f = NodeHost(node, n)
        \/ \E z \in dz : f = ZoneSets(z)
        \/ \E m \in dm : f = MemberAddr(node, m)
        \/ \E a \in da : f = AnnAllow(node, ann, a)
        \/ \E t \in dt : f = AttRoute(ann, t)
    BY <1>12 DEF OfRemoved
  <2>2. CASE \E m \in dm : f = MemberAddr(node, m)
    BY <1>9, <2>2
  <2>3. CASE \E a \in da : f = AnnAllow(node, ann, a)
    BY <1>10, <2>3
  <2>4. CASE \E t \in dt : f = AttRoute(ann, t)
    BY <1>11, <2>4
  <2> QED
    BY <1>7, <1>8, <2>1, <2>2, <2>3, <2>4
<1>13. ASSUME f \in Want
       PROVE  \/ \E x \in DOMAIN node : f = NodePeer(node, x) \/ f = NodeHost(node, x)
              \/ \E y \in DOMAIN zone : f = ZoneSets(y)
              \/ \E m \in member : f = MemberAddr(node, m)
              \/ \E a \in DOMAIN ann : f = AnnAllow(node, ann, a)
              \/ \E t \in att : f = AttRoute(ann, t)
  BY <1>1, <1>13, WantNow, InRows
<1>14. ASSUME f \in Want, NEW n \in dn, AboutPeer(node[n].key, f) PROVE Gone(f)
  <2>1. f[1] \in {"peer", "allows"} /\ f[2] = node[n].key /\ n \in DOMAIN node
    BY <1>1, <1>14 DEF AboutPeer
  <2>2. ASSUME NEW x \in DOMAIN node, f = NodePeer(node, x) \/ f = NodeHost(node, x) PROVE Gone(f)
    <3>1. x = n
      BY <2>1, <2>2 DEF NodePeer, NodeHost, Keyed
    <3> QED
      BY <2>2, <3>1 DEF OfRemoved
  <2>3. ASSUME NEW a \in DOMAIN ann, f = AnnAllow(node, ann, a) PROVE Gone(f)
    <3>1. ann[a].node = n
      BY <1>3, <2>1, <2>3 DEF AnnAllow, Keyed
    <3>2. a \in da
      BY <1>2, <3>1
    <3> QED
      BY <2>3, <3>2 DEF OfRemoved
  <2> QED
    BY <1>13, <1>14, <2>1, <2>2, <2>3, Tags
<1>15. ASSUME f \in Want, NEW z \in dz, AboutZone(z, f) PROVE Gone(f)
  <2>1. f[1] # "peer" /\ f[1] # "allows" /\ f[2] = z
    BY <1>15 DEF AboutZone
  <2>2. /\ \A y : ZoneSets(y)[2] = y
        /\ \A m : MemberAddr(node, m)[2] = m[1]
        /\ \A t : AttRoute(ann, t)[2] = t[2]
    BY DEF ZoneSets, MemberAddr, AttRoute
  <2>3. ASSUME NEW y \in DOMAIN zone, f = ZoneSets(y) PROVE Gone(f)
    BY <2>1, <2>2, <2>3 DEF OfRemoved
  <2>4. ASSUME NEW m \in member, f = MemberAddr(node, m) PROVE Gone(f)
    BY <2>1, <2>2, <2>4 DEF OfRemoved
  <2>5. ASSUME NEW t \in att, f = AttRoute(ann, t) PROVE Gone(f)
    BY <2>1, <2>2, <2>5 DEF OfRemoved
  <2> QED
    BY <1>13, <1>15, <2>1, <2>3, <2>4, <2>5, Tags
<1>16. ASSUME NEW m \in member, m[2] \in dn, f = <<"member", m[1], node[m[2]].ip>> PROVE Gone(f)
  BY <1>16 DEF OfRemoved, MemberAddr
<1>17. ASSUME NEW t \in att, ann[t[1]].node \in dn, f = <<"route", t[2], ann[t[1]].synth>> PROVE Gone(f)
  BY <1>2, <1>3, <1>17 DEF OfRemoved, AttRoute
<1>18. ASSUME NEW a \in Orphans(u), f = <<"allows", node[ann[a].node].key, ann[a].synth>> PROVE Gone(f)
  BY <1>6, <1>18 DEF OfRemoved, AnnAllow
<1> HIDE DEF Gone, dm, dt, da
<1> QED
  BY <1>5, <1>12, <1>14, <1>15, <1>16, <1>17, <1>18

-----------------------------------------------------------------------------
(* What a call does to the kernel *)

\* Every zone has its two sets.
Shaped == \A z \in DOMAIN nft : {"members", "routes"} \subseteq DOMAIN nft[z]

\* The kernel's facts by kind.
LEMMA HaveKinds ==
    /\ \A k : <<"peer", k>> \in Have <=> k \in DOMAIN peers
    /\ \A k, b : <<"allows", k, b>> \in Have <=> k \in DOMAIN peers /\ b \in peers[k]
    /\ \A z : <<"zone", z>> \in Have <=> z \in DOMAIN nft
    /\ \A z, ip : <<"member", z, ip>> \in Have <=> z \in DOMAIN nft /\ ip \in nft[z].members
    /\ \A z, b : <<"route", z, b>> \in Have <=> z \in DOMAIN nft /\ b \in nft[z].routes
  BY FactKinds DEF Have

\* A fact is of one of the five kinds.
LEMMA FactForms ==
    ASSUME NEW ps, NEW zs, NEW f \in Facts(ps, zs)
    PROVE  \/ \E k : f = <<"peer", k>>
           \/ \E k, b : f = <<"allows", k, b>>
           \/ \E z : f = <<"zone", z>>
           \/ \E z, ip : f = <<"member", z, ip>>
           \/ \E z, b : f = <<"route", z, b>>
  BY FactsAre

\* A peer is removed with its AllowedIPs.
LEMMA RemovePeerEffect ==
    ASSUME NEW k, RemovePeer(k)
    PROVE  \A f : f \in Have' <=> f \in Have /\ ~ AboutPeer(k, f)
<1>1. /\ DOMAIN peers' = DOMAIN peers \ {k} /\ \A x \in DOMAIN peers' : peers'[x] = peers[x]
      /\ nft' = nft /\ Have' = Facts(peers', nft') /\ Have = Facts(peers, nft)
  BY DEF RemovePeer, Have
<1> SUFFICES ASSUME NEW f PROVE f \in Have' <=> f \in Have /\ ~ AboutPeer(k, f)
  OBVIOUS
<1>2. ASSUME f \in Have' PROVE f \in Have /\ ~ AboutPeer(k, f)
  BY <1>1, <1>2, FactsAre DEF AboutPeer
<1>3. ASSUME f \in Have, ~ AboutPeer(k, f) PROVE f \in Have'
  BY <1>1, <1>3, FactsAre DEF AboutPeer
<1> QED
  BY <1>2, <1>3

\* A zone's rules and sets are removed.
LEMMA DeleteZoneSetsEffect ==
    ASSUME NEW z, DeleteZoneSets(z)
    PROVE  \A f : f \in Have' <=> f \in Have /\ ~ AboutZone(z, f)
<1>1. /\ DOMAIN nft' = DOMAIN nft \ {z} /\ \A x \in DOMAIN nft' : nft'[x] = nft[x]
      /\ peers' = peers /\ Have' = Facts(peers', nft') /\ Have = Facts(peers, nft)
  BY DEF DeleteZoneSets, Have
<1> SUFFICES ASSUME NEW f PROVE f \in Have' <=> f \in Have /\ ~ AboutZone(z, f)
  OBVIOUS
<1>2. ASSUME f \in Have' PROVE f \in Have /\ ~ AboutZone(z, f)
  BY <1>1, <1>2, FactsAre DEF AboutZone
<1>3. ASSUME f \in Have, ~ AboutZone(z, f) PROVE f \in Have'
  BY <1>1, <1>3, FactsAre DEF AboutZone
<1> QED
  BY <1>2, <1>3

\* A zone's sets are created, empty.
LEMMA AddZoneEffect ==
    ASSUME NEW z, AddZone(z)
    PROVE  \A f : f \in Have' <=> f = <<"zone", z>> \/ (f \in Have /\ ~ AboutZone(z, f))
<1>1. /\ DOMAIN nft' = DOMAIN nft \cup {z} /\ \A x \in DOMAIN nft \ {z} : nft'[x] = nft[x]
      /\ nft'[z].members = {} /\ nft'[z].routes = {}
      /\ peers' = peers /\ Have' = Facts(peers', nft') /\ Have = Facts(peers, nft)
  BY DEF AddZone, Have
<1> SUFFICES ASSUME NEW f PROVE f \in Have' <=> f = <<"zone", z>> \/ (f \in Have /\ ~ AboutZone(z, f))
  OBVIOUS
<1>2. ASSUME f \in Have' PROVE f = <<"zone", z>> \/ (f \in Have /\ ~ AboutZone(z, f))
  BY <1>1, <1>2, FactsAre DEF AboutZone
<1>3. ASSUME f \in Have, ~ AboutZone(z, f) PROVE f \in Have'
  BY <1>1, <1>3, FactsAre DEF AboutZone
<1>4. <<"zone", z>> \in Have'
  BY <1>1, FactsAre
<1> QED
  BY <1>2, <1>3, <1>4

\* Two firewalls with the same zones differ in members and routes only.
LEMMA SetsDiffer ==
    ASSUME NEW ps, NEW zs, NEW ys, DOMAIN ys = DOMAIN zs, NEW f \in Facts(ps, ys), f \notin Facts(ps, zs)
    PROVE  \/ \E z \in DOMAIN zs : \E ip \in ys[z].members : ip \notin zs[z].members /\ f = <<"member", z, ip>>
           \/ \E z \in DOMAIN zs : \E b \in ys[z].routes : b \notin zs[z].routes /\ f = <<"route", z, b>>
<1>1. ASSUME NEW k \in DOMAIN ps, f = <<"peer", k>> PROVE FALSE
  BY <1>1, FactKinds
<1>2. ASSUME NEW k \in DOMAIN ps, NEW b \in ps[k], f = <<"allows", k, b>> PROVE FALSE
  BY <1>2, FactKinds
<1>3. ASSUME NEW z \in DOMAIN ys, f = <<"zone", z>> PROVE FALSE
  BY <1>3, FactKinds
<1>4. ASSUME NEW z \in DOMAIN ys, NEW ip \in ys[z].members, f = <<"member", z, ip>>
      PROVE  ip \notin zs[z].members
  BY <1>4, FactKinds
<1>5. ASSUME NEW z \in DOMAIN ys, NEW b \in ys[z].routes, f = <<"route", z, b>>
      PROVE  b \notin zs[z].routes
  BY <1>5, FactKinds
<1> QED
  BY <1>1, <1>2, <1>3, <1>4, <1>5, FactsAre

\* An address enters a zone's set.
LEMMA AddMemberEffect ==
    ASSUME Shaped, NEW z, NEW ip, AddMember(z, ip)
    PROVE  \A f : f \in Have' <=> f = <<"member", z, ip>> \/ f \in Have
<1>1. /\ DOMAIN nft' = DOMAIN nft /\ z \in DOMAIN nft /\ \A x \in DOMAIN nft : nft'[x].routes = nft[x].routes
      /\ \A x \in DOMAIN nft \ {z} : nft'[x].members = nft[x].members
      /\ nft'[z].members = nft[z].members \cup {ip}
      /\ Have' = Facts(peers, nft') /\ Have = Facts(peers, nft)
  BY DEF AddMember, Have, Shaped
<1>2. ASSUME NEW f \in Have', f \notin Have PROVE f = <<"member", z, ip>>
  <2>1. \/ \E y \in DOMAIN nft : \E i \in nft'[y].members : i \notin nft[y].members /\ f = <<"member", y, i>>
        \/ \E y \in DOMAIN nft : \E i \in nft'[y].routes : i \notin nft[y].routes /\ f = <<"route", y, i>>
    BY <1>1, <1>2, SetsDiffer
  <2> QED
    BY <1>1, <2>1
<1>3. ASSUME NEW f \in Have, f \notin Have' PROVE FALSE
  <2>1. \/ \E y \in DOMAIN nft : \E i \in nft[y].members : i \notin nft'[y].members /\ f = <<"member", y, i>>
        \/ \E y \in DOMAIN nft : \E i \in nft[y].routes : i \notin nft'[y].routes /\ f = <<"route", y, i>>
    BY <1>1, <1>3, SetsDiffer
  <2> QED
    BY <1>1, <2>1
<1>4. <<"member", z, ip>> \in Have'
  BY <1>1, FactKinds
<1> QED
  BY <1>2, <1>3, <1>4

\* An address leaves a zone's set.
LEMMA RemoveMemberEffect ==
    ASSUME Shaped, NEW z, NEW ip, RemoveMember(z, ip)
    PROVE  \A f : f \in Have' <=> f \in Have /\ f # <<"member", z, ip>>
<1>1. /\ DOMAIN nft' = DOMAIN nft /\ \A x \in DOMAIN nft : nft'[x].routes = nft[x].routes
      /\ \A x \in DOMAIN nft \ {z} : nft'[x].members = nft[x].members
      /\ z \in DOMAIN nft => nft'[z].members = nft[z].members \ {ip}
      /\ Have' = Facts(peers, nft') /\ Have = Facts(peers, nft)
  BY DEF RemoveMember, Have, Shaped
<1>2. ASSUME NEW f \in Have', f \notin Have PROVE FALSE
  <2>1. \/ \E y \in DOMAIN nft : \E i \in nft'[y].members : i \notin nft[y].members /\ f = <<"member", y, i>>
        \/ \E y \in DOMAIN nft : \E i \in nft'[y].routes : i \notin nft[y].routes /\ f = <<"route", y, i>>
    BY <1>1, <1>2, SetsDiffer
  <2> QED
    BY <1>1, <2>1
<1>3. ASSUME NEW f \in Have, f \notin Have' PROVE f = <<"member", z, ip>>
  <2>1. \/ \E y \in DOMAIN nft : \E i \in nft[y].members : i \notin nft'[y].members /\ f = <<"member", y, i>>
        \/ \E y \in DOMAIN nft : \E i \in nft[y].routes : i \notin nft'[y].routes /\ f = <<"route", y, i>>
    BY <1>1, <1>3, SetsDiffer
  <2> QED
    BY <1>1, <2>1
<1>4. <<"member", z, ip>> \notin Have'
  BY <1>1, FactKinds
<1> QED
  BY <1>2, <1>3, <1>4

\* A block enters a zone's route set.
LEMMA AddZoneRouteEffect ==
    ASSUME Shaped, NEW z, NEW b, AddZoneRoute(z, b)
    PROVE  \A f : f \in Have' <=> f = <<"route", z, b>> \/ f \in Have
<1>1. /\ DOMAIN nft' = DOMAIN nft /\ z \in DOMAIN nft /\ \A x \in DOMAIN nft : nft'[x].members = nft[x].members
      /\ \A x \in DOMAIN nft \ {z} : nft'[x].routes = nft[x].routes
      /\ nft'[z].routes = nft[z].routes \cup {b}
      /\ Have' = Facts(peers, nft') /\ Have = Facts(peers, nft)
  BY DEF AddZoneRoute, RouteFits, Have, Shaped
<1>2. ASSUME NEW f \in Have', f \notin Have PROVE f = <<"route", z, b>>
  <2>1. \/ \E y \in DOMAIN nft : \E i \in nft'[y].members : i \notin nft[y].members /\ f = <<"member", y, i>>
        \/ \E y \in DOMAIN nft : \E i \in nft'[y].routes : i \notin nft[y].routes /\ f = <<"route", y, i>>
    BY <1>1, <1>2, SetsDiffer
  <2> QED
    BY <1>1, <2>1
<1>3. ASSUME NEW f \in Have, f \notin Have' PROVE FALSE
  <2>1. \/ \E y \in DOMAIN nft : \E i \in nft[y].members : i \notin nft'[y].members /\ f = <<"member", y, i>>
        \/ \E y \in DOMAIN nft : \E i \in nft[y].routes : i \notin nft'[y].routes /\ f = <<"route", y, i>>
    BY <1>1, <1>3, SetsDiffer
  <2> QED
    BY <1>1, <2>1
<1>4. <<"route", z, b>> \in Have'
  BY <1>1, FactKinds
<1> QED
  BY <1>2, <1>3, <1>4

\* A block leaves a zone's route set.
LEMMA RemoveZoneRouteEffect ==
    ASSUME Shaped, NEW z, NEW b, RemoveZoneRoute(z, b)
    PROVE  \A f : f \in Have' <=> f \in Have /\ f # <<"route", z, b>>
<1>1. /\ DOMAIN nft' = DOMAIN nft /\ \A x \in DOMAIN nft : nft'[x].members = nft[x].members
      /\ \A x \in DOMAIN nft \ {z} : nft'[x].routes = nft[x].routes
      /\ z \in DOMAIN nft => nft'[z].routes = nft[z].routes \ {b}
      /\ Have' = Facts(peers, nft') /\ Have = Facts(peers, nft)
  BY DEF RemoveZoneRoute, Have, Shaped
<1>2. ASSUME NEW f \in Have', f \notin Have PROVE FALSE
  <2>1. \/ \E y \in DOMAIN nft : \E i \in nft'[y].members : i \notin nft[y].members /\ f = <<"member", y, i>>
        \/ \E y \in DOMAIN nft : \E i \in nft'[y].routes : i \notin nft[y].routes /\ f = <<"route", y, i>>
    BY <1>1, <1>2, SetsDiffer
  <2> QED
    BY <1>1, <2>1
<1>3. ASSUME NEW f \in Have, f \notin Have' PROVE f = <<"route", z, b>>
  <2>1. \/ \E y \in DOMAIN nft : \E i \in nft[y].members : i \notin nft'[y].members /\ f = <<"member", y, i>>
        \/ \E y \in DOMAIN nft : \E i \in nft[y].routes : i \notin nft'[y].routes /\ f = <<"route", y, i>>
    BY <1>1, <1>3, SetsDiffer
  <2> QED
    BY <1>1, <2>1
<1>4. <<"route", z, b>> \notin Have'
  BY <1>1, FactKinds
<1> QED
  BY <1>2, <1>3, <1>4

\* The peer of node n is given the node's address and blocks: the peer allows what
\* the database says, and nobody loses what the database grants them.
LEMMA SetPeerEffect ==
    ASSUME Keyed, NEW n \in DOMAIN node, SetPeerRoutes(node[n].key, node[n].ip, RoutesForNode(n))
    PROVE  LET k == node[n].key IN
           /\ \A f \in Want : AboutPeer(k, f) \/ f \in Have => f \in Have'
           /\ \A f \in Have' : f \in Want \/ (f \in Have /\ ~ AllowsTo(k, f))
<1> DEFINE k       == node[n].key
           allowed == {Host(node[n].ip)} \cup RoutesForNode(n)
<1>1. /\ DOMAIN peers' = DOMAIN peers \cup {k} /\ peers'[k] = allowed
      /\ \A x \in DOMAIN peers \ {k} : peers'[x] = peers[x] \ allowed
      /\ nft' = nft /\ Have' = Facts(peers', nft') /\ Have = Facts(peers, nft)
  BY DEF SetPeerRoutes, Have
<1>2. IInv /\ \A a \in DOMAIN ann : ann[a].node \in DOMAIN node
  BY DEF Keyed, IInv, ReferentialIntegrity
<1>3. \A b : b \in allowed <=> \/ b = Host(node[n].ip)
                               \/ \E a \in DOMAIN ann : ann[a].node = n /\ ann[a].synth = b
  BY DEF RoutesForNode, AnnsOf
<1> HIDE DEF allowed
<1>4. \A b : <<"allows", k, b>> \in Want <=> b \in allowed
  BY <1>2, <1>3, WantKinds DEF Keyed
<1>5. ASSUME NEW x, x # k, NEW b, <<"allows", x, b>> \in Want PROVE b \notin allowed
  <2>1. CASE \E m \in DOMAIN node : node[m].key = x /\ Host(node[m].ip) = b
    <3>1. PICK m \in DOMAIN node : node[m].key = x /\ Host(node[m].ip) = b
      BY <2>1
    <3>2. Host(node[m].ip) # Host(node[n].ip)
      BY <1>5, <3>1 DEF Keyed, Host
    <3> QED
      BY <1>3, <3>1, <3>2 DEF Keyed
  <2>2. CASE \E a \in DOMAIN ann : node[ann[a].node].key = x /\ ann[a].synth = b
    <3>1. PICK a \in DOMAIN ann : node[ann[a].node].key = x /\ ann[a].synth = b
      BY <2>2
    <3> QED
      BY <1>3, <1>5, <3>1 DEF Keyed
  <2> QED
    BY <1>2, <1>5, <2>1, <2>2, WantKinds
<1>6. <<"peer", k>> \in Want
  BY <1>2, WantKinds
<1>7. ASSUME NEW f \in Want, AboutPeer(k, f) \/ f \in Have PROVE f \in Have'
  <2>1. ASSUME NEW x, f = <<"peer", x>> PROVE f \in Have'
    BY <1>1, <1>7, <2>1, FactKinds DEF AboutPeer
  <2>2. ASSUME NEW x, NEW b, f = <<"allows", x, b>> PROVE f \in Have'
    <3>1. CASE x = k
      BY <1>1, <1>4, <2>2, <3>1, FactKinds
    <3>2. CASE x # k
      <4>1. x \in DOMAIN peers /\ b \in peers[x]
        BY <1>1, <1>7, <2>2, <3>2, FactKinds DEF AboutPeer
      <4> QED
        BY <1>1, <1>5, <2>2, <3>2, <4>1, FactKinds
    <3> QED
      BY <3>1, <3>2
  <2>3. ASSUME f[1] \notin {"peer", "allows"} PROVE f \in Have'
    BY <1>1, <1>7, <2>3, FactsAre DEF AboutPeer
  <2> QED
    BY <2>1, <2>2, <2>3, FactForms DEF Want
<1>8. ASSUME NEW f \in Have' PROVE f \in Want \/ (f \in Have /\ ~ AllowsTo(k, f))
  <2>1. ASSUME NEW x, f = <<"peer", x>> PROVE f \in Want \/ (f \in Have /\ ~ AllowsTo(k, f))
    BY <1>1, <1>6, <2>1, FactKinds DEF AllowsTo
  <2>2. ASSUME NEW x, NEW b, f = <<"allows", x, b>> PROVE f \in Want \/ (f \in Have /\ ~ AllowsTo(k, f))
    BY <1>1, <1>4, <2>2, FactKinds DEF AllowsTo
  <2>3. ASSUME f[1] \notin {"peer", "allows"} PROVE f \in Have /\ ~ AllowsTo(k, f)
    BY <1>1, <2>3, FactsAre DEF AllowsTo
  <2> QED
    BY <1>1, <2>1, <2>2, <2>3, FactForms
<1> QED
  BY <1>7, <1>8

-----------------------------------------------------------------------------
(* How far the kernel lags behind the database *)

\* One call fails at most, or the database never does.  Were the compensation of
\* a failed call to fail too, the kernel would miss what the database records.
SingleFault == MaxFaults <= 1 \/ "db" \notin FaultKinds

NodeIs(n, k, ip) == n \in DOMAIN node /\ node[n].key = k /\ node[n].ip = ip
NodeAt(n, ip)    == n \in DOMAIN node /\ node[n].ip = ip
AnnIs(a, n, b)   == a \in DOMAIN ann /\ ann[a].node = n /\ ann[a].synth = b

MembersOf(n) == {z \in DOMAIN zone : <<z, n>> \in member}
RouteRows(n) == {<<t[2], ann[t[1]].synth>> : t \in {x \in att : ann[x[1]].node = n}}
OnlyIn(a, z) == \A t \in att : t[1] = a => t[2] = z

\* The facts a best-effort call is there to clear away.
Clears(c, f) ==
    \/ c.c = "rmPeer" /\ AboutPeer(c.k, f)
    \/ c.c = "rmMember" /\ f = <<"member", c.z, c.ip>>
    \/ c.c = "rmRoute" /\ f = <<"route", c.z, c.b>>
    \/ c.c = "rmZone" /\ AboutZone(c.z, f)
    \/ c.c \in {"setPeer", "recompute"} /\ AllowsTo(c.k, f)
    \/ c.c = "recomputeByID" /\ AllowsTo(node[c.n].key, f)

Removals == {"rmPeer", "rmMember", "rmRoute", "rmZone"}

\* The call takes nothing away that the database records.
Safe(c) ==
    /\ c.c \in Removals => \A f \in Want : ~ Clears(c, f)
    /\ c.c = "setPeer" => \E n \in DOMAIN node : NodeIs(n, c.k, c.ip) /\ c.rs = RoutesForNode(n)
    /\ c.c \in {"recompute", "detach"} => NodeIs(c.n, c.k, c.ip)
    /\ c.c = "recomputeByID" => c.n \in DOMAIN node

\* A list of calls that are safe; detaching comes last, after the membership's
\* removal.
SafeList(todo) ==
    /\ \A i \in DOMAIN todo : Safe(todo[i])
    /\ \A i \in DOMAIN todo : todo[i].c = "detach" =>
          i = Len(todo) /\ \A h \in 1 .. (i - 1) : todo[h].c = "rmMember"

UndoPcs == {"undoNode", "undoZone", "undoJoin", "undoAnnounce"}

\* What the only request has read is still true, and what it is about to undo
\* failed.
Accurate(j) ==
    /\ j.pc = "addPeer" => NodeIs(j.n, j.k, j.ip) /\ AnnsOf({j.n}) = {}
    /\ j.pc \in {"snapshot", "lookup", "deleteNode"} => NodeIs(j.n, j.k, j.ip) /\ j.zs = MembersOf(j.n)
    /\ j.pc \in {"lookup", "deleteNode"} => j.rs = RouteRows(j.n)
    /\ j.pc \in {"insertZone", "addZone"} => j.n = 0 \/ NodeAt(j.n, j.ip)
    /\ j.pc \in {"autoJoin", "autoMember", "join", "addMember", "undoJoin"} => NodeAt(j.n, j.ip)
    /\ j.pc \in {"addZone", "autoJoin", "join"} => j.z \in DOMAIN zone
    /\ j.pc = "addZone" => \A f \in Want : AboutZone(j.z, f) => f = <<"zone", j.z>>
    /\ j.pc \in {"autoMember", "addMember", "undoJoin"} => <<j.z, j.n>> \in member
    /\ j.pc = "undoNode" => j.n \in DOMAIN node
    /\ j.pc \in {"leave", "announce", "withdraw", "routes", "setRoutes", "addRoute", "undoAnnounce"} =>
          NodeIs(j.n, j.k, j.ip)
    /\ j.pc \in {"withdraw", "routes", "setRoutes", "addRoute"} => AnnIs(j.a, j.n, j.b)
    /\ j.pc \in {"routes", "setRoutes", "addRoute", "undoAnnounce"} => <<j.a, j.z>> \in att /\ ann[j.a].node = j.n
    /\ j.pc = "setRoutes" => j.rs = RoutesForNode(j.n)
    /\ j.pc = "deleteZone" => j.ns \subseteq DOMAIN node /\ \A t \in att : t[2] # j.z
    /\ j.pc = "todo" => SafeList(j.todo)
    /\ j.pc \in UndoPcs => faults > 0

\* What the database records and the request has yet to bring into the kernel.
Late(j, f) ==
    \/ j.pc = "addPeer" /\ AboutPeer(j.k, f)
    \/ j.pc = "undoNode" /\ AboutPeer(node[j.n].key, f)
    \/ j.pc = "addZone" /\ f = <<"zone", j.z>>
    \/ j.pc = "undoZone" /\ AboutZone(j.z, f)
    \/ j.pc \in {"autoMember", "addMember", "undoJoin"} /\ f = <<"member", j.z, j.ip>>
    \/ j.pc \in {"routes", "setRoutes", "addRoute", "undoAnnounce"} /\ f = <<"route", j.z, ann[j.a].synth>>
    \/ j.pc \in {"routes", "setRoutes", "undoAnnounce"} /\ OnlyIn(j.a, j.z) /\ f = <<"allows", j.k, ann[j.a].synth>>

\* What the kernel still shows and the request has yet to clear away.
Left(j, f) ==
    \/ j.pc = "deleteZone" /\ (AboutZone(j.z, f) \/ \E n \in j.ns : AllowsTo(node[n].key, f))
    \/ j.pc = "todo" /\ \E i \in DOMAIN j.todo : Clears(j.todo[i], f)

\* Between the steps of a request the kernel lacks only what the request will bring
\* and, unless a call failed, has only what it will clear away.
Tracks(j) ==
    /\ Accurate(j)
    /\ \A f \in Want : f \in Have \/ Late(j, f)
    /\ faults = 0 => \A f \in Have : f \in Want \/ Left(j, f)

Synchronized == phase = "serving" => \A p \in Procs : Tracks(job[p])

\* What the mirror demands of a step.
Follows ==
    \/ NoKernel
    \/ UNCHANGED Want /\ Have' \subseteq Have \cup Want /\ Have \cap Want \subseteq Have'

\* The surroundings of a step of the only request.
Ongoing(p) ==
    /\ Keyed /\ TypeInv /\ JobInv /\ Shaped /\ Tracks(job[p])
    /\ Keyed' /\ JobInv'
    /\ SingleFault \/ faults' = 0
    /\ faults' = 0 => faults = 0

\* Where a request has neither anything to bring nor to clear away.
PlainPcs ==
    {"idle", "insertNode", "realloc", "snapshot", "lookup", "deleteNode", "insertZone", "autoJoin",
     "join", "leave", "setPassword", "detachZone", "announce", "withdraw"}

\* Then the kernel has what the database records.
LEMMA PlainMirror ==
    ASSUME NEW j, Tracks(j), j.pc \in PlainPcs
    PROVE  (\A f \in Want : f \in Have) /\ (faults = 0 => \A f \in Have : f \in Want)
<1>1. \A f : ~ Late(j, f) /\ ~ Left(j, f)
  BY DEF PlainPcs, Late, Left
<1> QED
  BY <1>1 DEF Tracks

\* Nothing that is wanted or shown changes.
LEMMA NoDbNoChange ==
    ASSUME NoDb
    PROVE  /\ Want' = Want /\ UNCHANGED <<node, zone, member, ann, att>>
           /\ \A n : UNCHANGED RoutesForNode(n)
<1>1. UNCHANGED <<node, zone, member, ann, att>>
  BY DEF NoDb, dbvars
<1> QED
  BY <1>1, SameDbSameKernel DEF NoDb, Want, Facts, PeerFacts, ZoneFacts, RoutesForNode, AnnsOf

LEMMA NoKernelNoChange ==
    ASSUME NoKernel PROVE Have' = Have /\ Follows
  BY DEF NoKernel, kvars, Have, Follows

\* These requests rely on nothing they have read.
LEMMA Unburdened ==
    ASSUME NEW p, job'[p].pc \in {"idle", "insertNode", "realloc", "setPassword", "detachZone"}
    PROVE  Accurate(job[p])'
  BY DEF Accurate, UndoPcs

\* A transaction of a request that had nothing to bring nor to clear away.
LEMMA PlainCommit ==
    ASSUME NEW p \in Procs, Ongoing(p), job[p].pc \in PlainPcs, NoKernel, Accurate(job[p])',
           \A f \in Want' : f \in Want \/ Late(job[p], f)',
           faults' = 0 => \A f \in Want : f \in Want' \/ Left(job[p], f)'
    PROVE  Tracks(job[p])' /\ Follows
<1>1. Have' = Have /\ Follows
  BY NoKernelNoChange
<1>2. (\A f \in Want : f \in Have) /\ (faults = 0 => \A f \in Have : f \in Want)
  BY PlainMirror DEF Ongoing
<1> QED
  BY <1>1, <1>2 DEF Tracks, Ongoing

\* A step of such a request that changes neither database nor kernel.
LEMMA PlainStep ==
    ASSUME NEW p \in Procs, Ongoing(p), job[p].pc \in PlainPcs, NoKernel, NoDb, Accurate(job[p])'
    PROVE  Tracks(job[p])' /\ Follows
  BY NoDbNoChange, PlainCommit

-----------------------------------------------------------------------------
(* The handlers, step by step *)

\* A request that is answered, or fails before its first write.
LEMMA PlainDone ==
    ASSUME NEW p \in Procs, Ongoing(p), job[p].pc \in PlainPcs, NoKernel, NoDb, Done(p)
    PROVE  Tracks(job[p])' /\ Follows
<1>1. job'[p].pc = "idle"
  BY Moves DEF Ongoing
<1> QED
  BY <1>1, Unburdened, PlainStep

\* The step that starts a request finds the process idle.
LEMMA IdlePlain ==
    ASSUME NEW p \in Procs, NEW op, Ready(p, op) PROVE job[p].pc \in PlainPcs
  BY DEF Ready, Idle, PlainPcs

\* registerNode, up to its insert.
LEMMA RegisterSync ==
    ASSUME NEW p \in Procs, Ongoing(p), RegisterStart(p) \/ RegisterRealloc(p) \/ RegisterInsert(p)
    PROVE  Tracks(job[p])' /\ Follows
<1> DEFINE j == job[p]
<1>0. JobInv /\ Keyed /\ IInv /\ IInv' /\ Tracks(j)
  BY DEF Ongoing, Keyed
<1>1. CASE RegisterStart(p)
  <2>1. job'[p].pc = "insertNode"
    BY <1>0, <1>1, Moves DEF RegisterStart
  <2> QED
    BY <1>1, <2>1, IdlePlain, Unburdened, PlainStep DEF RegisterStart
<1>2. CASE RegisterRealloc(p)
  <2>1. j \in RegisterJob /\ j.pc \in PlainPcs
    BY <1>0, <1>2 DEF RegisterRealloc, At, JobInv, Carries, PlainPcs
  <2> DEFINE x == [j EXCEPT !.pc = "insertNode", !.ip = LowestFree(TakenIPs, FirstIP, LastIP)]
  <2>2. x.pc = "insertNode"
    BY <2>1 DEF RegisterJob
  <2>3. Done(p) \/ Go(p, x)
    BY <1>2 DEF RegisterRealloc
  <2> HIDE DEF x
  <2>4. job'[p].pc \in {"idle", "insertNode"}
    BY <1>0, <2>2, <2>3, Moves
  <2> QED
    BY <1>2, <2>1, <2>4, Unburdened, PlainStep DEF RegisterRealloc
<1>3. CASE RegisterInsert(p)
  <2>1. j \in RegisterJob /\ j.pc \in PlainPcs
    BY <1>0, <1>3 DEF RegisterInsert, At, JobInv, Carries, PlainPcs
  <2>2. NoKernel
    BY <1>3 DEF RegisterInsert
  <2> DEFINE x == [j EXCEPT !.pc = "realloc", !.tries = @ + 1]
             n == lastId.node + 1
             y == [pc |-> "addPeer", n |-> n, k |-> j.k, ip |-> j.ip]
  <2>3. x.pc = "realloc" /\ y.pc = "addPeer" /\ y.n = n /\ y.k = j.k /\ y.ip = j.ip
    BY <2>1 DEF RegisterJob
  <2>4. CASE InsertNode(j.u, j.nm, j.k, j.ip, j.pf) /\ Go(p, y)
    <3> HIDE DEF y
    <3>1. job'[p] = y
      BY <1>0, <2>4, Moves
    <3>2. /\ Want' = Want \cup {<<"peer", j.k>>, <<"allows", j.k, Host(j.ip)>>}
          /\ n \in DOMAIN node' /\ node'[n].key = j.k /\ node'[n].ip = j.ip
          /\ \A a \in DOMAIN ann' : ann'[a].node # n
      BY <1>0, <2>4, NodeInserted
    <3> HIDE DEF n, j
    <3>3. Accurate(job[p])'
      BY <2>3, <3>1, <3>2 DEF Accurate, UndoPcs, NodeIs, AnnsOf
    <3>4. \A f \in Want' : f \in Want \/ Late(job[p], f)'
      BY <2>3, <3>1, <3>2 DEF Late, AboutPeer
    <3> QED
      BY <2>1, <2>2, <3>2, <3>3, <3>4, PlainCommit DEF j
  <2>5. CASE NoDb /\ (Done(p) \/ Go(p, x))
    <3> HIDE DEF x
    <3>1. job'[p].pc \in {"idle", "realloc"}
      BY <1>0, <2>3, <2>5, Moves
    <3> QED
      BY <2>1, <2>2, <2>5, <3>1, Unburdened, PlainStep
  <2> QED
    BY <1>3, <2>4, <2>5 DEF RegisterInsert
<1> QED
  BY <1>1, <1>2, <1>3

\* Its kernel call and its compensation.
LEMMA RegisterPeerSync ==
    ASSUME NEW p \in Procs, Ongoing(p), RegisterAddPeer(p) \/ RegisterUndo(p)
    PROVE  Tracks(job[p])' /\ Follows
<1> DEFINE j == job[p]
<1>0. JobInv /\ Keyed /\ IInv /\ IInv' /\ Tracks(j) /\ faults \in Nat
  BY DEF Ongoing, Keyed, TypeInv, CountersOK
<1>1. CASE RegisterAddPeer(p)
  <2>1. /\ j.pc = "addPeer" /\ NodeIs(j.n, j.k, j.ip) /\ AnnsOf({j.n}) = {}
        /\ \A f \in Want : f \in Have \/ AboutPeer(j.k, f)
        /\ faults = 0 => \A f \in Have : f \in Want
    BY <1>0, <1>1 DEF RegisterAddPeer, At, Tracks, Accurate, Late, Left
  <2>2. NoDb /\ Want' = Want /\ UNCHANGED node
    BY <1>1, NoDbNoChange DEF RegisterAddPeer
  <2>3. CASE AddPeer(j.k, j.ip) /\ Done(p)
    <3>1. j.n \in DOMAIN node /\ RoutesForNode(j.n) = {}
      BY <2>1 DEF NodeIs, RoutesForNode
    <3>2. SetPeerRoutes(node[j.n].key, node[j.n].ip, RoutesForNode(j.n))
      BY <2>1, <2>3, <3>1 DEF NodeIs, AddPeer
    <3>3. /\ \A f \in Want : AboutPeer(j.k, f) \/ f \in Have => f \in Have'
          /\ \A f \in Have' : f \in Want \/ f \in Have
      BY <1>0, <2>1, <3>1, <3>2, SetPeerEffect DEF NodeIs
    <3>4. Accurate(job[p])'
      BY <1>0, <2>3, Moves, Unburdened
    <3> HIDE DEF j
    <3> QED
      BY <2>1, <2>2, <3>3, <3>4 DEF Tracks, Follows, Ongoing
  <2>4. CASE Fault("kernel") /\ Go(p, [pc |-> "undoNode", n |-> j.n]) /\ NoKernel
    <3>1. job'[p].pc = "undoNode" /\ job'[p].n = j.n
      BY <1>0, <2>4, Moves
    <3>2. faults' > 0
      BY <1>0, <2>4 DEF Fault
    <3>3. Accurate(job[p])'
      BY <2>1, <2>2, <3>1, <3>2 DEF Accurate, UndoPcs, NodeIs
    <3>4. \A f \in Want' : f \in Have' \/ Late(job[p], f)'
      <4> HIDE DEF j
      <4> QED
        BY <2>1, <2>2, <2>4, <3>1, NoKernelNoChange DEF Late, NodeIs
    <3> QED
      BY <1>0, <2>4, <3>2, <3>3, <3>4, NoKernelNoChange DEF Tracks
  <2> QED
    BY <1>1, <2>3, <2>4 DEF RegisterAddPeer
<1>2. CASE RegisterUndo(p)
  <2>1. /\ j.pc = "undoNode" /\ j.n \in DOMAIN node /\ faults > 0
        /\ \A f \in Want : f \in Have \/ AboutPeer(node[j.n].key, f)
    BY <1>0, <1>2 DEF RegisterUndo, At, Tracks, Accurate, Late, UndoPcs
  <2>2. NoKernel /\ Have' = Have /\ Follows /\ job'[p].pc = "idle"
    BY <1>0, <1>2, NoKernelNoChange, Moves DEF RegisterUndo
  <2>3. faults' # 0 /\ ~ Fault("db")
    BY <1>0, <2>1, RelayAssumption DEF Ongoing, Fault, SingleFault
  <2>4. DeleteNode(j.n)
    BY <1>2, <2>1, <2>3 DEF RegisterUndo
  <2>5. \A f \in Want' : f \in Have'
    BY <1>0, <2>1, <2>2, <2>4, NodeRemoved
  <2> QED
    BY <2>2, <2>3, <2>5, Unburdened DEF Tracks
<1> QED
  BY <1>1, <1>2

\* A call of the list.
Lists(s, x) == \E i \in DOMAIN s : s[i] = x

\* A list made of two.
LEMMA ListsBoth ==
    ASSUME NEW C, NEW s \in Seq(C), NEW t \in Seq(C), NEW x
    PROVE  Lists(s \o t, x) <=> Lists(s, x) \/ Lists(t, x)
<1>1. ASSUME NEW i \in DOMAIN s, s[i] = x PROVE Lists(s \o t, x)
  <2>1. i \in DOMAIN (s \o t) /\ (s \o t)[i] = x
    BY <1>1
  <2> QED
    BY <2>1 DEF Lists
<1>2. ASSUME NEW i \in DOMAIN t, t[i] = x PROVE Lists(s \o t, x)
  <2>1. Len(s) + i \in DOMAIN (s \o t) /\ (s \o t)[Len(s) + i] = x
    BY <1>2
  <2> QED
    BY <2>1 DEF Lists
<1>3. ASSUME NEW i \in DOMAIN (s \o t), (s \o t)[i] = x PROVE Lists(s, x) \/ Lists(t, x)
  <2>1. CASE i \in DOMAIN s
    BY <1>3, <2>1 DEF Lists
  <2>2. CASE i \notin DOMAIN s
    <3>1. (i - Len(s)) \in DOMAIN t /\ t[i - Len(s)] = x
      BY <1>3, <2>2
    <3> QED
      BY <3>1 DEF Lists
  <2> QED
    BY <2>1, <2>2
<1> QED
  BY <1>1, <1>2, <1>3 DEF Lists

\* SetToSeq lists the calls of a set.
LEMMA SetListed ==
    ASSUME NEW S, IsFiniteSet(S), NEW x \in S PROVE Lists(SetToSeq(S), x)
  BY Listed DEF Lists

\* Turning to the best-effort calls.
LEMMA TailBegins ==
    ASSUME JobInv, NEW p \in Procs, NEW todo, BestEffort(p, todo)
    PROVE  \/ todo = <<>> /\ job'[p].pc = "idle"
           \/ todo # <<>> /\ job'[p].pc = "todo" /\ job'[p].todo = todo
<1>1. CASE todo = <<>>
  BY <1>1, Moves DEF BestEffort, Done
<1>2. CASE todo # <<>>
  <2> DEFINE x == [pc |-> "todo", todo |-> todo]
  <2>1. x.pc = "todo" /\ x.todo = todo /\ Go(p, x)
    BY <1>2 DEF BestEffort
  <2> HIDE DEF x
  <2> QED
    BY <1>2, <2>1, Moves
<1> QED
  BY <1>1, <1>2

\* What is left to do is safe.
LEMMA TailAccurate ==
    ASSUME JobInv, NEW p \in Procs, NEW todo, BestEffort(p, todo), SafeList(todo)'
    PROVE  Accurate(job[p])'
<1>1. CASE job'[p].pc = "idle"
  BY <1>1, Unburdened
<1>2. CASE job'[p].pc = "todo" /\ job'[p].todo = todo
  <2>1. SafeList(job[p].todo)'
    BY <1>2 DEF SafeList
  <2> QED
    BY <1>2, <2>1 DEF Accurate, UndoPcs
<1> QED
  BY <1>1, <1>2, TailBegins

\* What it clears away is left over until then.
LEMMA TailLeft ==
    ASSUME JobInv, NEW p \in Procs, NEW todo, BestEffort(p, todo), NEW c, Lists(todo, c), NEW f, Clears(c, f)'
    PROVE  Left(job[p], f)'
<1>1. PICK i \in DOMAIN todo : todo[i] = c
  BY DEF Lists
<1>2. todo # <<>>
  BY <1>1
<1>3. job'[p].pc = "todo" /\ job'[p].todo = todo
  BY <1>2, TailBegins
<1>4. Clears(todo[i], f)'
  BY <1>1 DEF Clears
<1>5. \E h \in DOMAIN job'[p].todo : Clears(job[p].todo[h], f)'
  BY <1>1, <1>3, <1>4 DEF Clears
<1> QED
  BY <1>3, <1>5 DEF Left

\* The calls that remove something.
RemovalCalls == {c \in Calls(lastId) : c.c \in Removals}

\* A list of removals of what the database does not record.
LEMMA RemovalsSafe ==
    ASSUME NEW C, NEW todo \in Seq(C),
           \A c \in C : c.c \in Removals /\ \A f \in Want' : ~ Clears(c, f)'
    PROVE  SafeList(todo)'
<1>1. ASSUME NEW i \in DOMAIN todo PROVE todo[i].c \in Removals /\ \A f \in Want' : ~ Clears(todo[i], f)'
  <2>1. todo[i] \in C
    OBVIOUS
  <2>2. PICK c \in C : todo[i] = c
    BY <2>1
  <2> QED
    BY <2>2 DEF Clears
<1>2. ASSUME NEW i \in DOMAIN todo PROVE Safe(todo[i])'
  BY <1>1 DEF Safe, Removals
<1>3. \A i \in DOMAIN todo : todo[i].c # "detach"
  BY <1>1 DEF Removals
<1> QED
  BY <1>2, <1>3 DEF SafeList

\* The calls after a node's deletion: its peer, its memberships, its routes.
LEMMA NodeCleanupLists ==
    ASSUME NEW j, IsFiniteSet(j.zs), IsFiniteSet(j.rs)
    PROVE  /\ Lists(NodeCleanup(j), [c |-> "rmPeer", k |-> j.k])
           /\ \A z \in j.zs : Lists(NodeCleanup(j), [c |-> "rmMember", z |-> z, ip |-> j.ip])
           /\ \A r \in j.rs : Lists(NodeCleanup(j), [c |-> "rmRoute", z |-> r[1], b |-> r[2]])
<1> DEFINE f  == [z \in j.zs |-> [c |-> "rmMember", z |-> z, ip |-> j.ip]]
           g  == [r \in j.rs |-> [c |-> "rmRoute", z |-> r[1], b |-> r[2]]]
           S1 == {[c |-> "rmMember", z |-> z, ip |-> j.ip] : z \in j.zs}
           S2 == {[c |-> "rmRoute", z |-> r[1], b |-> r[2]] : r \in j.rs}
           d  == [c |-> "rmPeer", k |-> j.k]
           C  == S1 \cup S2 \cup {d}
<1>1. DOMAIN f = j.zs /\ DOMAIN g = j.rs /\ {f[z] : z \in j.zs} = S1 /\ {g[r] : r \in j.rs} = S2
  OBVIOUS
<1>2. /\ \A z \in j.zs : [c |-> "rmMember", z |-> z, ip |-> j.ip] \in S1
      /\ \A r \in j.rs : [c |-> "rmRoute", z |-> r[1], b |-> r[2]] \in S2
  OBVIOUS
<1>3. NodeCleanup(j) = <<d>> \o SetToSeq(S1) \o SetToSeq(S2)
  BY DEF NodeCleanup
<1> HIDE DEF f, g, S1, S2, d
<1>4. IsFiniteSet(S1) /\ IsFiniteSet(S2)
  BY <1>1, FiniteValues
<1>5. SetToSeq(S1) \in Seq(C) /\ SetToSeq(S2) \in Seq(C) /\ <<d>> \in Seq(C)
  BY <1>4, ListedCalls
<1>6. Lists(<<d>>, d)
  <2>1. 1 \in DOMAIN <<d>> /\ <<d>>[1] = d
    OBVIOUS
  <2> QED
    BY <2>1 DEF Lists
<1> HIDE DEF C
<1>7. \A x : Lists(NodeCleanup(j), x) <=> Lists(<<d>>, x) \/ Lists(SetToSeq(S1), x) \/ Lists(SetToSeq(S2), x)
  <2> DEFINE s == <<d>> \o SetToSeq(S1)
  <2>1. s \in Seq(C)
    BY <1>5
  <2>2. \A x : Lists(s, x) <=> Lists(<<d>>, x) \/ Lists(SetToSeq(S1), x)
    BY <1>5, ListsBoth
  <2> HIDE DEF s
  <2>3. \A x : Lists(s \o SetToSeq(S2), x) <=> Lists(s, x) \/ Lists(SetToSeq(S2), x)
    BY <1>5, <2>1, ListsBoth
  <2> QED
    BY <1>3, <2>2, <2>3 DEF s
<1>8. (\A x \in S1 : Lists(SetToSeq(S1), x)) /\ (\A x \in S2 : Lists(SetToSeq(S2), x))
  BY <1>4, SetListed
<1>9. Lists(NodeCleanup(j), d)
  BY <1>6, <1>7
<1> QED
  BY <1>2, <1>7, <1>8, <1>9 DEF d

\* deleteNode.
LEMMA DeleteNodeSync ==
    ASSUME NEW p \in Procs, Ongoing(p),
           DeleteNodeStart(p) \/ DeleteNodeSnapshot(p) \/ DeleteNodeLookup(p) \/ DeleteNodeRow(p)
    PROVE  Tracks(job[p])' /\ Follows
<1> DEFINE j == job[p]
<1>0. JobInv /\ Keyed /\ IInv /\ IInv' /\ Tracks(j) /\ TypeInv
  BY DEF Ongoing, Keyed
<1>1. CASE DeleteNodeStart(p)
  <2>1. PICK n \in DOMAIN node :
           Go(p, [pc |-> "snapshot", n |-> n, k |-> node[n].key, ip |-> node[n].ip,
                  zs |-> {z \in DOMAIN zone : <<z, n>> \in member}])
    BY <1>1 DEF DeleteNodeStart
  <2>2. /\ job'[p].pc = "snapshot" /\ job'[p].n = n /\ job'[p].k = node[n].key
        /\ job'[p].ip = node[n].ip /\ job'[p].zs = MembersOf(n)
    BY <1>0, <2>1, Moves DEF MembersOf
  <2>3. NoDb /\ UNCHANGED <<node, zone, member>>
    BY <1>1, NoDbNoChange DEF DeleteNodeStart
  <2>4. Accurate(job[p])'
    BY <2>2, <2>3 DEF Accurate, NodeIs, MembersOf, UndoPcs
  <2> QED
    BY <1>1, <2>3, <2>4, IdlePlain, PlainStep DEF DeleteNodeStart
<1>2. CASE DeleteNodeSnapshot(p)
  <2>1. j.pc = "snapshot" /\ NodeIs(j.n, j.k, j.ip) /\ j.zs = MembersOf(j.n)
    BY <1>0, <1>2 DEF DeleteNodeSnapshot, At, Tracks, Accurate
  <2>2. NoDb /\ NoKernel /\ UNCHANGED <<node, zone, member, ann, att>> /\ j.pc \in PlainPcs
    BY <1>2, <2>1, NoDbNoChange DEF DeleteNodeSnapshot, PlainPcs
  <2> DEFINE rs == {<<t[2], ann[t[1]].synth>> : t \in {x \in att : ann[x[1]].node = j.n}}
             x  == [pc |-> "lookup", n |-> j.n, k |-> j.k, ip |-> j.ip, zs |-> j.zs, rs |-> rs]
  <2>3. CASE Go(p, x)
    <3>0. rs = RouteRows(j.n)
      BY DEF RouteRows
    <3> HIDE DEF rs
    <3>1. /\ x.pc = "lookup" /\ x.n = j.n /\ x.k = j.k /\ x.ip = j.ip /\ x.zs = j.zs
          /\ x.rs = RouteRows(j.n)
      BY <3>0
    <3> HIDE DEF x
    <3>2. job'[p] = x
      BY <1>0, <2>3, Moves
    <3> HIDE DEF j
    <3>3. Accurate(job[p])'
      BY <2>1, <2>2, <3>1, <3>2 DEF Accurate, NodeIs, MembersOf, RouteRows, UndoPcs
    <3> QED
      BY <2>2, <3>3, PlainStep DEF j
  <2> QED
    BY <1>2, <2>2, <2>3, PlainDone DEF DeleteNodeSnapshot
<1>3. CASE DeleteNodeLookup(p)
  <2>1. /\ j.pc = "lookup" /\ NodeIs(j.n, j.k, j.ip) /\ j.zs = MembersOf(j.n)
        /\ j.rs = RouteRows(j.n)
    BY <1>0, <1>3 DEF DeleteNodeLookup, At, Tracks, Accurate
  <2>2. NoDb /\ NoKernel /\ UNCHANGED <<node, zone, member, ann, att>> /\ j.pc \in PlainPcs
    BY <1>3, <2>1, NoDbNoChange DEF DeleteNodeLookup, PlainPcs
  <2> DEFINE x == [j EXCEPT !.pc = "deleteNode"]
  <2>3. CASE Go(p, x)
    <3>1. x.pc = "deleteNode" /\ x.n = j.n /\ x.k = j.k /\ x.ip = j.ip /\ x.zs = j.zs /\ x.rs = j.rs
      <4>1. j \in [pc : {"lookup", "deleteNode"}, n : NodeIds(lastId), k : Keys, ip : Pool,
                   zs : SUBSET ZoneIds(lastId), rs : SUBSET (ZoneIds(lastId) \X Block)]
        BY <1>0, <2>1 DEF TypeInv, RequestsOK, Request
      <4> HIDE DEF j
      <4> QED
        BY <4>1
    <3> HIDE DEF x
    <3>2. job'[p] = x
      BY <1>0, <2>3, Moves
    <3> HIDE DEF j
    <3>3. Accurate(job[p])'
      BY <2>1, <2>2, <3>1, <3>2 DEF Accurate, NodeIs, MembersOf, RouteRows, UndoPcs
    <3> QED
      BY <2>2, <3>3, PlainStep DEF j
  <2> QED
    BY <1>3, <2>2, <2>3, PlainDone DEF DeleteNodeLookup
<1>4. CASE DeleteNodeRow(p)
  <2>1. /\ j.pc = "deleteNode" /\ NodeIs(j.n, j.k, j.ip) /\ j.zs = MembersOf(j.n)
        /\ j.rs = RouteRows(j.n)
    BY <1>0, <1>4 DEF DeleteNodeRow, At, Tracks, Accurate
  <2>2. NoKernel /\ j.pc \in PlainPcs
    BY <1>4, <2>1 DEF DeleteNodeRow, PlainPcs
  <2>3. CASE DeleteNode(j.n) /\ BestEffort(p, NodeCleanup(j))
    <3>1. PICK s : s = NodeCleanup(j)
      OBVIOUS
    <3>2. BestEffort(p, s)
      BY <2>3, <3>1
    <3>3. \A f : f \in Want' <=>
                 /\ f \in Want /\ ~ AboutPeer(j.k, f)
                 /\ \A m \in member : m[2] = j.n => f # <<"member", m[1], j.ip>>
                 /\ \A t \in att : ann[t[1]].node = j.n => f # <<"route", t[2], ann[t[1]].synth>>
      BY <1>0, <2>1, <2>3, NodeRemoved DEF NodeIs
    <3>4. j \in [pc : {"lookup", "deleteNode"}, n : NodeIds(lastId), k : Keys, ip : Pool,
                 zs : SUBSET ZoneIds(lastId), rs : SUBSET (ZoneIds(lastId) \X Block)] /\ IsFiniteSet(j.rs)
      BY <1>0, <2>1 DEF TypeInv, RequestsOK, Request
    <3> HIDE DEF j
    <3>5. IsFiniteSet(j.zs)
      BY <1>0, <3>4, IdsFinite
    <3> DEFINE C == {c \in RemovalCalls : \A f \in Want' : ~ Clears(c, f)'}
    <3>6. [c |-> "rmPeer", k |-> j.k] \in C
      BY <3>3, <3>4 DEF RemovalCalls, Removals, Calls, Clears
    <3>7. ASSUME NEW z \in j.zs PROVE [c |-> "rmMember", z |-> z, ip |-> j.ip] \in C
      <4>1. z \in ZoneIds(lastId) /\ j.ip \in Pool
        BY <3>4
      <4> DEFINE m == <<z, j.n>>
      <4>2. m \in member /\ m[1] = z /\ m[2] = j.n
        BY <2>1 DEF MembersOf
      <4>3. <<"member", z, j.ip>> \notin Want'
        BY <3>3, <4>2
      <4> QED
        BY <4>1, <4>3 DEF RemovalCalls, Removals, Calls, Clears
    <3>8. ASSUME NEW r \in j.rs PROVE [c |-> "rmRoute", z |-> r[1], b |-> r[2]] \in C
      <4>1. r[1] \in ZoneIds(lastId) /\ r[2] \in Block
        BY <3>4
      <4>2. PICK t \in att : ann[t[1]].node = j.n /\ r = <<t[2], ann[t[1]].synth>>
        BY <2>1 DEF RouteRows
      <4>3. <<"route", r[1], r[2]>> \notin Want'
        BY <3>3, <4>2
      <4> QED
        BY <4>1, <4>3 DEF RemovalCalls, Removals, Calls, Clears
    <3>9. \A c \in C : c.c \in Removals /\ \A f \in Want' : ~ Clears(c, f)'
      BY DEF RemovalCalls
    <3> HIDE DEF C
    <3>10. s \in Seq(C)
      BY <3>1, <3>4, <3>5, <3>6, <3>7, <3>8, NodeCleanupCalls
    <3>11. Accurate(job[p])'
      BY <1>0, <3>2, <3>9, <3>10, RemovalsSafe, TailAccurate
    <3>12. /\ Lists(s, [c |-> "rmPeer", k |-> j.k])
           /\ \A z \in j.zs : Lists(s, [c |-> "rmMember", z |-> z, ip |-> j.ip])
           /\ \A r \in j.rs : Lists(s, [c |-> "rmRoute", z |-> r[1], b |-> r[2]])
      BY <3>1, <3>4, <3>5, NodeCleanupLists
    <3>13. ASSUME NEW f \in Want, f \notin Want' PROVE Left(job[p], f)'
      <4>1. CASE AboutPeer(j.k, f)
        <5>1. PICK c : c = [c |-> "rmPeer", k |-> j.k]
          OBVIOUS
        <5>2. Clears(c, f)' /\ Lists(s, c)
          BY <3>12, <4>1, <5>1 DEF Clears
        <5> QED
          BY <1>0, <3>2, <5>2, TailLeft
      <4>2. ASSUME NEW m \in member, m[2] = j.n, f = <<"member", m[1], j.ip>> PROVE Left(job[p], f)'
        <5>1. m[1] \in j.zs
          <6>1. m[1] \in DOMAIN zone /\ m = <<m[1], m[2]>>
            BY <1>0 DEF IInv, StoreTypeOK, ReferentialIntegrity
          <6> QED
            BY <2>1, <4>2, <6>1 DEF MembersOf
        <5>2. PICK c : c = [c |-> "rmMember", z |-> m[1], ip |-> j.ip]
          OBVIOUS
        <5>3. Clears(c, f)' /\ Lists(s, c)
          BY <3>12, <4>2, <5>1, <5>2 DEF Clears
        <5> QED
          BY <1>0, <3>2, <5>3, TailLeft
      <4>3. ASSUME NEW t \in att, ann[t[1]].node = j.n, f = <<"route", t[2], ann[t[1]].synth>>
            PROVE  Left(job[p], f)'
        <5> DEFINE r == <<t[2], ann[t[1]].synth>>
        <5>1. r \in j.rs
          BY <2>1, <4>3 DEF RouteRows
        <5>2. r[1] = t[2] /\ r[2] = ann[t[1]].synth
          OBVIOUS
        <5> HIDE DEF r
        <5>3. PICK c : c = [c |-> "rmRoute", z |-> r[1], b |-> r[2]]
          OBVIOUS
        <5>4. Clears(c, f)' /\ Lists(s, c)
          BY <3>12, <4>3, <5>1, <5>2, <5>3 DEF Clears
        <5> QED
          BY <1>0, <3>2, <5>4, TailLeft
      <4> QED
        BY <3>3, <3>13, <4>1, <4>2, <4>3
    <3> QED
      BY <2>2, <3>3, <3>11, <3>13, PlainCommit DEF j
  <2> QED
    BY <1>4, <2>1, <2>2, <2>3, PlainDone DEF DeleteNodeRow, NodeIs
<1> QED
  BY <1>1, <1>2, <1>3, <1>4

\* A fact about a zone names a zone that exists.
LEMMA WantedZones ==
    ASSUME IInv, NEW z, NEW f \in Want, AboutZone(z, f) PROVE z \in DOMAIN zone
<1>1. \/ \E x \in DOMAIN node : f = NodePeer(node, x) \/ f = NodeHost(node, x)
      \/ \E y \in DOMAIN zone : f = ZoneSets(y)
      \/ \E m \in member : f = MemberAddr(node, m)
      \/ \E a \in DOMAIN ann : f = AnnAllow(node, ann, a)
      \/ \E t \in att : f = AttRoute(ann, t)
  BY WantNow, InRows
<1>2. /\ \A m \in member : m[1] \in DOMAIN zone
      /\ \A t \in att : t[2] \in DOMAIN zone
  BY DEF IInv, ReferentialIntegrity
<1>3. ASSUME NEW y \in DOMAIN zone, f = ZoneSets(y) PROVE z \in DOMAIN zone
  BY <1>3 DEF AboutZone, ZoneSets
<1>4. ASSUME NEW m \in member, f = MemberAddr(node, m) PROVE z \in DOMAIN zone
  BY <1>2, <1>4 DEF AboutZone, MemberAddr
<1>5. ASSUME NEW t \in att, f = AttRoute(ann, t) PROVE z \in DOMAIN zone
  BY <1>2, <1>5 DEF AboutZone, AttRoute
<1>6. f[1] # "peer" /\ f[1] # "allows"
  BY DEF AboutZone
<1> QED
  BY <1>1, <1>3, <1>4, <1>5, <1>6, Tags

\* A zone whose sets are missing has nothing else in the kernel.
LEMMA SetsPresent ==
    ASSUME NEW z, <<"zone", z>> \in Have PROVE z \in DOMAIN nft
  BY HaveKinds

\* createZone, up to the transaction that creates the zone.
LEMMA CreateZoneSync ==
    ASSUME NEW p \in Procs, Ongoing(p), CreateZoneStart(p) \/ CreateZoneInsert(p)
    PROVE  Tracks(job[p])' /\ Follows
<1> DEFINE j == job[p]
<1>0. JobInv /\ Keyed /\ IInv /\ IInv' /\ Tracks(j) /\ TypeInv
  BY DEF Ongoing, Keyed
<1>1. CASE CreateZoneStart(p)
  <2>1. PICK u \in DOMAIN user, nm \in ZoneNames, h \in Hashes :
           \E n \in {0} \cup NodesOf(u) :
              Go(p, [pc |-> "insertZone", u |-> u, nm |-> nm, h |-> h, n |-> n,
                     ip |-> IF n = 0 THEN NoAddr ELSE node[n].ip])
    BY <1>1 DEF CreateZoneStart
  <2>7. PICK n \in {0} \cup NodesOf(u) :
           Go(p, [pc |-> "insertZone", u |-> u, nm |-> nm, h |-> h, n |-> n,
                  ip |-> IF n = 0 THEN NoAddr ELSE node[n].ip])
    BY <2>1
  <2>2. PICK ip : ip = IF n = 0 THEN NoAddr ELSE node[n].ip
    OBVIOUS
  <2>3. job'[p].pc = "insertZone" /\ job'[p].n = n /\ job'[p].ip = ip
    BY <1>0, <2>7, <2>2, Moves
  <2>4. n = 0 \/ (n \in DOMAIN node /\ node[n].ip = ip)
    BY <2>2 DEF NodesOf
  <2>5. NoDb /\ UNCHANGED node
    BY <1>1, NoDbNoChange DEF CreateZoneStart
  <2>6. Accurate(job[p])'
    BY <2>3, <2>4, <2>5 DEF Accurate, NodeAt, UndoPcs
  <2> QED
    BY <1>1, <2>5, <2>6, IdlePlain, PlainStep DEF CreateZoneStart
<1>2. CASE CreateZoneInsert(p)
  <2>1. j.pc = "insertZone" /\ (j.n = 0 \/ NodeAt(j.n, j.ip))
    BY <1>0, <1>2 DEF CreateZoneInsert, At, Tracks, Accurate
  <2>2. NoKernel /\ j.pc \in PlainPcs
    BY <1>2, <2>1 DEF CreateZoneInsert, PlainPcs
  <2> DEFINE z == lastId.zone + 1
             x == [pc |-> "addZone", z |-> z, n |-> j.n, ip |-> j.ip]
  <2>3. CASE InsertZone(j.u, j.nm, j.h) /\ Go(p, x)
    <3>1. x.pc = "addZone" /\ x.z = z /\ x.n = j.n /\ x.ip = j.ip
      OBVIOUS
    <3> HIDE DEF x
    <3>2. job'[p] = x
      BY <1>0, <2>3, Moves
    <3>3. Want' = Want \cup {<<"zone", z>>} /\ z \in DOMAIN zone' /\ z \notin DOMAIN zone
      BY <1>0, <2>3, ZoneInserted
    <3>4. \A f \in Want' : AboutZone(z, f) => f = <<"zone", z>>
      BY <1>0, <3>3, WantedZones
    <3>5. UNCHANGED node
      BY <2>3 DEF InsertZone
    <3> HIDE DEF j, z
    <3>6. Accurate(job[p])'
      <4>1. job'[p].n = 0 \/ NodeAt(job[p].n, job[p].ip)'
        BY <2>1, <3>1, <3>2, <3>5 DEF NodeAt
      <4>2. \A f \in Want' : AboutZone(job'[p].z, f) => f = <<"zone", job'[p].z>>
        BY <3>1, <3>2, <3>4
      <4> QED
        BY <3>1, <3>2, <3>3, <4>1, <4>2 DEF Accurate, UndoPcs
    <3>7. \A f \in Want' : f \in Want \/ Late(job[p], f)'
      BY <3>1, <3>2, <3>3 DEF Late
    <3> QED
      BY <2>2, <3>3, <3>6, <3>7, PlainCommit DEF j
  <2> QED
    BY <1>2, <2>2, <2>3, PlainDone DEF CreateZoneInsert
<1> QED
  BY <1>1, <1>2

\* A failed step of createZone leads to the rollback: the zone's facts may be late.
LEMMA RollbackSync ==
    ASSUME NEW p \in Procs, Ongoing(p), NoDb, NoKernel, faults' > 0, NEW z,
           job'[p].pc = "undoZone", job'[p].z = z,
           \A f \in Want : f \in Have \/ AboutZone(z, f)
    PROVE  Tracks(job[p])' /\ Follows
<1>1. Want' = Want /\ Have' = Have /\ Follows
  BY NoDbNoChange, NoKernelNoChange
<1>2. Accurate(job[p])'
  BY DEF Accurate, UndoPcs
<1>3. \A f \in Want' : f \in Have' \/ Late(job[p], f)'
  BY <1>1 DEF Late
<1> QED
  BY <1>1, <1>2, <1>3 DEF Tracks

\* createZone's kernel calls, the auto-join and the rollback.
LEMMA CreateZoneKernelSync ==
    ASSUME NEW p \in Procs, Ongoing(p),
           CreateZoneAddZone(p) \/ CreateZoneJoin(p) \/ CreateZoneMember(p) \/ CreateZoneUndo(p)
    PROVE  Tracks(job[p])' /\ Follows
<1> DEFINE j == job[p]
<1>0. JobInv /\ Keyed /\ IInv /\ IInv' /\ Tracks(j) /\ TypeInv /\ faults \in Nat /\ Shaped
  BY DEF Ongoing, Keyed, TypeInv, CountersOK
<1>1. CASE CreateZoneAddZone(p)
  <2>1. /\ j.pc = "addZone" /\ (j.n = 0 \/ NodeAt(j.n, j.ip)) /\ j.z \in DOMAIN zone
        /\ \A f \in Want : AboutZone(j.z, f) => f = <<"zone", j.z>>
        /\ \A f \in Want : f \in Have \/ f = <<"zone", j.z>>
        /\ faults = 0 => \A f \in Have : f \in Want
    BY <1>0, <1>1 DEF CreateZoneAddZone, At, Tracks, Accurate, Late, Left
  <2>2. NoDb /\ Want' = Want /\ UNCHANGED <<node, zone>>
    BY <1>1, NoDbNoChange DEF CreateZoneAddZone
  <2>3. CASE AddZone(j.z) /\ (IF j.n = 0 THEN Done(p) ELSE Go(p, [j EXCEPT !.pc = "autoJoin"]))
    <3>1. \A f : f \in Have' <=> f = <<"zone", j.z>> \/ (f \in Have /\ ~ AboutZone(j.z, f))
      BY <2>3, AddZoneEffect
    <3>2. <<"zone", j.z>> \in Want
      BY <1>0, <2>1, WantKinds
    <3>3. CASE j.n = 0
      <4>1. job'[p].pc = "idle"
        BY <1>0, <2>3, <3>3, Moves
      <4> HIDE DEF j
      <4> QED
        BY <2>1, <2>2, <3>1, <3>2, <4>1, Unburdened DEF Tracks, Follows, Ongoing
    <3>4. CASE j.n # 0
      <4> DEFINE x == [j EXCEPT !.pc = "autoJoin"]
      <4>1. x.pc = "autoJoin" /\ x.z = j.z /\ x.n = j.n /\ x.ip = j.ip
        <5>1. \/ j \in [pc : {"addZone"}, z : ZoneIds(lastId), n : NodeIds(lastId), ip : Pool]
              \/ j \in [pc : {"addZone"}, z : ZoneIds(lastId), n : {0}, ip : {NoAddr}]
          BY <1>0, <2>1 DEF TypeInv, RequestsOK, Request
        <5> HIDE DEF j
        <5> QED
          BY <5>1
      <4>2. Go(p, x)
        BY <2>3, <3>4
      <4> HIDE DEF x
      <4>3. job'[p] = x
        BY <1>0, <4>2, Moves
      <4> HIDE DEF j
      <4>4. Accurate(job[p])'
        BY <2>1, <2>2, <3>4, <4>1, <4>3 DEF Accurate, NodeAt, UndoPcs
      <4> QED
        BY <2>1, <2>2, <3>1, <3>2, <4>4 DEF Tracks, Follows, Ongoing
    <3> QED
      BY <3>3, <3>4
  <2>4. CASE Fault("kernel") /\ Go(p, [pc |-> "undoZone", z |-> j.z, todo |-> <<>>]) /\ NoKernel
    <3>1. job'[p].pc = "undoZone" /\ job'[p].z = j.z /\ faults' > 0
      BY <1>0, <2>4, Moves DEF Fault
    <3>2. \A f \in Want : f \in Have \/ AboutZone(j.z, f)
      BY <2>1 DEF AboutZone
    <3> QED
      BY <2>2, <2>4, <3>1, <3>2, RollbackSync
  <2> QED
    BY <1>1, <2>3, <2>4 DEF CreateZoneAddZone
<1>2. CASE CreateZoneJoin(p)
  <2>1. j.pc = "autoJoin" /\ NodeAt(j.n, j.ip) /\ j.z \in DOMAIN zone
    BY <1>0, <1>2 DEF CreateZoneJoin, At, Tracks, Accurate
  <2>2. NoKernel /\ j.pc \in PlainPcs
    BY <1>2, <2>1 DEF CreateZoneJoin, PlainPcs
  <2>3. CASE Join(j.z, j.n) /\ Go(p, [j EXCEPT !.pc = "autoMember"])
    <3> DEFINE x == [j EXCEPT !.pc = "autoMember"]
    <3>1. x.pc = "autoMember" /\ x.z = j.z /\ x.n = j.n /\ x.ip = j.ip
      <4>1. j \in [pc : {"autoJoin", "autoMember", "join", "addMember", "undoJoin"},
                   z : ZoneIds(lastId), n : NodeIds(lastId), ip : Pool]
        BY <1>0, <2>1 DEF TypeInv, RequestsOK, Request
      <4> HIDE DEF j
      <4> QED
        BY <4>1
    <3>2. Go(p, x)
      BY <2>3
    <3> HIDE DEF x
    <3>3. job'[p] = x
      BY <1>0, <3>2, Moves
    <3>4. /\ Want' = Want \cup {<<"member", j.z, node[j.n].ip>>} /\ <<j.z, j.n>> \in member'
          /\ UNCHANGED <<node, zone>>
      BY <1>0, <2>3, Joined
    <3> HIDE DEF j
    <3>5. Accurate(job[p])'
      BY <2>1, <3>1, <3>3, <3>4 DEF Accurate, NodeAt, UndoPcs
    <3>6. \A f \in Want' : f \in Want \/ Late(job[p], f)'
      BY <2>1, <3>1, <3>3, <3>4 DEF Late, NodeAt
    <3> QED
      BY <2>2, <3>4, <3>5, <3>6, PlainCommit DEF j
  <2>4. CASE Fault("db") /\ Go(p, Rollback(j.z)) /\ NoDb
    <3>1. job'[p].pc = "undoZone" /\ job'[p].z = j.z /\ faults' > 0
      BY <1>0, <2>4, Moves DEF Fault, Rollback
    <3> QED
      BY <1>0, <2>2, <2>4, <3>1, PlainMirror, RollbackSync
  <2> QED
    BY <1>2, <2>1, <2>3, <2>4 DEF CreateZoneJoin, NodeAt
<1>3. CASE CreateZoneMember(p)
  <2>1. /\ j.pc = "autoMember" /\ NodeAt(j.n, j.ip) /\ <<j.z, j.n>> \in member
        /\ \A f \in Want : f \in Have \/ f = <<"member", j.z, j.ip>>
        /\ faults = 0 => \A f \in Have : f \in Want
    BY <1>0, <1>3 DEF CreateZoneMember, At, Tracks, Accurate, Late, Left
  <2>2. NoDb /\ Want' = Want
    BY <1>3, NoDbNoChange DEF CreateZoneMember
  <2>3. j.z \in DOMAIN nft /\ <<"member", j.z, j.ip>> \in Want
    <3> DEFINE m == <<j.z, j.n>>
    <3>1. m \in member /\ m[1] = j.z /\ m[2] = j.n
      BY <2>1
    <3> HIDE DEF m
    <3>2. j.z \in DOMAIN zone
      BY <1>0, <3>1 DEF IInv, ReferentialIntegrity
    <3>3. <<"zone", j.z>> \in Want
      BY <1>0, <3>2, WantKinds
    <3>4. <<"zone", j.z>> \in Have
      BY <2>1, <3>3
    <3> QED
      BY <1>0, <2>1, <3>1, <3>4, SetsPresent, WantKinds DEF NodeAt
  <2>4. CASE AddMember(j.z, j.ip) /\ Done(p)
    <3>1. \A f : f \in Have' <=> f = <<"member", j.z, j.ip>> \/ f \in Have
      BY <1>0, <2>4, AddMemberEffect
    <3>2. job'[p].pc = "idle"
      BY <1>0, <2>4, Moves
    <3> HIDE DEF j
    <3> QED
      BY <2>1, <2>2, <2>3, <3>1, <3>2, Unburdened DEF Tracks, Follows, Ongoing
  <2>5. CASE Fault("kernel") /\ Go(p, Rollback(j.z)) /\ NoKernel
    <3>1. job'[p].pc = "undoZone" /\ job'[p].z = j.z /\ faults' > 0
      BY <1>0, <2>5, Moves DEF Fault, Rollback
    <3>2. \A f \in Want : f \in Have \/ AboutZone(j.z, f)
      BY <2>1 DEF AboutZone
    <3> QED
      BY <2>2, <2>5, <3>1, <3>2, RollbackSync
  <2> QED
    BY <1>3, <2>3, <2>4, <2>5 DEF CreateZoneMember
<1>4. CASE CreateZoneUndo(p)
  <2>1. /\ j.pc = "undoZone" /\ faults > 0
        /\ \A f \in Want : f \in Have \/ AboutZone(j.z, f)
    BY <1>0, <1>4 DEF CreateZoneUndo, At, Tracks, Accurate, Late, UndoPcs
  <2>2. NoKernel /\ Have' = Have /\ Follows /\ BestEffort(p, j.todo)
    BY <1>4, NoKernelNoChange DEF CreateZoneUndo
  <2>3. faults' # 0 /\ ~ Fault("db")
    BY <1>0, <2>1, RelayAssumption DEF Ongoing, Fault, SingleFault
  <2>4. \A f \in Want' : f \in Want /\ ~ AboutZone(j.z, f)
    <3>1. CASE j.z \in DOMAIN zone
      BY <1>0, <1>4, <2>3, <3>1, ZoneRemoved DEF CreateZoneUndo
    <3>2. CASE j.z \notin DOMAIN zone
      BY <1>0, <1>4, <2>3, <3>2, WantedZones, NoDbNoChange DEF CreateZoneUndo
    <3> QED
      BY <3>1, <3>2
  <2>5. PICK s : s = j.todo
    OBVIOUS
  <2>6. SafeList(s)'
    <3>1. PICK c : c = [c |-> "rmZone", z |-> j.z]
      OBVIOUS
    <3>2. c.c \in Removals /\ \A f \in Want' : ~ Clears(c, f)'
      BY <2>4, <3>1 DEF Clears, Removals
    <3>3. s \in Seq({c})
      <4>1. s = <<>> \/ s = <<c>>
        BY <1>0, <2>1, <2>5, <3>1 DEF TypeInv, RequestsOK, Request, Rollback
      <4>2. <<>> \in Seq({c}) /\ <<c>> \in Seq({c})
        OBVIOUS
      <4> QED
        BY <4>1, <4>2, Zenon
    <3> QED
      BY <3>2, <3>3, RemovalsSafe
  <2>7. Accurate(job[p])'
    BY <1>0, <2>2, <2>5, <2>6, TailAccurate
  <2> QED
    BY <2>1, <2>2, <2>3, <2>4, <2>7 DEF Tracks
<1> QED
  BY <1>1, <1>2, <1>3, <1>4

\* joinZone.
LEMMA JoinSync ==
    ASSUME NEW p \in Procs, Ongoing(p), JoinStart(p) \/ JoinRow(p) \/ JoinMember(p) \/ JoinUndo(p)
    PROVE  Tracks(job[p])' /\ Follows
<1> DEFINE j == job[p]
<1>0. JobInv /\ Keyed /\ IInv /\ IInv' /\ Tracks(j) /\ TypeInv /\ faults \in Nat /\ Shaped
  BY DEF Ongoing, Keyed, TypeInv, CountersOK
<1>a. ASSUME j.pc \in {"join", "addMember"}, NEW y PROVE LET x == [j EXCEPT !.pc = y] IN
         x.pc = y /\ x.z = j.z /\ x.n = j.n /\ x.ip = j.ip
  <2>1. j \in [pc : {"autoJoin", "autoMember", "join", "addMember", "undoJoin"},
               z : ZoneIds(lastId), n : NodeIds(lastId), ip : Pool]
    BY <1>0, <1>a DEF TypeInv, RequestsOK, Request
  <2> HIDE DEF j
  <2> QED
    BY <2>1
<1>1. CASE JoinStart(p)
  <2>1. PICK z \in DOMAIN zone, n \in DOMAIN node :
           Go(p, [pc |-> "join", z |-> z, n |-> n, ip |-> node[n].ip])
    BY <1>1 DEF JoinStart
  <2>2. job'[p].pc = "join" /\ job'[p].z = z /\ job'[p].n = n /\ job'[p].ip = node[n].ip
    BY <1>0, <2>1, Moves
  <2>3. NoDb /\ UNCHANGED <<node, zone>>
    BY <1>1, NoDbNoChange DEF JoinStart
  <2>4. Accurate(job[p])'
    BY <2>2, <2>3 DEF Accurate, NodeAt, UndoPcs
  <2> QED
    BY <1>1, <2>3, <2>4, IdlePlain, PlainStep DEF JoinStart
<1>2. CASE JoinRow(p)
  <2>1. j.pc = "join" /\ NodeAt(j.n, j.ip) /\ j.z \in DOMAIN zone
    BY <1>0, <1>2 DEF JoinRow, At, Tracks, Accurate
  <2>2. NoKernel /\ j.pc \in PlainPcs
    BY <1>2, <2>1 DEF JoinRow, PlainPcs
  <2> DEFINE x == [j EXCEPT !.pc = "addMember"]
  <2>3. CASE Join(j.z, j.n) /\ Go(p, x)
    <3>1. x.pc = "addMember" /\ x.z = j.z /\ x.n = j.n /\ x.ip = j.ip
      BY <1>a, <2>1
    <3> HIDE DEF x
    <3>2. job'[p] = x
      BY <1>0, <2>3, Moves
    <3>3. /\ Want' = Want \cup {<<"member", j.z, node[j.n].ip>>} /\ <<j.z, j.n>> \in member'
          /\ UNCHANGED <<node, zone>>
      BY <1>0, <2>3, Joined
    <3> HIDE DEF j
    <3>4. Accurate(job[p])'
      BY <2>1, <3>1, <3>2, <3>3 DEF Accurate, NodeAt, UndoPcs
    <3>5. \A f \in Want' : f \in Want \/ Late(job[p], f)'
      BY <2>1, <3>1, <3>2, <3>3 DEF Late, NodeAt
    <3> QED
      BY <2>2, <3>3, <3>4, <3>5, PlainCommit DEF j
  <2> QED
    BY <1>2, <2>2, <2>3, PlainDone DEF JoinRow
<1>3. CASE JoinMember(p)
  <2>1. /\ j.pc = "addMember" /\ NodeAt(j.n, j.ip) /\ <<j.z, j.n>> \in member
        /\ \A f \in Want : f \in Have \/ f = <<"member", j.z, j.ip>>
        /\ faults = 0 => \A f \in Have : f \in Want
    BY <1>0, <1>3 DEF JoinMember, At, Tracks, Accurate, Late, Left
  <2>2. NoDb /\ Want' = Want /\ UNCHANGED <<node, member>>
    BY <1>3, NoDbNoChange DEF JoinMember
  <2>3. j.z \in DOMAIN nft /\ <<"member", j.z, j.ip>> \in Want
    <3> DEFINE m == <<j.z, j.n>>
    <3>1. m \in member /\ m[1] = j.z /\ m[2] = j.n
      BY <2>1
    <3> HIDE DEF m
    <3>2. j.z \in DOMAIN zone
      BY <1>0, <3>1 DEF IInv, ReferentialIntegrity
    <3>3. <<"zone", j.z>> \in Want
      BY <1>0, <3>2, WantKinds
    <3>4. <<"zone", j.z>> \in Have
      BY <2>1, <3>3
    <3> QED
      BY <1>0, <2>1, <3>1, <3>4, SetsPresent, WantKinds DEF NodeAt
  <2>4. CASE AddMember(j.z, j.ip) /\ Done(p)
    <3>1. \A f : f \in Have' <=> f = <<"member", j.z, j.ip>> \/ f \in Have
      BY <1>0, <2>4, AddMemberEffect
    <3>2. job'[p].pc = "idle"
      BY <1>0, <2>4, Moves
    <3> HIDE DEF j
    <3> QED
      BY <2>1, <2>2, <2>3, <3>1, <3>2, Unburdened DEF Tracks, Follows, Ongoing
  <2> DEFINE x == [j EXCEPT !.pc = "undoJoin"]
  <2>5. CASE Fault("kernel") /\ Go(p, x) /\ NoKernel
    <3>1. x.pc = "undoJoin" /\ x.z = j.z /\ x.n = j.n /\ x.ip = j.ip
      BY <1>a, <2>1
    <3> HIDE DEF x
    <3>2. job'[p] = x /\ faults' > 0 /\ Have' = Have /\ Follows
      BY <1>0, <2>5, Moves, NoKernelNoChange DEF Fault
    <3> HIDE DEF j
    <3>3. Accurate(job[p])'
      BY <2>1, <2>2, <3>1, <3>2 DEF Accurate, NodeAt, UndoPcs
    <3>4. \A f \in Want' : f \in Have' \/ Late(job[p], f)'
      BY <2>1, <2>2, <3>1, <3>2 DEF Late
    <3> QED
      BY <3>2, <3>3, <3>4 DEF Tracks
  <2> QED
    BY <1>3, <2>3, <2>4, <2>5 DEF JoinMember
<1>4. CASE JoinUndo(p)
  <2>1. /\ j.pc = "undoJoin" /\ faults > 0 /\ NodeAt(j.n, j.ip) /\ <<j.z, j.n>> \in member
        /\ \A f \in Want : f \in Have \/ f = <<"member", j.z, j.ip>>
    BY <1>0, <1>4 DEF JoinUndo, At, Tracks, Accurate, Late, UndoPcs
  <2>2. NoKernel /\ Have' = Have /\ Follows /\ job'[p].pc = "idle"
    BY <1>0, <1>4, NoKernelNoChange, Moves DEF JoinUndo
  <2>3. faults' # 0 /\ ~ Fault("db")
    BY <1>0, <2>1, RelayAssumption DEF Ongoing, Fault, SingleFault
  <2>4. Leave(j.z, j.n)
    BY <1>4, <2>1, <2>3 DEF JoinUndo
  <2>5. \A f \in Want' : f \in Have'
    BY <1>0, <2>1, <2>2, <2>4, MemberRemoved DEF NodeAt
  <2> QED
    BY <2>2, <2>3, <2>5, Unburdened DEF Tracks
<1> QED
  BY <1>1, <1>2, <1>3, <1>4

\* leaveZone, kickMember.
LEMMA LeaveSync ==
    ASSUME NEW p \in Procs, Ongoing(p), LeaveStart(p) \/ KickStart(p) \/ LeaveRow(p)
    PROVE  Tracks(job[p])' /\ Follows
<1> DEFINE j == job[p]
<1>0. JobInv /\ Keyed /\ IInv /\ IInv' /\ Tracks(j) /\ TypeInv
  BY DEF Ongoing, Keyed
<1>1. CASE LeaveStart(p) \/ KickStart(p)
  <2>1. PICK z \in DOMAIN zone, n \in DOMAIN node : Exit(p, z, n)
    BY <1>1 DEF LeaveStart, KickStart, ZonesOf
  <2>2. job'[p].pc = "leave" /\ job'[p].n = n /\ job'[p].k = node[n].key /\ job'[p].ip = node[n].ip
    BY <1>0, <2>1, Moves DEF Exit
  <2>3. NoDb /\ UNCHANGED node /\ NoKernel /\ j.pc \in PlainPcs
    BY <1>1, NoDbNoChange, IdlePlain DEF LeaveStart, KickStart
  <2>4. Accurate(job[p])'
    BY <2>2, <2>3 DEF Accurate, NodeIs, UndoPcs
  <2> QED
    BY <2>3, <2>4, PlainStep
<1>2. CASE LeaveRow(p)
  <2>1. j.pc = "leave" /\ NodeIs(j.n, j.k, j.ip)
    BY <1>0, <1>2 DEF LeaveRow, At, Tracks, Accurate
  <2>2. NoKernel /\ j.pc \in PlainPcs
    BY <1>2, <2>1 DEF LeaveRow, PlainPcs
  <2> DEFINE c == [c |-> "rmMember", z |-> j.z, ip |-> j.ip]
             d == [c |-> "detach", z |-> j.z, n |-> j.n, k |-> j.k, ip |-> j.ip]
  <2>3. CASE Leave(j.z, j.n) /\ BestEffort(p, <<c, d>>)
    <3>1. /\ c.c = "rmMember" /\ c.z = j.z /\ c.ip = j.ip
          /\ d.c = "detach" /\ d.n = j.n /\ d.k = j.k /\ d.ip = j.ip
      OBVIOUS
    <3> HIDE DEF c, d
    <3>2. PICK x, y : x = c /\ y = d
      OBVIOUS
    <3>3. PICK s : s = <<x, y>>
      OBVIOUS
    <3>4. BestEffort(p, s)
      BY <2>3, <3>2, <3>3
    <3>5. \A f : f \in Want' <=> f \in Want /\ f # <<"member", j.z, j.ip>>
      BY <1>0, <2>1, <2>3, MemberRemoved DEF NodeIs
    <3>6. UNCHANGED node
      BY <2>3 DEF Leave
    <3> HIDE DEF j
    <3>7. Safe(x)' /\ x.c = "rmMember"
      BY <3>1, <3>2, <3>5 DEF Safe, Removals, Clears
    <3>8. Safe(y)' /\ y.c = "detach"
      BY <2>1, <3>1, <3>2, <3>6 DEF Safe, Removals, NodeIs
    <3>9. DOMAIN s = {1, 2} /\ Len(s) = 2 /\ s[1] = x /\ s[2] = y
      BY <3>3
    <3>10. SafeList(s)'
      <4>1. ASSUME NEW i \in DOMAIN s PROVE Safe(s[i])'
        BY <3>7, <3>8, <3>9, <4>1 DEF Safe, Clears
      <4>2. ASSUME NEW i \in DOMAIN s, s[i].c = "detach"
            PROVE  i = Len(s) /\ \A h \in 1 .. (i - 1) : s[h].c = "rmMember"
        BY <3>7, <3>9, <4>2
      <4> QED
        BY <4>1, <4>2 DEF SafeList
    <3>11. Accurate(job[p])'
      BY <1>0, <3>4, <3>10, TailAccurate
    <3>12. ASSUME NEW f \in Want, f \notin Want' PROVE Left(job[p], f)'
      <4>1. Clears(x, f)' /\ Lists(s, x)
        BY <3>1, <3>2, <3>5, <3>9, <3>12 DEF Clears, Lists
      <4> QED
        BY <1>0, <3>4, <4>1, TailLeft
    <3> QED
      BY <2>2, <3>5, <3>11, <3>12, PlainCommit DEF j
  <2> QED
    BY <1>2, <2>2, <2>3, PlainDone DEF LeaveRow
<1> QED
  BY <1>1, <1>2

\* changeZonePassword.
LEMMA PasswordSync ==
    ASSUME NEW p \in Procs, Ongoing(p), PasswordStart(p) \/ PasswordUpdate(p)
    PROVE  Tracks(job[p])' /\ Follows
<1>0. JobInv /\ IInv /\ IInv' /\ NoKernel
  BY DEF Ongoing, Keyed, PasswordStart, PasswordUpdate
<1>1. CASE PasswordStart(p)
  <2>1. job'[p].pc = "setPassword"
    BY <1>0, <1>1, Moves DEF PasswordStart
  <2> QED
    BY <1>1, <2>1, IdlePlain, Unburdened, PlainStep DEF PasswordStart
<1>2. CASE PasswordUpdate(p)
  <2>1. job[p].pc \in PlainPcs /\ job'[p].pc = "idle"
    BY <1>0, <1>2, Moves DEF PasswordUpdate, At, PlainPcs
  <2>2. Want' = Want
    <3>1. CASE UpdatePassword(job[p].z, job[p].h)
      <4>1. DOMAIN zone' = DOMAIN zone /\ UNCHANGED <<node, member, ann, att>>
        BY <3>1 DEF UpdatePassword
      <4> QED
        BY <1>0, <4>1, SameRows
    <3> QED
      BY <1>2, <3>1, NoDbNoChange DEF PasswordUpdate
  <2> QED
    BY <1>0, <2>1, <2>2, Unburdened, PlainCommit
<1> QED
  BY <1>1, <1>2

\* A list of safe calls, none of which detaches.
LEMMA SafeCalls ==
    ASSUME NEW C, NEW todo \in Seq(C), \A c \in C : Safe(c)' /\ c.c # "detach"
    PROVE  SafeList(todo)'
<1>1. ASSUME NEW i \in DOMAIN todo PROVE Safe(todo[i])' /\ todo[i].c # "detach"
  <2>1. todo[i] \in C
    OBVIOUS
  <2>2. PICK c \in C : todo[i] = c
    BY <2>1
  <2>3. Safe(c)' /\ c.c # "detach"
    OBVIOUS
  <2> QED
    BY <2>2, <2>3 DEF Safe, Clears
<1> QED
  BY <1>1 DEF SafeList

\* deleteZone.
LEMMA DeleteZoneSync ==
    ASSUME NEW p \in Procs, Ongoing(p), DeleteZoneStart(p) \/ DeleteZoneDetach(p) \/ DeleteZoneRow(p)
    PROVE  Tracks(job[p])' /\ Follows
<1> DEFINE j == job[p]
<1>0. JobInv /\ Keyed /\ IInv /\ IInv' /\ Tracks(j) /\ TypeInv /\ faults \in Nat
  BY DEF Ongoing, Keyed, TypeInv, CountersOK
<1>1. CASE DeleteZoneStart(p)
  <2>1. job'[p].pc = "detachZone"
    BY <1>0, <1>1, Moves DEF DeleteZoneStart
  <2> QED
    BY <1>1, <2>1, IdlePlain, Unburdened, PlainStep DEF DeleteZoneStart
<1>2. CASE DeleteZoneDetach(p)
  <2>1. j.pc \in PlainPcs /\ NoKernel
    BY <1>2 DEF DeleteZoneDetach, At, PlainPcs
  <2> DEFINE z  == j.z
             ns == {ann[a].node : a \in Reclaimed(OfZone(z))}
  <2>2. CASE DetachAllForZone(z) /\ Go(p, [pc |-> "deleteZone", z |-> z, ns |-> ns])
    <3>1. PICK y, ms : y = z /\ ms = ns
      OBVIOUS
    <3> DEFINE x == [pc |-> "deleteZone", z |-> y, ns |-> ms]
    <3>2. x.pc = "deleteZone" /\ x.z = y /\ x.ns = ms /\ Go(p, x)
      BY <2>2, <3>1
    <3> HIDE DEF x
    <3>3. job'[p].pc = "deleteZone" /\ job'[p].z = y /\ job'[p].ns = ms
      BY <1>0, <3>2, Moves
    <3>4. PICK gone : gone = OfZone(y)
      OBVIOUS
    <3>5. DetachSet(gone) /\ ms = {ann[a].node : a \in Reclaimed(gone)}
      BY <2>2, <3>1, <3>4 DEF DetachAllForZone
    <3> HIDE DEF j, z, ns
    <3>6. ms \subseteq DOMAIN node' /\ node' = node
      BY <1>0, <3>5 DEF DetachSet, Reclaimed, IInv, ReferentialIntegrity
    <3>7. \A t \in att' : t[2] # y
      BY <3>4, <3>5 DEF DetachSet, OfZone
    <3>8. Accurate(job[p])'
      BY <3>3, <3>6, <3>7 DEF Accurate, UndoPcs
    <3>9. \A f : f \in Want' <=>
              /\ f \in Want
              /\ \A t \in gone \cap att : f # <<"route", t[2], ann[t[1]].synth>>
              /\ \A a \in Reclaimed(gone) : f # <<"allows", node[ann[a].node].key, ann[a].synth>>
      BY <1>0, <3>5, AttachmentsRemoved
    <3>10. ASSUME NEW f \in Want, f \notin Want' PROVE Left(job[p], f)'
      <4>1. CASE \E t \in gone \cap att : f = <<"route", t[2], ann[t[1]].synth>>
        <5>1. AboutZone(y, f)
          BY <3>4, <4>1 DEF AboutZone, OfZone
        <5> QED
          BY <3>3, <5>1 DEF Left
      <4>2. ASSUME NEW a \in Reclaimed(gone), f = <<"allows", node[ann[a].node].key, ann[a].synth>>
            PROVE  Left(job[p], f)'
        <5>1. ann[a].node \in ms /\ AllowsTo(node'[ann[a].node].key, f)
          BY <3>5, <3>6, <4>2 DEF AllowsTo
        <5>2. \E n \in ms : AllowsTo(node'[n].key, f)
          BY <5>1
        <5> QED
          BY <3>3, <5>2 DEF Left
      <4> QED
        BY <3>9, <3>10, <4>1, <4>2
    <3> QED
      BY <2>1, <3>8, <3>9, <3>10, PlainCommit DEF j
  <2> QED
    BY <1>2, <2>1, <2>2, PlainDone DEF DeleteZoneDetach
<1>3. CASE DeleteZoneRow(p)
  <2>1. /\ j.pc = "deleteZone" /\ j.ns \subseteq DOMAIN node
        /\ \A f \in Want : f \in Have
        /\ faults = 0 =>
              \A f \in Have : f \in Want \/ AboutZone(j.z, f) \/ \E n \in j.ns : AllowsTo(node[n].key, f)
    BY <1>0, <1>3 DEF DeleteZoneRow, At, Tracks, Accurate, Late, Left
  <2>2. NoKernel /\ Have' = Have /\ Follows
    BY <1>3, NoKernelNoChange DEF DeleteZoneRow
  <2> DEFINE d  == [c |-> "rmZone", z |-> j.z]
             S  == {[c |-> "recomputeByID", n |-> n] : n \in j.ns}
  <2>3. CASE (IF j.z \in DOMAIN zone THEN DeleteZone(j.z) ELSE NoDb) /\ BestEffort(p, <<d>> \o SetToSeq(S))
    <3>1. \A f : f \in Want' <=> f \in Want /\ ~ AboutZone(j.z, f)
      <4>1. CASE j.z \in DOMAIN zone
        BY <1>0, <2>3, <4>1, ZoneRemoved
      <4>2. CASE j.z \notin DOMAIN zone
        BY <1>0, <2>3, <4>2, WantedZones, NoDbNoChange
      <4> QED
        BY <4>1, <4>2
    <3>2. node' = node
      BY <2>3 DEF DeleteZone, NoDb, dbvars
    <3>3. PICK s : s = <<d>> \o SetToSeq(S)
      OBVIOUS
    <3>4. BestEffort(p, s)
      BY <2>3, <3>3
    <3>5. d.c = "rmZone" /\ d.z = j.z
      OBVIOUS
    <3>6. \A c \in S : \E n \in j.ns : c.c = "recomputeByID" /\ c.n = n
      OBVIOUS
    <3>7. \A n \in j.ns : [c |-> "recomputeByID", n |-> n] \in S
      OBVIOUS
    <3>8. IsFiniteSet(S)
      <4> DEFINE g == [n \in j.ns |-> [c |-> "recomputeByID", n |-> n]]
      <4>1. DOMAIN g = j.ns /\ {g[n] : n \in j.ns} = S
        OBVIOUS
      <4>2. IsFiniteSet(j.ns)
        BY <1>0, <2>1, RowsFinite
      <4> HIDE DEF g, S
      <4> QED
        BY <4>1, <4>2, FiniteValues
    <3> HIDE DEF S, d
    <3>9. PICK C : C = S \cup {d}
      OBVIOUS
    <3>10. <<d>> \in Seq(C) /\ SetToSeq(S) \in Seq(C)
      BY <3>8, <3>9, ListedCalls
    <3>11. s \in Seq(C)
      BY <3>3, <3>10
    <3>12. ASSUME NEW c \in C PROVE Safe(c)' /\ c.c # "detach"
      <4>1. CASE c = d
        <5> HIDE DEF j
        <5> QED
          BY <3>1, <3>5, <4>1 DEF Safe, Clears, Removals
      <4>2. CASE c \in S
        <5> HIDE DEF j
        <5> QED
          BY <2>1, <3>2, <3>6, <4>2 DEF Safe, Removals
      <4> QED
        BY <3>9, <4>1, <4>2
    <3>13. Accurate(job[p])'
      BY <1>0, <3>4, <3>11, <3>12, SafeCalls, TailAccurate
    <3>14. \A c \in C : Lists(s, c)
      <4>1. 1 \in DOMAIN <<d>> /\ <<d>>[1] = d
        OBVIOUS
      <4>2. Lists(<<d>>, d)
        BY <4>1 DEF Lists
      <4>3. \A c \in S : Lists(SetToSeq(S), c)
        BY <3>8, SetListed
      <4> QED
        BY <3>3, <3>9, <3>10, <4>2, <4>3, ListsBoth
    <3>15. ASSUME NEW f \in Have, f \notin Want', faults = 0 PROVE Left(job[p], f)'
      <4>1. CASE AboutZone(j.z, f)
        <5>1. PICK c \in C : c = d
          BY <3>9
        <5>2. Clears(c, f)'
          BY <3>5, <4>1, <5>1 DEF Clears
        <5> QED
          BY <1>0, <3>4, <3>14, <5>2, TailLeft
      <4>2. ASSUME NEW n \in j.ns, AllowsTo(node[n].key, f) PROVE Left(job[p], f)'
        <5>1. PICK c : c = [c |-> "recomputeByID", n |-> n]
          OBVIOUS
        <5>2. c \in C /\ Clears(c, f)'
          BY <3>2, <3>7, <3>9, <4>2, <5>1 DEF Clears
        <5> QED
          BY <1>0, <3>4, <3>14, <5>2, TailLeft
      <4> QED
        BY <2>1, <3>1, <3>15, <4>1, <4>2
    <3> HIDE DEF j
    <3> QED
      BY <2>1, <2>2, <3>1, <3>13, <3>15 DEF Tracks, Ongoing
  <2>4. CASE Fault("db") /\ Done(p) /\ NoDb
    <3>1. job'[p].pc = "idle" /\ faults' # 0 /\ Want' = Want
      BY <1>0, <2>4, Moves, NoDbNoChange DEF Fault
    <3> QED
      BY <2>1, <2>2, <3>1, Unburdened DEF Tracks
  <2> QED
    BY <1>3, <2>3, <2>4 DEF DeleteZoneRow
<1> QED
  BY <1>1, <1>2, <1>3

\* An announcement's attachment is committed: a new zone route is wanted, and the
\* peer's block if this is the first one.
LEMMA AnnounceTxSync ==
    ASSUME NEW p \in Procs, Ongoing(p), AnnounceStart(p) \/ AnnounceTx(p)
    PROVE  Tracks(job[p])' /\ Follows
<1> DEFINE j == job[p]
<1>0. JobInv /\ Keyed /\ IInv /\ IInv' /\ Tracks(j) /\ TypeInv
  BY DEF Ongoing, Keyed
<1>1. CASE AnnounceStart(p)
  <2>1. PICK z \in DOMAIN zone, n \in DOMAIN node, r \in RealBlocks :
           Go(p, [pc |-> "announce", z |-> z, n |-> n, r |-> r, k |-> node[n].key, ip |-> node[n].ip])
    BY <1>1 DEF AnnounceStart
  <2>2. /\ job'[p].pc = "announce" /\ job'[p].n = n /\ job'[p].k = node[n].key
        /\ job'[p].ip = node[n].ip
    BY <1>0, <2>1, Moves
  <2>3. NoDb /\ UNCHANGED node
    BY <1>1, NoDbNoChange DEF AnnounceStart
  <2>4. Accurate(job[p])'
    BY <2>2, <2>3 DEF Accurate, NodeIs, UndoPcs
  <2> QED
    BY <1>1, <2>3, <2>4, IdlePlain, PlainStep DEF AnnounceStart
<1>2. CASE AnnounceTx(p)
  <2>1. j.pc = "announce" /\ NodeIs(j.n, j.k, j.ip)
    BY <1>0, <1>2 DEF AnnounceTx, At, Tracks, Accurate
  <2>2. NoKernel /\ j.pc \in PlainPcs
    BY <1>2, <2>1 DEF AnnounceTx, PlainPcs
  <2>3. j.r \in RealBlocks
    BY <1>0, <2>1 DEF JobInv, Carries
  \* Either way the request goes on with what was committed.
  <2>4. ASSUME NEW a, NEW b, Go(p, Growing(j, a, b)), UNCHANGED node,
               a \in DOMAIN ann', ann'[a].node = j.n, ann'[a].synth = b, <<a, j.z>> \in att',
               \A f \in Want' : \/ f \in Want \/ f = <<"route", j.z, b>>
                                \/ f = <<"allows", j.k, b>> /\ \A t \in att' : t[1] = a => t[2] = j.z,
               \A f \in Want : f \in Want'
        PROVE  Tracks(job[p])' /\ Follows
    <3> DEFINE x == Growing(j, a, b)
    <3>1. /\ x.pc = "routes" /\ x.z = j.z /\ x.n = j.n /\ x.k = j.k /\ x.ip = j.ip /\ x.a = a /\ x.b = b
          /\ Go(p, x)
      BY <2>4 DEF Growing
    <3> HIDE DEF x
    <3>2. job'[p] = x
      BY <1>0, <3>1, Moves
    <3> HIDE DEF j
    <3>3. Accurate(job[p])'
      BY <2>1, <2>4, <3>1, <3>2 DEF Accurate, NodeIs, AnnIs, UndoPcs
    <3>4. \A f \in Want' : f \in Want \/ Late(job[p], f)'
      <4>1. ASSUME NEW f, f = <<"route", j.z, b>> PROVE Late(job[p], f)'
        BY <2>4, <3>1, <3>2, <4>1 DEF Late
      <4>2. ASSUME NEW f, f = <<"allows", j.k, b>>, \A t \in att' : t[1] = a => t[2] = j.z PROVE Late(job[p], f)'
        <5>1. OnlyIn(job[p].a, job[p].z)'
          BY <3>1, <3>2, <4>2 DEF OnlyIn
        <5> QED
          BY <2>4, <3>1, <3>2, <4>2, <5>1 DEF Late
      <4> QED
        BY <2>4, <4>1, <4>2
    <3> QED
      BY <2>2, <2>4, <3>3, <3>4, PlainCommit DEF j
  <2> DEFINE b == AllocateBlock(SynthPool, j.r.len, SynthInUse)
             a == lastId.ann + 1
             mine == {x \in AnnsOf({j.n}) : ann[x].real = j.r}
  <2>5. CASE Announce(j.n, j.r, j.z) /\ Go(p, Growing(j, a, b))
    <3>1. /\ Want' = Want \cup {<<"allows", node[j.n].key, b>>, <<"route", j.z, b>>}
          /\ a \in DOMAIN ann' /\ ann'[a].node = j.n /\ ann'[a].synth = b /\ <<a, j.z>> \in att'
          /\ \A t \in att' : t[1] = a => t[2] = j.z
          /\ UNCHANGED <<node, zone, member>>
      BY <1>0, <2>5, Announced
    <3>2. PICK aa, bb : aa = a /\ bb = b
      OBVIOUS
    <3>3. \A t \in att' : t[1] = aa => t[2] = j.z
      BY <3>1, <3>2
    <3> HIDE DEF j, a, b
    <3>4. \A f \in Want' : f \in Want \/ f = <<"route", j.z, bb>> \/ f = <<"allows", j.k, bb>>
      BY <2>1, <3>1, <3>2, <3>3 DEF NodeIs
    <3>5. \A f \in Want : f \in Want'
      BY <3>1
    <3> QED
      BY <2>4, <2>5, <3>1, <3>2, <3>4, <3>5 DEF j
  <2>6. ASSUME AttachAgain(j.n, j.r, j.z), NEW x \in mine,
               IF <<x, j.z>> \in att THEN Done(p) ELSE Go(p, Growing(j, x, ann[x].synth))
        PROVE  Tracks(job[p])' /\ Follows
    <3>1. PICK y \in mine : att' = att \cup {<<y, j.z>>}
      BY <2>6 DEF AttachAgain
    <3>2. /\ x \in DOMAIN ann /\ ann[x].node = j.n /\ ann[x].real = j.r
          /\ y \in DOMAIN ann /\ ann[y].node = j.n /\ ann[y].real = j.r
          /\ UNCHANGED <<user, node, zone, member, ann>>
      BY <2>6 DEF AnnsOf, AttachAgain
    <3>3. x = y
      <4>1. j.r \in Block
        BY <2>3, StoreAssumption
      <4>2. Overlaps(j.r, j.r)
        BY <4>1, SizePositive DEF Block, Overlaps
      <4> QED
        BY <1>0, <3>2, <4>2 DEF IInv, RealDisjoint
    <3>4. CASE <<x, j.z>> \in att
      <4>1. att' = att /\ Done(p)
        BY <2>6, <3>1, <3>3, <3>4
      <4>2. Want' = Want
        BY <1>0, <3>2, <4>1, SameRows
      <4>3. job'[p].pc = "idle"
        BY <1>0, <4>1, Moves
      <4> QED
        BY <2>2, <4>2, <4>3, Unburdened, PlainCommit
    <3>5. CASE <<x, j.z>> \notin att
      <4>1. Want' = Want \cup {<<"route", j.z, ann[x].synth>>}
        BY <1>0, <3>1, <3>2, <3>3, AttachedAgain
      <4>2. PICK bb : bb = ann[x].synth
        OBVIOUS
      <4>3. Go(p, Growing(j, x, bb))
        BY <2>6, <3>5, <4>2
      <4> QED
        BY <2>4, <3>1, <3>2, <3>3, <4>1, <4>2, <4>3
    <3> QED
      BY <3>4, <3>5
  <2> QED
    BY <1>2, <2>2, <2>5, <2>6, PlainDone DEF AnnounceTx
<1> QED
  BY <1>1, <1>2

\* A failed step of the growth leads to its undoing.
LEMMA GrowthFails ==
    ASSUME NEW p \in Procs, Ongoing(p), job[p].pc \in {"routes", "setRoutes", "addRoute"},
           NoDb, NoKernel, faults' > 0, Go(p, Undo(job[p]))
    PROVE  Tracks(job[p])' /\ Follows
<1> DEFINE j == job[p]
           x == Undo(j)
<1>1. /\ x.pc = "undoAnnounce" /\ x.z = j.z /\ x.n = j.n /\ x.k = j.k /\ x.ip = j.ip /\ x.a = j.a
      /\ Go(p, x)
  BY DEF Undo
<1> HIDE DEF x
<1>2. job'[p] = x
  BY <1>1, Moves DEF Ongoing
<1>3. Want' = Want /\ UNCHANGED <<node, ann, att>> /\ Have' = Have /\ Follows
  BY NoDbNoChange, NoKernelNoChange
<1>4. Tracks(j) /\ j.pc \in {"routes", "setRoutes", "addRoute"}
  BY DEF Ongoing
<1> HIDE DEF j
<1>5. Accurate(job[p])'
  BY <1>1, <1>2, <1>3, <1>4 DEF Tracks, Accurate, NodeIs, UndoPcs
<1>6. \A f \in Want' : f \in Have' \/ Late(job[p], f)'
  BY <1>1, <1>2, <1>3, <1>4 DEF Tracks, Late, OnlyIn
<1> QED
  BY <1>3, <1>5, <1>6 DEF Tracks

\* The kernel calls that follow.
LEMMA AnnounceKernelSync ==
    ASSUME NEW p \in Procs, Ongoing(p), AnnounceRoutes(p) \/ AnnouncePeer(p) \/ AnnounceZoneRoute(p)
    PROVE  Tracks(job[p])' /\ Follows
<1> DEFINE j == job[p]
<1>0. JobInv /\ Keyed /\ IInv /\ IInv' /\ Tracks(j) /\ TypeInv /\ faults \in Nat /\ Shaped
  BY DEF Ongoing, Keyed, TypeInv, CountersOK
<1>a. NoDb /\ Want' = Want /\ UNCHANGED <<node, zone, ann, att>> /\ \A n : RoutesForNode(n)' = RoutesForNode(n)
  BY NoDbNoChange DEF AnnounceRoutes, AnnouncePeer, AnnounceZoneRoute
<1>1. CASE AnnounceRoutes(p)
  <2>1. j.pc = "routes" /\ NoKernel
    BY <1>1 DEF AnnounceRoutes, At
  <2> DEFINE x == [pc |-> "setRoutes", z |-> j.z, n |-> j.n, k |-> j.k, ip |-> j.ip, a |-> j.a,
                   b |-> j.b, rs |-> RoutesForNode(j.n)]
  <2>2. CASE Go(p, x) /\ NoFault
    <3>1. PICK rs : rs = RoutesForNode(j.n)
      OBVIOUS
    <3>2. /\ x.pc = "setRoutes" /\ x.z = j.z /\ x.n = j.n /\ x.k = j.k /\ x.ip = j.ip /\ x.a = j.a
          /\ x.b = j.b /\ x.rs = rs
      BY <3>1
    <3> HIDE DEF x
    <3>3. job'[p] = x
      BY <1>0, <2>2, Moves
    <3>4. Have' = Have /\ Follows
      BY <2>1, NoKernelNoChange
    <3>5. RoutesForNode(job[p].n)' = rs
      <4>1. \A n : RoutesForNode(n)' = RoutesForNode(n)
        BY <1>a
      <4>2. RoutesForNode(job[p].n)' = {ann'[a].synth : a \in {y \in DOMAIN ann' : ann'[y].node \in {j.n}}}
        BY <3>2, <3>3 DEF RoutesForNode, AnnsOf
      <4> HIDE DEF j
      <4> QED
        BY <1>a, <3>1, <4>2 DEF RoutesForNode, AnnsOf
    <3> HIDE DEF j
    <3>6. Accurate(job[p])'
      BY <1>0, <1>a, <2>1, <3>2, <3>3, <3>5 DEF Tracks, Accurate, NodeIs, AnnIs, UndoPcs
    <3>7. \A f \in Want' : f \in Have' \/ Late(job[p], f)'
      BY <1>0, <1>a, <2>1, <3>2, <3>3, <3>4 DEF Tracks, Late, OnlyIn
    <3>8. faults' = 0 => \A f \in Have' : f \in Want'
      BY <1>0, <1>a, <2>1, <2>2, <3>4 DEF Tracks, Left, NoFault
    <3> QED
      BY <3>4, <3>6, <3>7, <3>8 DEF Tracks
  <2>3. CASE Fault("db") /\ Go(p, Undo(j))
    BY <1>0, <1>a, <2>1, <2>3, GrowthFails DEF Fault
  <2> QED
    BY <1>1, <2>2, <2>3 DEF AnnounceRoutes
<1>2. CASE AnnouncePeer(p)
  <2>1. j.pc = "setRoutes" /\ NodeIs(j.n, j.k, j.ip) /\ j.rs = RoutesForNode(j.n)
    BY <1>0, <1>2 DEF AnnouncePeer, At, Tracks, Accurate
  <2> DEFINE x == [Growing(j, j.a, j.b) EXCEPT !.pc = "addRoute"]
  <2>2. CASE SetPeerRoutes(j.k, j.ip, j.rs) /\ Go(p, x) /\ NoFault
    <3>2. /\ x.pc = "addRoute" /\ x.z = j.z /\ x.n = j.n /\ x.k = j.k /\ x.ip = j.ip /\ x.a = j.a
          /\ x.b = j.b
      BY DEF Growing
    <3> HIDE DEF x
    <3>3. job'[p] = x
      BY <1>0, <2>2, Moves
    <3>4. SetPeerRoutes(node[j.n].key, node[j.n].ip, RoutesForNode(j.n)) /\ j.n \in DOMAIN node /\ j.k = node[j.n].key
      BY <2>1, <2>2 DEF NodeIs
    <3> HIDE DEF j
    <3>5. /\ \A f \in Want : AboutPeer(j.k, f) \/ f \in Have => f \in Have'
          /\ \A f \in Have' : f \in Want \/ f \in Have
      BY <1>0, <3>4, SetPeerEffect
    <3>6. Accurate(job[p])'
      BY <1>0, <1>a, <2>1, <3>2, <3>3 DEF Tracks, Accurate, NodeIs, AnnIs, UndoPcs
    <3>7. \A f \in Want' : f \in Have' \/ Late(job[p], f)'
      BY <1>0, <1>a, <2>1, <3>2, <3>3, <3>5 DEF Tracks, Late, OnlyIn, AboutPeer
    <3>8. faults' = 0 => \A f \in Have' : f \in Want'
      BY <1>0, <1>a, <2>1, <2>2, <3>5 DEF Tracks, Left, NoFault
    <3>9. Follows
      BY <1>a, <3>5 DEF Follows
    <3> QED
      BY <3>6, <3>7, <3>8, <3>9 DEF Tracks
  <2>3. CASE Fault("kernel") /\ Go(p, Undo(j)) /\ NoKernel
    BY <1>0, <1>a, <2>1, <2>3, GrowthFails DEF Fault
  <2> QED
    BY <1>2, <2>2, <2>3 DEF AnnouncePeer
<1>3. CASE AnnounceZoneRoute(p)
  <2>1. /\ j.pc = "addRoute" /\ AnnIs(j.a, j.n, j.b) /\ <<j.a, j.z>> \in att
        /\ \A f \in Want : f \in Have \/ f = <<"route", j.z, j.b>>
        /\ faults = 0 => \A f \in Have : f \in Want
    BY <1>0, <1>3 DEF AnnounceZoneRoute, At, Tracks, Accurate, AnnIs, Late, Left
  <2>2. <<"route", j.z, j.b>> \in Want /\ j.z \in DOMAIN zone
    <3> DEFINE t == <<j.a, j.z>>
    <3>1. t \in att /\ t[1] = j.a /\ t[2] = j.z
      BY <2>1
    <3> HIDE DEF t, j
    <3> QED
      BY <1>0, <2>1, <3>1, WantKinds DEF AnnIs, IInv, ReferentialIntegrity
  <2>3. CASE AddZoneRoute(j.z, j.b) /\ Done(p) /\ NoFault
    <3>1. \A f : f \in Have' <=> f = <<"route", j.z, j.b>> \/ f \in Have
      BY <1>0, <2>3, AddZoneRouteEffect
    <3>2. job'[p].pc = "idle"
      BY <1>0, <2>3, Moves
    <3> HIDE DEF j
    <3> QED
      BY <1>a, <2>1, <2>2, <2>3, <3>1, <3>2, Unburdened DEF Tracks, Follows, NoFault
  <2>4. CASE ~ RouteFits(j.z, j.b) /\ Go(p, Undo(j)) /\ NoKernel /\ NoFault
    <3>1. faults # 0
      <4>1. SUFFICES ASSUME faults = 0 PROVE FALSE
        OBVIOUS
      <4>2. j.z \in DOMAIN nft
        <5>1. <<"zone", j.z>> \in Want /\ <<"zone", j.z>> # <<"route", j.z, j.b>>
          BY <1>0, <2>2, WantKinds
        <5> QED
          BY <2>1, <5>1, SetsPresent
      <4>3. PICK r \in nft[j.z].routes : r # j.b /\ Overlaps(r, j.b)
        BY <2>4, <4>2 DEF RouteFits
      <4>4. <<"route", j.z, r>> \in Want
        BY <2>1, <4>1, <4>2, <4>3, HaveKinds
      <4>5. PICK t \in att : ann[t[1]].synth = r
        BY <1>0, <4>4, WantKinds
      <4>6. t[1] \in DOMAIN ann /\ j.a \in DOMAIN ann /\ ann[j.a].synth = j.b
        BY <1>0, <2>1, <4>5 DEF IInv, ReferentialIntegrity, AnnIs
      <4>7. ~ Overlaps(ann[t[1]].synth, ann[j.a].synth)
        BY <1>0, <4>3, <4>5, <4>6 DEF IInv, SyntheticDisjoint
      <4> QED
        BY <4>3, <4>5, <4>6, <4>7
    <3>2. faults' > 0
      BY <1>0, <2>4, <3>1 DEF NoFault
    <3> QED
      BY <1>a, <2>1, <2>4, <3>2, GrowthFails
  <2>5. CASE Fault("kernel") /\ Go(p, Undo(j)) /\ NoKernel
    BY <1>0, <1>a, <2>1, <2>5, GrowthFails DEF Fault
  <2> QED
    BY <1>3, <2>3, <2>4, <2>5 DEF AnnounceZoneRoute
<1> QED
  BY <1>1, <1>2, <1>3

\* What detaching one attachment takes away.
LEMMA OneDetached ==
    ASSUME Keyed, IInv', NEW a, NEW z, Detach(a, z)
    PROVE  /\ a \in DOMAIN ann /\ UNCHANGED node
           /\ \A f : f \in Want' <=>
                 /\ f \in Want /\ f # <<"route", z, ann[a].synth>>
                 /\ a \in Reclaimed({<<a, z>>}) => f # <<"allows", node[ann[a].node].key, ann[a].synth>>
           /\ a \in Reclaimed({<<a, z>>}) <=> OnlyIn(a, z)
<1> DEFINE u == <<a, z>>
<1>1. u \in att /\ u[1] = a /\ u[2] = z /\ DetachSet({u}) /\ UNCHANGED node
  BY DEF Detach, DetachSet
<1> HIDE DEF u
<1>2. a \in DOMAIN ann
  BY <1>1 DEF Keyed, IInv, ReferentialIntegrity
<1>3. \A b \in Reclaimed({u}) : b = a
  BY <1>1 DEF Reclaimed
<1>4. \A f : f \in Want' <=>
              /\ f \in Want
              /\ \A t \in {u} \cap att : f # <<"route", t[2], ann[t[1]].synth>>
              /\ \A b \in Reclaimed({u}) : f # <<"allows", node[ann[b].node].key, ann[b].synth>>
  BY <1>1, AttachmentsRemoved
<1>5. \A t \in att : t[1] = a /\ t[2] = z => t = u
  BY DEF u, Keyed, IInv, StoreTypeOK
<1>6. a \in Reclaimed({u}) <=> OnlyIn(a, z)
  BY <1>1, <1>2, <1>5 DEF Reclaimed, OnlyIn
<1>7. u = <<a, z>>
  BY DEF u
<1> QED
  BY <1>1, <1>2, <1>3, <1>4, <1>6, <1>7

\* The undoing of a failed growth.
LEMMA AnnounceUndoSync ==
    ASSUME NEW p \in Procs, Ongoing(p), AnnounceUndo(p)
    PROVE  Tracks(job[p])' /\ Follows
<1> DEFINE j == job[p]
<1>0. JobInv /\ Keyed /\ IInv /\ IInv' /\ Tracks(j) /\ TypeInv /\ faults \in Nat
  BY DEF Ongoing, Keyed, TypeInv, CountersOK
<1>1. /\ j.pc = "undoAnnounce" /\ faults > 0 /\ NodeIs(j.n, j.k, j.ip) /\ <<j.a, j.z>> \in att
      /\ ann[j.a].node = j.n
      /\ \A f \in Want : \/ f \in Have \/ f = <<"route", j.z, ann[j.a].synth>>
                         \/ OnlyIn(j.a, j.z) /\ f = <<"allows", j.k, ann[j.a].synth>>
  BY <1>0 DEF AnnounceUndo, At, Tracks, Accurate, Late, UndoPcs
<1>2. NoKernel /\ Have' = Have /\ Follows
  BY NoKernelNoChange DEF AnnounceUndo
<1>3. faults' # 0 /\ ~ Fault("db")
  BY <1>0, <1>1, RelayAssumption DEF Ongoing, Fault, SingleFault
<1>4. Detach(j.a, j.z) /\ BestEffort(p, <<Recompute(j)>>)
  BY <1>1, <1>3 DEF AnnounceUndo
<1>5. PICK c : c = Recompute(j)
  OBVIOUS
<1>6. c.c = "recompute" /\ c.n = j.n /\ c.k = j.k /\ c.ip = j.ip
  BY <1>5 DEF Recompute
<1>7. PICK s : s = <<c>>
  OBVIOUS
<1>8. BestEffort(p, s) /\ s \in Seq({c})
  BY <1>4, <1>5, <1>7
<1> HIDE DEF j
<1>9. /\ UNCHANGED node
      /\ \A f \in Want' : f \in Want /\ f # <<"route", j.z, ann[j.a].synth>>
      /\ OnlyIn(j.a, j.z) => \A f \in Want' : f # <<"allows", node[ann[j.a].node].key, ann[j.a].synth>>
  BY <1>0, <1>4, OneDetached
<1>10. Safe(c)' /\ c.c # "detach"
  BY <1>1, <1>6, <1>9 DEF Safe, Removals, NodeIs
<1>11. SafeList(s)'
  BY <1>8, <1>10, SafeCalls
<1>12. Accurate(job[p])'
  BY <1>0, <1>8, <1>11, TailAccurate
<1>13. \A f \in Want' : f \in Have'
  BY <1>1, <1>2, <1>9 DEF NodeIs
<1> QED
  BY <1>2, <1>3, <1>12, <1>13 DEF Tracks

\* deleteAnnouncement.
LEMMA WithdrawSync ==
    ASSUME NEW p \in Procs, Ongoing(p), WithdrawStart(p) \/ WithdrawDetach(p)
    PROVE  Tracks(job[p])' /\ Follows
<1> DEFINE j == job[p]
<1>0. JobInv /\ Keyed /\ IInv /\ IInv' /\ Tracks(j) /\ TypeInv
  BY DEF Ongoing, Keyed
<1>1. CASE WithdrawStart(p)
  <2>1. PICK z \in DOMAIN zone, a \in DOMAIN ann :
           Go(p, [pc |-> "withdraw", z |-> z, a |-> a, b |-> ann[a].synth, n |-> ann[a].node,
                  k |-> node[ann[a].node].key, ip |-> node[ann[a].node].ip])
    BY <1>1 DEF WithdrawStart
  <2>2. PICK n : n = ann[a].node
    OBVIOUS
  <2>3. /\ job'[p].pc = "withdraw" /\ job'[p].n = n /\ job'[p].k = node[n].key
        /\ job'[p].ip = node[n].ip /\ job'[p].a = a /\ job'[p].b = ann[a].synth
    BY <1>0, <2>1, <2>2, Moves
  <2>4. NoDb /\ UNCHANGED <<node, ann>>
    BY <1>1, NoDbNoChange DEF WithdrawStart
  <2>5. n \in DOMAIN node
    BY <1>0, <2>2 DEF IInv, ReferentialIntegrity
  <2>6. Accurate(job[p])'
    BY <2>2, <2>3, <2>4, <2>5 DEF Accurate, NodeIs, AnnIs, UndoPcs
  <2> QED
    BY <1>1, <2>4, <2>6, IdlePlain, PlainStep DEF WithdrawStart
<1>2. CASE WithdrawDetach(p)
  <2>1. j.pc = "withdraw" /\ NodeIs(j.n, j.k, j.ip) /\ AnnIs(j.a, j.n, j.b)
    BY <1>0, <1>2 DEF WithdrawDetach, At, Tracks, Accurate
  <2>2. NoKernel /\ j.pc \in PlainPcs
    BY <1>2, <2>1 DEF WithdrawDetach, PlainPcs
  <2>3. CASE Detach(j.a, j.z) /\ BestEffort(p, Withdrawal(j))
    <3>1. PICK c, d : c = [c |-> "rmRoute", z |-> j.z, b |-> j.b] /\ d = Recompute(j)
      OBVIOUS
    <3>2. /\ c.c = "rmRoute" /\ c.z = j.z /\ c.b = j.b
          /\ d.c = "recompute" /\ d.n = j.n /\ d.k = j.k /\ d.ip = j.ip
      BY <3>1 DEF Recompute
    <3>3. PICK s : s = Withdrawal(j)
      OBVIOUS
    <3>4. BestEffort(p, s)
      BY <2>3, <3>3
    <3>5. \/ s = <<c>> \o <<d>>
          \/ s = <<c>> \o <<>> /\ j.a \notin Reclaimed({<<j.a, j.z>>})
      BY <3>1, <3>3 DEF Withdrawal
    <3>a. s \in Seq({c, d}) /\ 1 \in DOMAIN s /\ s[1] = c
      <4>1. CASE s = <<c>> \o <<d>>
        BY <4>1
      <4>2. CASE s = <<c>> \o <<>>
        BY <4>2
      <4> QED
        BY <3>5, <4>1, <4>2
    <3>b. j.a \in Reclaimed({<<j.a, j.z>>}) => 2 \in DOMAIN s /\ s[2] = d
      <4>1. s = <<c>> \o <<d>> => 2 \in DOMAIN s /\ s[2] = d
        OBVIOUS
      <4> QED
        BY <3>5, <4>1
    <3> HIDE DEF j
    <3>6. /\ UNCHANGED node
          /\ \A f : f \in Want' <=>
                /\ f \in Want /\ f # <<"route", j.z, j.b>>
                /\ j.a \in Reclaimed({<<j.a, j.z>>}) => f # <<"allows", j.k, j.b>>
      <4>1. ann[j.a].synth = j.b /\ node[ann[j.a].node].key = j.k
        BY <2>1 DEF AnnIs, NodeIs
      <4>2. /\ UNCHANGED node
            /\ \A f : f \in Want' <=>
                  /\ f \in Want /\ f # <<"route", j.z, ann[j.a].synth>>
                  /\ j.a \in Reclaimed({<<j.a, j.z>>}) => f # <<"allows", node[ann[j.a].node].key, ann[j.a].synth>>
        BY <1>0, <2>3, OneDetached
      <4> QED
        BY <4>1, <4>2
    <3>7. Safe(c)' /\ c.c # "detach"
      BY <3>2, <3>6 DEF Safe, Removals, Clears
    <3>8. Safe(d)' /\ d.c # "detach"
      BY <2>1, <3>2, <3>6 DEF Safe, Removals, NodeIs
    <3>10. \A x \in {c, d} : Safe(x)' /\ x.c # "detach"
      BY <3>7, <3>8 DEF Safe, Clears
    <3>11. Accurate(job[p])'
      BY <1>0, <3>4, <3>a, <3>10, SafeCalls, TailAccurate
    <3>12. ASSUME NEW f \in Want, f \notin Want' PROVE Left(job[p], f)'
      <4>1. CASE f = <<"route", j.z, j.b>>
        <5>1. Clears(c, f)'
          BY <3>2, <4>1 DEF Clears
        <5> QED
          BY <1>0, <3>4, <3>a, <5>1, TailLeft DEF Lists
      <4>2. CASE j.a \in Reclaimed({<<j.a, j.z>>}) /\ f = <<"allows", j.k, j.b>>
        <5>1. Clears(d, f)'
          BY <3>2, <4>2 DEF Clears, AllowsTo
        <5>2. 2 \in DOMAIN s /\ s[2] = d
          BY <3>b, <4>2
        <5> QED
          BY <1>0, <3>4, <5>1, <5>2, TailLeft DEF Lists
      <4> QED
        BY <3>6, <3>12, <4>1, <4>2
    <3> QED
      BY <2>2, <3>6, <3>11, <3>12, PlainCommit DEF j
  <2> QED
    BY <1>2, <2>2, <2>3, PlainDone DEF WithdrawDetach
<1> QED
  BY <1>1, <1>2

\* The calls after a user's deletion, by kind.
PeerCalls(u)   == {[c |-> "rmPeer", k |-> node[n].key] : n \in NodesOf(u)}
MemberCalls(u) ==
    {[c |-> "rmMember", z |-> m[1], ip |-> node[m[2]].ip] :
        m \in {x \in member : x[2] \in NodesOf(u) /\ x[1] \notin ZonesOf(u)}}
ZoneCalls(u)   == {[c |-> "rmZone", z |-> z] : z \in ZonesOf(u)}
RouteCalls(u)  ==
    {[c |-> "rmRoute", z |-> x[2], b |-> ann[x[1]].synth] :
        x \in {y \in att : ann[y[1]].node \in NodesOf(u) /\ y[2] \notin ZonesOf(u)}}
OrphanCalls(u) ==
    {[c |-> "recompute", n |-> n, k |-> node[n].key, ip |-> node[n].ip] :
        n \in {ann[a].node : a \in Orphans(u)}}
UserCalls(u)   == PeerCalls(u) \cup MemberCalls(u) \cup ZoneCalls(u) \cup RouteCalls(u) \cup OrphanCalls(u)

\* UserCleanup lists them.
LEMMA UserCleanupLists ==
    ASSUME IInv, NEW u
    PROVE  UserCleanup(u) \in Seq(UserCalls(u)) /\ \A c \in UserCalls(u) : Lists(UserCleanup(u), c)
<1> DEFINE dn == NodesOf(u)
           dz == ZonesOf(u)
           on == {ann[a].node : a \in Orphans(u)}
           dm == {x \in member : x[2] \in dn /\ x[1] \notin dz}
           dt == {y \in att : ann[y[1]].node \in dn /\ y[2] \notin dz}
           f1 == [n \in dn |-> [c |-> "rmPeer", k |-> node[n].key]]
           f2 == [m \in dm |-> [c |-> "rmMember", z |-> m[1], ip |-> node[m[2]].ip]]
           f3 == [z \in dz |-> [c |-> "rmZone", z |-> z]]
           f4 == [x \in dt |-> [c |-> "rmRoute", z |-> x[2], b |-> ann[x[1]].synth]]
           f5 == [n \in on |-> [c |-> "recompute", n |-> n, k |-> node[n].key, ip |-> node[n].ip]]
           S1 == {[c |-> "rmPeer", k |-> node[n].key] : n \in dn}
           S2 == {[c |-> "rmMember", z |-> m[1], ip |-> node[m[2]].ip] : m \in dm}
           S3 == {[c |-> "rmZone", z |-> z] : z \in dz}
           S4 == {[c |-> "rmRoute", z |-> x[2], b |-> ann[x[1]].synth] : x \in dt}
           S5 == {[c |-> "recompute", n |-> n, k |-> node[n].key, ip |-> node[n].ip] : n \in on}
<1>1. /\ dn \subseteq DOMAIN node /\ dz \subseteq DOMAIN zone /\ on \subseteq DOMAIN node
      /\ dm \subseteq member /\ dt \subseteq att
  BY RowTypes DEF NodesOf, ZonesOf, Orphans
<1>2. /\ IsFiniteSet(dn) /\ IsFiniteSet(dz) /\ IsFiniteSet(on) /\ IsFiniteSet(dm)
      /\ IsFiniteSet(dt)
  BY <1>1, RowsFinite
<1>3. /\ {f1[n] : n \in dn} = S1 /\ {f2[m] : m \in dm} = S2 /\ {f3[z] : z \in dz} = S3
      /\ {f4[x] : x \in dt} = S4 /\ {f5[n] : n \in on} = S5
  OBVIOUS
<1>4. DOMAIN f1 = dn /\ DOMAIN f2 = dm /\ DOMAIN f3 = dz /\ DOMAIN f4 = dt /\ DOMAIN f5 = on
  OBVIOUS
<1>5. /\ S1 = PeerCalls(u) /\ S2 = MemberCalls(u) /\ S3 = ZoneCalls(u) /\ S4 = RouteCalls(u)
      /\ S5 = OrphanCalls(u)
  BY DEF PeerCalls, MemberCalls, ZoneCalls, RouteCalls, OrphanCalls
<1>6. UserCleanup(u) = SetToSeq(S1) \o SetToSeq(S2) \o SetToSeq(S3) \o SetToSeq(S4) \o SetToSeq(S5)
  BY DEF UserCleanup, Orphans
<1> HIDE DEF f1, f2, f3, f4, f5, dn, dz, on, dm, dt, S1, S2, S3, S4, S5
<1>7. IsFiniteSet(S1)
  BY <1>2, <1>3, <1>4, FiniteValues
<1>8. IsFiniteSet(S2)
  BY <1>2, <1>3, <1>4, FiniteValues
<1>9. IsFiniteSet(S3)
  BY <1>2, <1>3, <1>4, FiniteValues
<1>10. IsFiniteSet(S4)
  BY <1>2, <1>3, <1>4, FiniteValues
<1>11. IsFiniteSet(S5)
  BY <1>2, <1>3, <1>4, FiniteValues
<1> DEFINE C == UserCalls(u)
<1>12. \A x : x \in C <=> x \in S1 \/ x \in S2 \/ x \in S3 \/ x \in S4 \/ x \in S5
  BY <1>5 DEF UserCalls
<1> HIDE DEF C
<1>13. /\ SetToSeq(S1) \in Seq(C) /\ SetToSeq(S2) \in Seq(C) /\ SetToSeq(S3) \in Seq(C)
       /\ SetToSeq(S4) \in Seq(C) /\ SetToSeq(S5) \in Seq(C)
  <2>1. S1 \subseteq C /\ S2 \subseteq C /\ S3 \subseteq C /\ S4 \subseteq C /\ S5 \subseteq C
    BY <1>12
  <2> QED
    BY <2>1, <1>7, <1>8, <1>9, <1>10, <1>11, ListedCalls
<1>14. /\ \A x \in S1 : Lists(SetToSeq(S1), x)
       /\ \A x \in S2 : Lists(SetToSeq(S2), x)
       /\ \A x \in S3 : Lists(SetToSeq(S3), x)
       /\ \A x \in S4 : Lists(SetToSeq(S4), x)
       /\ \A x \in S5 : Lists(SetToSeq(S5), x)
  BY <1>7, <1>8, <1>9, <1>10, <1>11, SetListed
<1> DEFINE s2 == SetToSeq(S1) \o SetToSeq(S2)
           s3 == s2 \o SetToSeq(S3)
           s4 == s3 \o SetToSeq(S4)
           s5 == s4 \o SetToSeq(S5)
<1>15. s2 \in Seq(C) /\ \A x : Lists(s2, x) <=> Lists(SetToSeq(S1), x) \/ Lists(SetToSeq(S2), x)
  BY <1>13, ListsBoth
<1> HIDE DEF s2
<1>16. s3 \in Seq(C) /\ \A x : Lists(s3, x) <=> Lists(s2, x) \/ Lists(SetToSeq(S3), x)
  BY <1>13, <1>15, ListsBoth
<1> HIDE DEF s3
<1>17. s4 \in Seq(C) /\ \A x : Lists(s4, x) <=> Lists(s3, x) \/ Lists(SetToSeq(S4), x)
  BY <1>13, <1>16, ListsBoth
<1> HIDE DEF s4
<1>18. s5 \in Seq(C) /\ \A x : Lists(s5, x) <=> Lists(s4, x) \/ Lists(SetToSeq(S5), x)
  BY <1>13, <1>17, ListsBoth
<1>19. UserCleanup(u) = s5
  BY <1>6 DEF s2, s3, s4
<1> HIDE DEF s5
<1>20. \A c \in C : Lists(s5, c)
  BY <1>12, <1>14, <1>15, <1>16, <1>17, <1>18
<1> QED
  BY <1>18, <1>19, <1>20 DEF C

\* deleteUser, whose transaction gathers what is to be cleared away.
LEMMA DeleteUserSync ==
    ASSUME NEW p \in Procs, Ongoing(p), DeleteUserStart(p)
    PROVE  Tracks(job[p])' /\ Follows
<1>0. JobInv /\ Keyed /\ IInv /\ IInv' /\ NoKernel /\ job[p].pc \in PlainPcs
  BY IdlePlain DEF Ongoing, Keyed, DeleteUserStart
<1>1. PICK u \in DOMAIN user : DeleteUser(u) /\ BestEffort(p, UserCleanup(u))
  BY DEF DeleteUserStart
<1>2. PICK s, C : s = UserCleanup(u) /\ C = UserCalls(u)
  OBVIOUS
<1>3. BestEffort(p, s) /\ s \in Seq(C) /\ \A c \in C : Lists(s, c)
  BY <1>0, <1>1, <1>2, UserCleanupLists
<1>4. \A f : f \in Want' <=>
          /\ f \in Want
          /\ \A n \in NodesOf(u) : ~ AboutPeer(node[n].key, f)
          /\ \A z \in ZonesOf(u) : ~ AboutZone(z, f)
          /\ \A m \in member : m[2] \in NodesOf(u) /\ m[1] \notin ZonesOf(u) => f # <<"member", m[1], node[m[2]].ip>>
          /\ \A t \in att : ann[t[1]].node \in NodesOf(u) /\ t[2] \notin ZonesOf(u)
                               => f # <<"route", t[2], ann[t[1]].synth>>
          /\ \A a \in Orphans(u) : f # <<"allows", node[ann[a].node].key, ann[a].synth>>
  BY <1>0, <1>1, UserRemoved
<1>5. \A c : c \in C <=> \/ c \in PeerCalls(u) \/ c \in MemberCalls(u) \/ c \in ZoneCalls(u)
                         \/ c \in RouteCalls(u) \/ c \in OrphanCalls(u)
  BY <1>2 DEF UserCalls
<1>6. ASSUME NEW c \in C PROVE Safe(c)' /\ c.c # "detach"
  <2>1. CASE c \in PeerCalls(u)
    <3>1. PICK n \in NodesOf(u) : c = [c |-> "rmPeer", k |-> node[n].key]
      BY <2>1 DEF PeerCalls
    <3>2. c.c = "rmPeer" /\ c.k = node[n].key
      BY <3>1
    <3>3. \A f \in Want' : ~ AboutPeer(c.k, f)
      BY <1>4, <3>2
    <3> QED
      BY <3>2, <3>3 DEF Safe, Clears, Removals
  <2>2. CASE c \in MemberCalls(u)
    <3>1. PICK m \in member : /\ m[2] \in NodesOf(u) /\ m[1] \notin ZonesOf(u)
                              /\ c = [c |-> "rmMember", z |-> m[1], ip |-> node[m[2]].ip]
      BY <2>2 DEF MemberCalls
    <3>2. c.c = "rmMember" /\ c.z = m[1] /\ c.ip = node[m[2]].ip
      BY <3>1
    <3>3. \A f \in Want' : f # <<"member", c.z, c.ip>>
      BY <1>4, <3>1, <3>2
    <3> QED
      BY <3>2, <3>3 DEF Safe, Clears, Removals
  <2>3. CASE c \in ZoneCalls(u)
    <3>1. PICK z \in ZonesOf(u) : c = [c |-> "rmZone", z |-> z]
      BY <2>3 DEF ZoneCalls
    <3>2. c.c = "rmZone" /\ c.z = z
      BY <3>1
    <3>3. \A f \in Want' : ~ AboutZone(c.z, f)
      BY <1>4, <3>2
    <3> QED
      BY <3>2, <3>3 DEF Safe, Clears, Removals
  <2>4. CASE c \in RouteCalls(u)
    <3>1. PICK t \in att : /\ ann[t[1]].node \in NodesOf(u) /\ t[2] \notin ZonesOf(u)
                           /\ c = [c |-> "rmRoute", z |-> t[2], b |-> ann[t[1]].synth]
      BY <2>4 DEF RouteCalls
    <3>2. c.c = "rmRoute" /\ c.z = t[2] /\ c.b = ann[t[1]].synth
      BY <3>1
    <3>3. \A f \in Want' : f # <<"route", c.z, c.b>>
      BY <1>4, <3>1, <3>2
    <3> QED
      BY <3>2, <3>3 DEF Safe, Clears, Removals
  <2>5. CASE c \in OrphanCalls(u)
    <3>1. PICK a \in Orphans(u) : c = [c |-> "recompute", n |-> ann[a].node, k |-> node[ann[a].node].key,
                                       ip |-> node[ann[a].node].ip]
      BY <2>5 DEF OrphanCalls
    <3>2. PICK n : n = ann[a].node
      OBVIOUS
    <3>3. c.c = "recompute" /\ c.n = n /\ c.k = node[n].key /\ c.ip = node[n].ip
      BY <3>1, <3>2
    <3>4. n \in DOMAIN node /\ n \notin NodesOf(u)
      BY <1>0, <3>2 DEF Orphans, AnnsOf, IInv, ReferentialIntegrity
    <3>5. n \in DOMAIN node' /\ node'[n] = node[n]
      BY <1>1, <3>4 DEF DeleteUser, Without
    <3> QED
      BY <3>3, <3>5 DEF Safe, Removals, NodeIs
  <2> QED
    BY <1>5, <2>1, <2>2, <2>3, <2>4, <2>5
<1>7. Accurate(job[p])'
  BY <1>0, <1>3, <1>6, SafeCalls, TailAccurate
<1>8. ASSUME NEW f \in Want, f \notin Want' PROVE Left(job[p], f)'
  <2>1. SUFFICES \E c \in C : Clears(c, f)'
    <3>1. PICK c \in C : Clears(c, f)'
      BY <2>1
    <3> QED
      BY <1>0, <1>3, <3>1, TailLeft
  <2>2. ASSUME NEW n \in NodesOf(u), AboutPeer(node[n].key, f) PROVE \E c \in C : Clears(c, f)'
    <3>1. PICK c : c = [c |-> "rmPeer", k |-> node[n].key]
      OBVIOUS
    <3>2. c \in C
      BY <1>5, <3>1 DEF PeerCalls
    <3> QED
      BY <2>2, <3>1, <3>2 DEF Clears
  <2>3. ASSUME NEW z \in ZonesOf(u), AboutZone(z, f) PROVE \E c \in C : Clears(c, f)'
    <3>1. PICK c : c = [c |-> "rmZone", z |-> z]
      OBVIOUS
    <3>2. c \in C
      BY <1>5, <3>1 DEF ZoneCalls
    <3> QED
      BY <2>3, <3>1, <3>2 DEF Clears
  <2>4. ASSUME NEW m \in member, m[2] \in NodesOf(u), m[1] \notin ZonesOf(u), f = <<"member", m[1], node[m[2]].ip>>
        PROVE  \E c \in C : Clears(c, f)'
    <3>1. PICK c : c = [c |-> "rmMember", z |-> m[1], ip |-> node[m[2]].ip]
      OBVIOUS
    <3>2. c \in MemberCalls(u)
      BY <2>4, <3>1 DEF MemberCalls
    <3>3. c.c = "rmMember" /\ c.z = m[1] /\ c.ip = node[m[2]].ip
      BY <3>1
    <3> QED
      BY <1>5, <2>4, <3>2, <3>3 DEF Clears
  <2>5. ASSUME NEW t \in att, ann[t[1]].node \in NodesOf(u), t[2] \notin ZonesOf(u),
               f = <<"route", t[2], ann[t[1]].synth>>
        PROVE  \E c \in C : Clears(c, f)'
    <3>1. PICK c : c = [c |-> "rmRoute", z |-> t[2], b |-> ann[t[1]].synth]
      OBVIOUS
    <3>2. c \in RouteCalls(u)
      BY <2>5, <3>1 DEF RouteCalls
    <3>3. c.c = "rmRoute" /\ c.z = t[2] /\ c.b = ann[t[1]].synth
      BY <3>1
    <3> QED
      BY <1>5, <2>5, <3>2, <3>3 DEF Clears
  <2>6. ASSUME NEW a \in Orphans(u), f = <<"allows", node[ann[a].node].key, ann[a].synth>>
        PROVE  \E c \in C : Clears(c, f)'
    <3>1. PICK n : n = ann[a].node
      OBVIOUS
    <3>2. PICK c : c = [c |-> "recompute", n |-> n, k |-> node[n].key, ip |-> node[n].ip]
      OBVIOUS
    <3>3. c \in OrphanCalls(u)
      BY <3>1, <3>2 DEF OrphanCalls
    <3>4. c.c = "recompute" /\ c.k = node[n].key
      BY <3>2
    <3> QED
      BY <1>5, <2>6, <3>1, <3>3, <3>4 DEF Clears, AllowsTo
  <2> QED
    BY <1>4, <1>8, <2>2, <2>3, <2>4, <2>5, <2>6
<1> QED
  BY <1>0, <1>4, <1>7, <1>8, PlainCommit

\* While the database stands still, so do the calls' safety and what they clear.
LEMMA CallsStand ==
    ASSUME NoDb, NEW c
    PROVE  /\ Safe(c)' <=> Safe(c)
           /\ \A f : Clears(c, f)' <=> Clears(c, f)
<1>1. Want' = Want /\ UNCHANGED <<node, ann>> /\ \A n : RoutesForNode(n)' = RoutesForNode(n)
  BY NoDbNoChange
<1>2. \A f : Clears(c, f)' <=> Clears(c, f)
  BY <1>1 DEF Clears
<1>3. (c.c \in Removals => \A f \in Want : ~ Clears(c, f))' <=> (c.c \in Removals => \A f \in Want : ~ Clears(c, f))
  <2>1. (\A f \in Want : ~ Clears(c, f))' <=> \A f \in Want : ~ Clears(c, f)
    BY <1>1 DEF Clears
  <2> QED
    BY <2>1 DEF Removals
<1>4. (\E n \in DOMAIN node : NodeIs(n, c.k, c.ip) /\ c.rs = RoutesForNode(n))' <=>
         \E n \in DOMAIN node : NodeIs(n, c.k, c.ip) /\ c.rs = RoutesForNode(n)
  BY <1>1 DEF NodeIs, RoutesForNode, AnnsOf
<1>5. NodeIs(c.n, c.k, c.ip)' <=> NodeIs(c.n, c.k, c.ip)
  BY <1>1 DEF NodeIs
<1> QED
  BY <1>1, <1>2, <1>3, <1>4, <1>5 DEF Safe

\* What a kernel call of the tail does.
LEMMA TailCallEffect ==
    ASSUME Keyed, Shaped, NEW c, Safe(c), c.c \in Removals \cup {"setPeer"}, KernelCall(c)
    PROVE  /\ \A f \in Have' : f \in Want \/ (f \in Have /\ ~ Clears(c, f))
           /\ \A f \in Want : f \in Have => f \in Have'
<1>1. CASE c.c \in Removals
  <2>1. \A f : f \in Have' <=> f \in Have /\ ~ Clears(c, f)
    <3>1. CASE c.c = "rmPeer"
      <4>1. RemovePeer(c.k) /\ \A f : Clears(c, f) <=> AboutPeer(c.k, f)
        BY <3>1 DEF KernelCall, Clears
      <4> QED
        BY <4>1, RemovePeerEffect
    <3>2. CASE c.c = "rmMember"
      <4>1. RemoveMember(c.z, c.ip) /\ \A f : Clears(c, f) <=> f = <<"member", c.z, c.ip>>
        BY <3>2 DEF KernelCall, Clears
      <4> QED
        BY <4>1, RemoveMemberEffect
    <3>3. CASE c.c = "rmRoute"
      <4>1. RemoveZoneRoute(c.z, c.b) /\ \A f : Clears(c, f) <=> f = <<"route", c.z, c.b>>
        BY <3>3 DEF KernelCall, Clears
      <4> QED
        BY <4>1, RemoveZoneRouteEffect
    <3>4. CASE c.c = "rmZone"
      <4>1. DeleteZoneSets(c.z) /\ \A f : Clears(c, f) <=> AboutZone(c.z, f)
        BY <3>4 DEF KernelCall, Clears
      <4> QED
        BY <4>1, DeleteZoneSetsEffect
    <3> QED
      BY <1>1, <3>1, <3>2, <3>3, <3>4 DEF Removals
  <2>2. \A f \in Want : ~ Clears(c, f)
    BY <1>1 DEF Safe
  <2> QED
    BY <2>1, <2>2
<1>2. CASE c.c = "setPeer"
  <2>1. SetPeerRoutes(c.k, c.ip, c.rs)
    BY <1>2 DEF KernelCall
  <2>2. PICK n \in DOMAIN node : NodeIs(n, c.k, c.ip) /\ c.rs = RoutesForNode(n)
    BY <1>2 DEF Safe
  <2>3. SetPeerRoutes(node[n].key, node[n].ip, RoutesForNode(n)) /\ c.k = node[n].key
    BY <2>1, <2>2 DEF NodeIs
  <2>4. /\ \A f \in Want : f \in Have => f \in Have'
        /\ \A f \in Have' : f \in Want \/ (f \in Have /\ ~ AllowsTo(c.k, f))
    BY <2>3, SetPeerEffect
  <2>5. \A f : Clears(c, f) <=> AllowsTo(c.k, f)
    BY <1>2 DEF Clears
  <2> QED
    BY <2>4, <2>5
<1> QED
  BY <1>1, <1>2

\* The tail of a safe list is safe.
LEMMA RestSafe ==
    ASSUME NEW C, NEW s \in Seq(C), s # <<>>, SafeList(s)
    PROVE  /\ Safe(Head(s)) /\ SafeList(Tail(s))
           /\ Head(s).c = "detach" => Tail(s) = <<>>
           /\ Head(s).c # "rmMember" /\ Head(s).c # "detach" =>
                 \A i \in DOMAIN Tail(s) : Tail(s)[i].c # "detach"
<1>1. /\ Len(s) \in Nat \ {0} /\ DOMAIN s = 1 .. Len(s) /\ Head(s) = s[1]
      /\ DOMAIN Tail(s) = 1 .. (Len(s) - 1) /\ Len(Tail(s)) = Len(s) - 1
  OBVIOUS
<1>2. \A i \in DOMAIN Tail(s) : Tail(s)[i] = s[i + 1] /\ i + 1 \in DOMAIN s
  OBVIOUS
<1>3. \A i \in DOMAIN s : Safe(s[i])
  BY DEF SafeList
<1>4. \A i \in DOMAIN s : s[i].c = "detach" => i = Len(s) /\ \A h \in 1 .. (i - 1) : s[h].c = "rmMember"
  BY DEF SafeList
<1>5. ASSUME NEW i \in DOMAIN Tail(s) PROVE Safe(Tail(s)[i])
  BY <1>2, <1>3
<1>6. ASSUME NEW i \in DOMAIN Tail(s), Tail(s)[i].c = "detach"
      PROVE  /\ i = Len(Tail(s)) /\ \A h \in 1 .. (i - 1) : Tail(s)[h].c = "rmMember"
             /\ s[1].c = "rmMember"
  <2>1. s[i + 1].c = "detach" /\ i + 1 \in DOMAIN s
    BY <1>2, <1>6
  <2>2. i + 1 = Len(s) /\ \A h \in 1 .. ((i + 1) - 1) : s[h].c = "rmMember"
    BY <1>4, <2>1
  <2>3. ASSUME NEW h \in 1 .. (i - 1) PROVE Tail(s)[h].c = "rmMember"
    <3>1. h \in DOMAIN Tail(s) /\ h + 1 \in 1 .. ((i + 1) - 1)
      BY <1>1, <1>6
    <3> QED
      BY <1>2, <2>2, <3>1
  <2>4. 1 \in 1 .. ((i + 1) - 1)
    BY <1>1
  <2> QED
    BY <1>1, <2>2, <2>3, <2>4
<1>7. SafeList(Tail(s))
  BY <1>5, <1>6 DEF SafeList
<1>8. Head(s).c = "detach" => Tail(s) = <<>>
  <2>1. ASSUME Head(s).c = "detach" PROVE Len(s) = 1
    BY <1>1, <1>4, <2>1
  <2>2. \A t \in Seq(C) : Len(t) = 0 => t = <<>>
    OBVIOUS
  <2>3. Tail(s) \in Seq(C)
    OBVIOUS
  <2> QED
    BY <1>1, <2>1, <2>2, <2>3
<1> QED
  BY <1>1, <1>3, <1>6, <1>7, <1>8

\* What a request clears away from now on, or with the call it makes now.
LEMMA HeadOrRest ==
    ASSUME NEW C, NEW s \in Seq(C), s # <<>>, NEW pre \in Seq(C), NEW f,
           \E i \in DOMAIN s : Clears(s[i], f)
    PROVE  Clears(Head(s), f) \/ \E c : Lists(pre \o Tail(s), c) /\ Clears(c, f)
<1>1. PICK i \in DOMAIN s : Clears(s[i], f)
  OBVIOUS
<1>2. PICK c : c = s[i]
  OBVIOUS
<1>3. CASE s[i] # Head(s)
  <2>1. Lists(pre \o Tail(s), c)
    BY <1>2, <1>3, StillListed DEF Lists
  <2> QED
    BY <1>1, <1>2, <2>1
<1> QED
  BY <1>1, <1>3

\* A kernel call of the tail.
LEMMA TailKernelSync ==
    ASSUME NEW p \in Procs, Ongoing(p), TodoKernel(p)
    PROVE  Tracks(job[p])' /\ Follows
<1> DEFINE j == job[p]
<1>0. JobInv /\ Keyed /\ IInv /\ Tracks(j) /\ TypeInv /\ faults \in Nat /\ Shaped
  BY DEF Ongoing, Keyed, TypeInv, CountersOK
<1>1. j.pc = "todo" /\ At(p, "todo") /\ NoDb /\ BestEffort(p, Rest(p))
  BY DEF TodoKernel, At
<1>2. PICK s, C : s = j.todo /\ C = Calls(lastId)
  OBVIOUS
<1>3. s \in Seq(C) /\ s # <<>>
  BY <1>0, <1>1, <1>2 DEF TypeInv, RequestsOK, Request
<1>4. PICK c : c = Head(s)
  OBVIOUS
<1>5. c = Next1(p) /\ Tail(s) = Rest(p)
  BY <1>2, <1>4 DEF Next1, Rest
<1>6. /\ SafeList(s) /\ \A f \in Want : f \in Have
      /\ faults = 0 => \A f \in Have : f \in Want \/ \E i \in DOMAIN s : Clears(s[i], f)
  BY <1>0, <1>1, <1>2 DEF Tracks, Accurate, Late, Left
<1>7. PICK r : r = Tail(s)
  OBVIOUS
<1>8. BestEffort(p, r) /\ Safe(c) /\ SafeList(r)
  BY <1>1, <1>3, <1>4, <1>5, <1>6, <1>7, RestSafe
<1>9. SafeList(r)'
  <2>1. \A x : Safe(x)' <=> Safe(x)
    BY <1>1, CallsStand
  <2>2. \A i \in DOMAIN r : Safe(r[i])
    BY <1>8 DEF SafeList
  <2>3. \A i \in DOMAIN r : Safe(r[i])'
    <3>1. ASSUME NEW i \in DOMAIN r PROVE Safe(r[i])'
      <4>1. PICK x : x = r[i]
        OBVIOUS
      <4>2. Safe(x)'
        BY <2>1, <2>2, <4>1
      <4> QED
        BY <4>1, <4>2 DEF Safe, Clears
    <3> QED
      BY <3>1
  <2> QED
    BY <1>8, <2>3 DEF SafeList
<1>10. Accurate(job[p])'
  BY <1>0, <1>8, <1>9, TailAccurate
<1>11. Want' = Want
  BY <1>1, NoDbNoChange
<1>12. ASSUME NEW f, \E i \in DOMAIN s : Clears(s[i], f), ~ Clears(c, f) PROVE Left(job[p], f)'
  <2>1. <<>> \in Seq(C) /\ <<>> \o Tail(s) = Tail(s)
    BY <1>3
  <2>2. PICK x : Lists(Tail(s), x) /\ Clears(x, f)
    BY <1>3, <1>4, <1>12, <2>1, HeadOrRest
  <2>3. Clears(x, f)'
    BY <1>1, <2>2, CallsStand
  <2> QED
    BY <1>0, <1>7, <1>8, <2>2, <2>3, TailLeft
<1>13. CASE KernelCall(c) /\ NoFault
  <2>1. c.c \in Removals \cup {"setPeer"}
    BY <1>5 DEF TodoKernel, Removals
  <2>2. /\ \A f \in Have' : f \in Want \/ (f \in Have /\ ~ Clears(c, f))
        /\ \A f \in Want : f \in Have => f \in Have'
    BY <1>0, <1>8, <1>13, <2>1, TailCallEffect
  <2>3. faults' = 0 => \A f \in Have' : f \in Want' \/ Left(job[p], f)'
    BY <1>6, <1>11, <1>12, <1>13, <2>2 DEF NoFault
  <2> QED
    BY <1>6, <1>10, <1>11, <2>2, <2>3 DEF Tracks, Follows
<1>14. CASE Fault("kernel") /\ NoKernel
  <2>1. Have' = Have /\ Follows /\ faults' # 0
    BY <1>0, <1>14, NoKernelNoChange DEF Fault
  <2> QED
    BY <1>6, <1>10, <1>11, <2>1 DEF Tracks
<1> QED
  BY <1>5, <1>13, <1>14 DEF TodoKernel

\* A sequence is one of its own elements.
LEMMA OwnElements ==
    ASSUME NEW C, NEW r \in Seq(C) PROVE r \in Seq({r[i] : i \in DOMAIN r})
<1> DEFINE E == {r[i] : i \in DOMAIN r}
<1>1. r \in [1 .. Len(r) -> E] /\ Len(r) \in Nat
  OBVIOUS
<1> HIDE DEF E
<1> QED
  BY <1>1

\* The tail reads the routes a peer is to have.
LEMMA TailRecomputeSync ==
    ASSUME NEW p \in Procs, Ongoing(p), TodoRecompute(p)
    PROVE  Tracks(job[p])' /\ Follows
<1> DEFINE j == job[p]
<1>0. JobInv /\ Keyed /\ IInv /\ Tracks(j) /\ TypeInv /\ faults \in Nat
  BY DEF Ongoing, Keyed, TypeInv, CountersOK
<1>1. j.pc = "todo" /\ At(p, "todo") /\ NoDb /\ NoKernel
  BY DEF TodoRecompute, At
<1>2. PICK s : s = j.todo
  OBVIOUS
<1>3. s \in Seq(Calls(lastId)) /\ s # <<>>
  BY <1>0, <1>1, <1>2 DEF TypeInv, RequestsOK, Request
<1>4. PICK c : c = Head(s)
  OBVIOUS
<1>5. c = Next1(p) /\ Tail(s) = Rest(p)
  BY <1>2, <1>4 DEF Next1, Rest
<1>6. /\ SafeList(s) /\ \A f \in Want : f \in Have
      /\ faults = 0 => \A f \in Have : f \in Want \/ \E i \in DOMAIN s : Clears(s[i], f)
  BY <1>0, <1>1, <1>2 DEF Tracks, Accurate, Late, Left
<1>7. PICK r : r = Tail(s)
  OBVIOUS
<1>8. c.c \in {"recompute", "recomputeByID"}
  BY <1>5 DEF TodoRecompute
<1>9. Safe(c) /\ SafeList(r) /\ \A i \in DOMAIN r : r[i].c # "detach"
  BY <1>3, <1>4, <1>6, <1>7, <1>8, RestSafe
<1>10. Want' = Want /\ Have' = Have /\ Follows
  BY <1>1, NoDbNoChange, NoKernelNoChange
<1>11. r \in Seq({r[i] : i \in DOMAIN r})
  <2>1. r \in Seq(Calls(lastId))
    BY <1>3, <1>7
  <2> QED
    BY <2>1, OwnElements
<1>12. CASE Fault("db") /\ BestEffort(p, Rest(p))
  <2>1. PICK C : C = {r[i] : i \in DOMAIN r}
    OBVIOUS
  <2>2. ASSUME NEW x \in C PROVE Safe(x)' /\ x.c # "detach"
    <3>1. Safe(x) /\ x.c # "detach"
      BY <1>9, <2>1 DEF SafeList
    <3> QED
      BY <1>1, <3>1, CallsStand
  <2>3. SafeList(r)'
    BY <1>11, <2>1, <2>2, SafeCalls
  <2>4. Accurate(job[p])'
    BY <1>0, <1>5, <1>7, <1>12, <2>3, TailAccurate
  <2>5. faults' # 0
    BY <1>0, <1>12 DEF Fault
  <2> QED
    BY <1>6, <1>10, <2>4, <2>5 DEF Tracks
<1>13. ASSUME NEW k, NEW ip, NEW n \in DOMAIN node, NodeIs(n, k, ip), NEW pre,
              pre = <<[c |-> "setPeer", k |-> k, ip |-> ip, rs |-> RoutesForNode(n)]>>,
              BestEffort(p, pre \o Rest(p)), NoFault,
              \A f : Clears(c, f) => AllowsTo(k, f)
       PROVE  Tracks(job[p])' /\ Follows
  <2>1. PICK rs : rs = RoutesForNode(n)
    OBVIOUS
  <2>2. PICK d : d = [c |-> "setPeer", k |-> k, ip |-> ip, rs |-> rs]
    OBVIOUS
  <2>3. d.c = "setPeer" /\ d.k = k /\ d.ip = ip /\ d.rs = RoutesForNode(n) /\ pre = <<d>>
    BY <1>13, <2>1, <2>2
  <2>4. Safe(d)
    BY <1>13, <2>3 DEF Safe, Removals
  <2>5. PICK C : C = {r[i] : i \in DOMAIN r} \cup {d, c}
    OBVIOUS
  <2>6. PICK E : E = {r[i] : i \in DOMAIN r} \cup {d}
    OBVIOUS
  <2>7. ASSUME NEW x \in E PROVE Safe(x)' /\ x.c # "detach"
    <3>1. Safe(x) /\ x.c # "detach"
      BY <1>9, <2>3, <2>4, <2>6 DEF SafeList
    <3> QED
      BY <1>1, <3>1, CallsStand
  <2>8. PICK q : q = pre \o r
    OBVIOUS
  <2>9. q \in Seq(E) /\ BestEffort(p, q)
    <3>1. r \in Seq(E) /\ pre \in Seq(E)
      BY <1>11, <2>3, <2>6
    <3>2. q \in Seq(E)
      BY <2>8, <3>1
    <3>3. q = pre \o Rest(p)
      BY <1>5, <1>7, <2>8
    <3> QED
      BY <1>13, <3>2, <3>3
  <2>10. Accurate(job[p])'
    BY <1>0, <2>7, <2>9, SafeCalls, TailAccurate
  <2>11. ASSUME NEW f, \E i \in DOMAIN s : Clears(s[i], f) PROVE Left(job[p], f)'
    <3>1. PICK B : B = Calls(lastId) \cup {d}
      OBVIOUS
    <3>2. s \in Seq(B) /\ pre \in Seq(B)
      BY <1>3, <2>3, <3>1
    <3>3. Clears(c, f) \/ \E x : Lists(q, x) /\ Clears(x, f)
      BY <1>3, <1>4, <1>7, <2>8, <2>11, <3>2, HeadOrRest
    <3>4. Clears(c, f) => Clears(d, f)
      BY <1>13, <2>3 DEF Clears
    <3>5. Lists(q, d)
      <4>1. 1 \in DOMAIN q /\ q[1] = d
        <5>1. r \in Seq(B)
          BY <1>3, <1>7, <3>2
        <5> QED
          BY <2>3, <2>8, <3>2, <5>1
      <4> QED
        BY <4>1 DEF Lists
    <3>6. PICK x : Lists(q, x) /\ Clears(x, f)
      BY <3>3, <3>4, <3>5
    <3>7. Clears(x, f)'
      BY <1>1, <3>6, CallsStand
    <3> QED
      BY <1>0, <2>9, <3>6, <3>7, TailLeft
  <2> QED
    BY <1>6, <1>10, <1>13, <2>10, <2>11 DEF Tracks, NoFault
<1>14. CASE c.c = "recompute"
  <2>1. NodeIs(c.n, c.k, c.ip) /\ c.n \in DOMAIN node
    BY <1>9, <1>14 DEF Safe, NodeIs
  <2>2. \A f : Clears(c, f) => AllowsTo(c.k, f)
    BY <1>14 DEF Clears, Removals
  <2>3. PICK pre : pre = <<[c |-> "setPeer", k |-> c.k, ip |-> c.ip, rs |-> RoutesForNode(c.n)]>>
    OBVIOUS
  <2>4. (BestEffort(p, pre \o Rest(p)) /\ NoFault) \/ (Fault("db") /\ BestEffort(p, Rest(p)))
    BY <1>5, <1>14, <2>3 DEF TodoRecompute
  <2> QED
    BY <1>12, <1>13, <2>1, <2>2, <2>3, <2>4
<1>15. CASE c.c = "recomputeByID"
  <2>1. c.n \in DOMAIN node /\ NodeIs(c.n, node[c.n].key, node[c.n].ip)
    BY <1>9, <1>15 DEF Safe, NodeIs
  <2>2. \A f : Clears(c, f) => AllowsTo(node[c.n].key, f)
    BY <1>15 DEF Clears, Removals
  <2>3. PICK pre : pre = <<[c |-> "setPeer", k |-> node[c.n].key, ip |-> node[c.n].ip, rs |-> RoutesForNode(c.n)]>>
    OBVIOUS
  <2>4. (BestEffort(p, pre \o Rest(p)) /\ NoFault) \/ (Fault("db") /\ BestEffort(p, Rest(p)))
    BY <1>5, <1>15, <2>1, <2>3 DEF TodoRecompute
  <2> QED
    BY <1>12, <1>13, <2>1, <2>2, <2>3, <2>4
<1> QED
  BY <1>8, <1>14, <1>15

\* The tail detaches what a node announced in the zone it left.
LEMMA TailDetachSync ==
    ASSUME NEW p \in Procs, Ongoing(p), TodoDetach(p)
    PROVE  Tracks(job[p])' /\ Follows
<1> DEFINE j == job[p]
<1>0. JobInv /\ Keyed /\ IInv /\ IInv' /\ Tracks(j) /\ TypeInv /\ faults \in Nat
  BY DEF Ongoing, Keyed, TypeInv, CountersOK
<1>1. j.pc = "todo" /\ NoKernel /\ Have' = Have /\ Follows
  BY NoKernelNoChange DEF TodoDetach, At
<1>2. PICK s : s = j.todo
  OBVIOUS
<1>3. s \in Seq(Calls(lastId)) /\ s # <<>>
  BY <1>0, <1>1, <1>2 DEF TypeInv, RequestsOK, Request
<1>4. PICK c : c = Head(s)
  OBVIOUS
<1>5. c = Next1(p) /\ Tail(s) = Rest(p) /\ c.c = "detach"
  BY <1>2, <1>4 DEF Next1, Rest, TodoDetach
<1>6. /\ SafeList(s) /\ \A f \in Want : f \in Have
      /\ faults = 0 => \A f \in Have : f \in Want \/ \E i \in DOMAIN s : Clears(s[i], f)
  BY <1>0, <1>1, <1>2 DEF Tracks, Accurate, Late, Left
<1>7. NodeIs(c.n, c.k, c.ip) /\ Tail(s) = <<>>
  BY <1>3, <1>4, <1>5, <1>6, RestSafe DEF Safe
<1>8. \A f : ~ \E i \in DOMAIN s : Clears(s[i], f)
  <2>1. \A f : ~ Clears(c, f)
    BY <1>5 DEF Clears
  <2>2. <<>> \in Seq(Calls(lastId))
    OBVIOUS
  <2>3. <<>> \o Tail(s) = <<>>
    BY <1>7
  <2>4. \A x : ~ Lists(<<>>, x)
    BY DEF Lists
  <2> QED
    BY <1>3, <1>4, <2>1, <2>2, <2>3, <2>4, HeadOrRest
<1> DEFINE gone == OfNodeZone(c.n, c.z)
           S    == {[c |-> "rmRoute", z |-> c.z, b |-> ann[t[1]].synth] : t \in gone}
           tail == IF Reclaimed(gone) # {} THEN <<Recompute(c)>> ELSE <<>>
<1>9. CASE DetachSet(gone) /\ BestEffort(p, SetToSeq(S) \o tail \o Rest(p))
  <2>1. PICK d : d = Recompute(c)
    OBVIOUS
  <2>2. d.c = "recompute" /\ d.n = c.n /\ d.k = c.k /\ d.ip = c.ip
    BY <2>1 DEF Recompute
  <2>3. IsFiniteSet(S)
    <3> DEFINE g == [t \in gone |-> [c |-> "rmRoute", z |-> c.z, b |-> ann[t[1]].synth]]
    <3>1. IsFiniteSet(gone)
      BY <1>0, RowsFinite DEF OfNodeZone
    <3>2. DOMAIN g = gone /\ {g[t] : t \in gone} = S
      OBVIOUS
    <3> HIDE DEF g, S, gone
    <3> QED
      BY <3>1, <3>2, FiniteValues
  <2>4. PICK T : T = S
    OBVIOUS
  <2>5. PICK gn : gn = gone
    OBVIOUS
  <2>6. /\ \A x \in T : \E t \in gn : x = [c |-> "rmRoute", z |-> c.z, b |-> ann[t[1]].synth]
        /\ \A t \in gn : [c |-> "rmRoute", z |-> c.z, b |-> ann[t[1]].synth] \in T
    BY <2>4, <2>5
  <2>7. PICK q : q = tail
    OBVIOUS
  <2>8. (Reclaimed(gn) # {} /\ q = <<d>>) \/ (Reclaimed(gn) = {} /\ q = <<>>)
    BY <2>1, <2>5, <2>7
  <2>9. PICK C : C = T \cup {d}
    OBVIOUS
  <2>10. SetToSeq(T) \in Seq(C) /\ q \in Seq(C)
    <3>1. <<d>> \in Seq(C) /\ <<>> \in Seq(C)
      BY <2>9
    <3>2. T \subseteq C /\ IsFiniteSet(T)
      BY <2>3, <2>4, <2>9
    <3>3. SetToSeq(T) \in Seq(C)
      BY <3>2, ListedCalls
    <3> QED
      BY <2>8, <3>1, <3>3, Zenon
  <2>11. PICK w : w = SetToSeq(T) \o q
    OBVIOUS
  <2>12. w \in Seq(C) /\ BestEffort(p, w) /\ \A x : Lists(w, x) <=> Lists(SetToSeq(T), x) \/ Lists(q, x)
    <3>1. w \in Seq(C)
      BY <2>10, <2>11
    <3>2. w \o <<>> = w
      BY <3>1
    <3>3. SetToSeq(S) \o tail \o Rest(p) = w
      BY <1>5, <1>7, <2>4, <2>7, <2>11, <3>2
    <3>4. BestEffort(p, w)
      BY <1>9, <3>3
    <3>5. \A x : Lists(w, x) <=> Lists(SetToSeq(T), x) \/ Lists(q, x)
      BY <2>10, <2>11, ListsBoth
    <3> QED
      BY <3>1, <3>4, <3>5
  <2>13. \A x \in T : Lists(w, x)
    <3>1. IsFiniteSet(T)
      BY <2>3, <2>4
    <3> QED
      BY <2>12, <3>1, SetListed
  <2>14. Reclaimed(gn) # {} => Lists(w, d)
    <3>1. 1 \in DOMAIN <<d>> /\ <<d>>[1] = d
      OBVIOUS
    <3>2. Lists(<<d>>, d)
      BY <3>1 DEF Lists
    <3> QED
      BY <2>8, <2>12, <3>2
  <2>15. /\ DetachSet(gn) /\ UNCHANGED node
         /\ \A t \in gn : t \in att /\ t[2] = c.z /\ ann[t[1]].node = c.n
    BY <1>9, <2>5 DEF DetachSet, OfNodeZone
  <2> HIDE DEF S, tail, gone
  <2>16. \A f : f \in Want' <=>
            /\ f \in Want
            /\ \A t \in gn \cap att : f # <<"route", t[2], ann[t[1]].synth>>
            /\ \A a \in Reclaimed(gn) : f # <<"allows", node[ann[a].node].key, ann[a].synth>>
    BY <1>0, <2>15, AttachmentsRemoved
  <2>17. ASSUME NEW x \in C PROVE Safe(x)' /\ x.c # "detach"
    <3>1. CASE x \in T
      <4>1. PICK t \in gn : x = [c |-> "rmRoute", z |-> c.z, b |-> ann[t[1]].synth]
        BY <2>6, <3>1
      <4>2. x.c = "rmRoute" /\ x.z = t[2] /\ x.b = ann[t[1]].synth /\ t \in gn \cap att
        BY <2>15, <4>1
      <4>3. \A f \in Want' : f # <<"route", x.z, x.b>>
        BY <2>16, <4>2
      <4> QED
        BY <4>2, <4>3 DEF Safe, Clears, Removals
    <3>2. CASE x = d
      BY <1>7, <2>2, <2>15, <3>2 DEF Safe, Removals, NodeIs
    <3> QED
      BY <2>9, <3>1, <3>2
  <2>18. Accurate(job[p])'
    BY <1>0, <2>12, <2>17, SafeCalls, TailAccurate
  <2>19. ASSUME NEW f \in Want, f \notin Want' PROVE Left(job[p], f)'
    <3>1. ASSUME NEW t \in gn \cap att, f = <<"route", t[2], ann[t[1]].synth>> PROVE Left(job[p], f)'
      <4>1. PICK x : x = [c |-> "rmRoute", z |-> c.z, b |-> ann[t[1]].synth]
        OBVIOUS
      <4>2. x \in T
        BY <2>6, <4>1
      <4>3. x.c = "rmRoute" /\ x.z = t[2] /\ x.b = ann[t[1]].synth
        BY <2>15, <4>1
      <4>4. Clears(x, f)'
        BY <3>1, <4>3 DEF Clears
      <4> QED
        BY <1>0, <2>12, <2>13, <4>2, <4>4, TailLeft
    <3>2. ASSUME NEW a \in Reclaimed(gn), f = <<"allows", node[ann[a].node].key, ann[a].synth>>
          PROVE  Left(job[p], f)'
      <4>1. ann[a].node = c.n
        BY <2>15 DEF Reclaimed
      <4>2. Clears(d, f)'
        BY <1>7, <2>2, <3>2, <4>1 DEF Clears, AllowsTo, NodeIs
      <4> QED
        BY <1>0, <2>12, <2>14, <4>2, TailLeft
    <3> QED
      BY <2>16, <2>19, <3>1, <3>2
  <2>20. \A f \in Want' : f \in Have'
    BY <1>1, <1>6, <2>16
  <2>21. faults' = 0 => \A f \in Have' : f \in Want' \/ Left(job[p], f)'
    BY <1>1, <1>6, <1>8, <2>19 DEF Ongoing
  <2> QED
    BY <1>1, <2>18, <2>20, <2>21 DEF Tracks
<1>10. CASE Fault("db") /\ BestEffort(p, Rest(p)) /\ NoDb
  <2>1. job'[p].pc = "idle"
    BY <1>0, <1>5, <1>7, <1>10, TailBegins
  <2>2. faults' # 0 /\ Want' = Want
    BY <1>0, <1>10, NoDbNoChange DEF Fault
  <2> QED
    BY <1>1, <1>6, <2>1, <2>2, Unburdened DEF Tracks
<1> QED
  BY <1>5, <1>9, <1>10 DEF TodoDetach, DetachAllForNodeZone

-----------------------------------------------------------------------------
(* The mirror *)

\* Every step of the only request keeps the kernel in step with the database.
LEMMA RequestSync ==
    ASSUME NEW p \in Procs, Ongoing(p), Start(p) \/ Step(p)
    PROVE  Tracks(job[p])' /\ Follows
<1>1. CASE Start(p)
  BY <1>1, RegisterSync, DeleteNodeSync, CreateZoneSync, JoinSync, LeaveSync, PasswordSync,
     DeleteZoneSync, AnnounceTxSync, WithdrawSync, DeleteUserSync DEF Start
<1>2. CASE Step(p)
  BY <1>2, RegisterSync, RegisterPeerSync, DeleteNodeSync, CreateZoneSync, CreateZoneKernelSync,
     JoinSync, LeaveSync, PasswordSync, DeleteZoneSync, AnnounceTxSync, AnnounceKernelSync,
     AnnounceUndoSync, WithdrawSync, TailKernelSync, TailRecomputeSync, TailDetachSync DEF Step
<1> QED
  BY <1>1, <1>2

-----------------------------------------------------------------------------
(* The shape of the kernel state *)

ZoneSetsOf(s) == [members |-> s.members, routes |-> s.routes]

\* Peers are a function, a zone's sets are the two sets and nothing else.
KernelShape ==
    /\ peers = [k \in DOMAIN peers |-> peers[k]]
    /\ nft = [z \in DOMAIN nft |-> nft[z]]
    /\ \A z \in DOMAIN nft : nft[z] = ZoneSetsOf(nft[z])

\* The calls the handlers make.
HandlerCall ==
    \/ \E k, ip, rs : SetPeerRoutes(k, ip, rs)
    \/ \E k : RemovePeer(k)
    \/ \E z : AddZone(z) \/ DeleteZoneSets(z)
    \/ \E z, ip : AddMember(z, ip) \/ RemoveMember(z, ip)
    \/ \E z, b : AddZoneRoute(z, b) \/ RemoveZoneRoute(z, b)

\* Every step of a request leaves the kernel alone or is one such call.
LEMMA RequestCalls ==
    ASSUME NEW p \in Procs, Start(p) \/ Step(p) PROVE NoKernel \/ HandlerCall
<1>1. CASE Start(p)
  BY <1>1 DEF Start, RegisterStart, DeleteNodeStart, CreateZoneStart, JoinStart, LeaveStart, KickStart,
         PasswordStart, DeleteZoneStart, AnnounceStart, WithdrawStart, DeleteUserStart
<1>2. CASE RegisterAddPeer(p) \/ AnnouncePeer(p)
  BY <1>2 DEF RegisterAddPeer, AnnouncePeer, AddPeer, HandlerCall
<1>3. CASE CreateZoneAddZone(p) \/ CreateZoneMember(p) \/ JoinMember(p) \/ AnnounceZoneRoute(p)
  BY <1>3 DEF CreateZoneAddZone, CreateZoneMember, JoinMember, AnnounceZoneRoute, HandlerCall
<1>4. CASE TodoKernel(p)
  BY <1>4 DEF TodoKernel, KernelCall, HandlerCall
<1>5. CASE Step(p) /\ ~ NoKernel /\ ~ (RegisterAddPeer(p) \/ AnnouncePeer(p)) /\ ~ TodoKernel(p)
           /\ ~ (CreateZoneAddZone(p) \/ CreateZoneMember(p) \/ JoinMember(p) \/ AnnounceZoneRoute(p))
  BY <1>5 DEF Step, RegisterInsert, RegisterRealloc, RegisterUndo, DeleteNodeSnapshot,
         DeleteNodeLookup, DeleteNodeRow, CreateZoneInsert, CreateZoneJoin, CreateZoneUndo, JoinRow,
         JoinUndo, LeaveRow, PasswordUpdate, DeleteZoneDetach, DeleteZoneRow, AnnounceTx,
         AnnounceRoutes, AnnounceUndo, WithdrawDetach, TodoRecompute, TodoDetach
<1> QED
  BY <1>1, <1>2, <1>3, <1>4, <1>5

\* A call keeps the shape.
LEMMA CallKeepsShape ==
    ASSUME KernelShape, HandlerCall PROVE KernelShape'
<1>1. ASSUME NEW k, NEW ip, NEW rs, SetPeerRoutes(k, ip, rs) PROVE KernelShape'
  <2>1. peers' = [x \in DOMAIN peers' |-> peers'[x]]
    BY <1>1 DEF SetPeerRoutes
  <2>2. nft' = nft
    BY <1>1 DEF SetPeerRoutes
  <2> QED
    BY <2>1, <2>2 DEF KernelShape
<1>2. ASSUME NEW k, RemovePeer(k) PROVE KernelShape'
  <2>1. peers' = [x \in DOMAIN peers' |-> peers'[x]]
    BY <1>2 DEF RemovePeer
  <2>2. nft' = nft
    BY <1>2 DEF RemovePeer
  <2> QED
    BY <2>1, <2>2 DEF KernelShape
<1>3. ASSUME NEW z, AddZone(z) PROVE KernelShape'
  <2>1. peers' = peers /\ nft' = [x \in DOMAIN nft' |-> nft'[x]] /\ DOMAIN nft' = DOMAIN nft \cup {z}
    BY <1>3 DEF AddZone
  <2>2. \A y \in DOMAIN nft' : nft'[y] = IF y = z THEN [members |-> {}, routes |-> {}] ELSE nft[y]
    BY <1>3 DEF AddZone
  <2>3. ASSUME NEW y \in DOMAIN nft' PROVE nft'[y] = ZoneSetsOf(nft'[y])
    BY <2>1, <2>2 DEF KernelShape, ZoneSetsOf
  <2> QED
    BY <2>1, <2>3 DEF KernelShape
<1>4. ASSUME NEW z, DeleteZoneSets(z) PROVE KernelShape'
  <2>1. peers' = peers /\ nft' = [x \in DOMAIN nft' |-> nft'[x]]
    BY <1>4 DEF DeleteZoneSets
  <2>2. \A y \in DOMAIN nft' : y \in DOMAIN nft /\ nft'[y] = nft[y]
    BY <1>4 DEF DeleteZoneSets
  <2> QED
    BY <2>1, <2>2 DEF KernelShape
<1>5. ASSUME NEW z, NEW s, nft' = [nft EXCEPT ![z] = s], s = ZoneSetsOf(s), UNCHANGED peers PROVE KernelShape'
  <2>1. nft' = [x \in DOMAIN nft' |-> nft'[x]] /\ DOMAIN nft' = DOMAIN nft
    BY <1>5
  <2>2. \A y \in DOMAIN nft' : nft'[y] = IF y = z THEN s ELSE nft[y]
    BY <1>5
  <2> QED
    BY <1>5, <2>1, <2>2 DEF KernelShape
<1>6. ASSUME NEW z, NEW s, nft' = [y \in DOMAIN nft |-> IF y = z THEN s ELSE nft[y]], z \in DOMAIN nft => s = ZoneSetsOf(s),
             UNCHANGED peers
      PROVE  KernelShape'
  <2>1. nft' = [x \in DOMAIN nft' |-> nft'[x]] /\ DOMAIN nft' = DOMAIN nft
    BY <1>6
  <2>2. \A y \in DOMAIN nft' : nft'[y] = IF y = z THEN s ELSE nft[y]
    BY <1>6
  <2> QED
    BY <1>6, <2>1, <2>2 DEF KernelShape
<1>7. ASSUME NEW z \in DOMAIN nft, NEW S
      PROVE  /\ [nft[z] EXCEPT !.members = S] = ZoneSetsOf([nft[z] EXCEPT !.members = S])
             /\ [nft[z] EXCEPT !.routes = S] = ZoneSetsOf([nft[z] EXCEPT !.routes = S])
  <2>1. PICK M, R : nft[z] = [members |-> M, routes |-> R]
    BY DEF KernelShape, ZoneSetsOf
  <2> QED
    BY <2>1 DEF ZoneSetsOf
<1>8. ASSUME NEW z, NEW ip, AddMember(z, ip) \/ RemoveMember(z, ip) PROVE KernelShape'
  <2>1. CASE AddMember(z, ip)
    BY <1>5, <1>7, <2>1 DEF AddMember
  <2>2. CASE RemoveMember(z, ip)
    <3> DEFINE s == [nft[z] EXCEPT !.members = @ \ {ip}]
    <3>1. nft' = [y \in DOMAIN nft |-> IF y = z THEN s ELSE nft[y]] /\ UNCHANGED peers
      BY <2>2 DEF RemoveMember
    <3>2. z \in DOMAIN nft => s = ZoneSetsOf(s)
      BY <1>7
    <3> HIDE DEF s
    <3> QED
      BY <1>6, <3>1, <3>2, Zenon
  <2> QED
    BY <1>8, <2>1, <2>2
<1>9. ASSUME NEW z, NEW b, AddZoneRoute(z, b) \/ RemoveZoneRoute(z, b) PROVE KernelShape'
  <2>1. CASE AddZoneRoute(z, b)
    BY <1>5, <1>7, <2>1 DEF AddZoneRoute, RouteFits
  <2>2. CASE RemoveZoneRoute(z, b)
    <3> DEFINE s == [nft[z] EXCEPT !.routes = @ \ {b}]
    <3>1. nft' = [y \in DOMAIN nft |-> IF y = z THEN s ELSE nft[y]] /\ UNCHANGED peers
      BY <2>2 DEF RemoveZoneRoute
    <3>2. z \in DOMAIN nft => s = ZoneSetsOf(s)
      BY <1>7
    <3> HIDE DEF s
    <3> QED
      BY <1>6, <3>1, <3>2, Zenon
  <2> QED
    BY <1>9, <2>1, <2>2
<1> QED
  BY <1>1, <1>2, <1>3, <1>4, <1>8, <1>9 DEF HandlerCall

\* What the database says has that shape.
LEMMA DbShape ==
    /\ PeersFromDb = [k \in DOMAIN PeersFromDb |-> PeersFromDb[k]]
    /\ ZonesFromDb = [z \in DOMAIN ZonesFromDb |-> ZonesFromDb[z]]
    /\ \A z \in DOMAIN ZonesFromDb : ZonesFromDb[z] = ZoneSetsOf(ZonesFromDb[z])
<1>1. PeersFromDb = [k \in DOMAIN PeersFromDb |-> PeersFromDb[k]]
  BY DEF PeersFromDb
<1>2. ZonesFromDb = [z \in DOMAIN ZonesFromDb |-> ZonesFromDb[z]]
  BY DEF ZonesFromDb
<1>3. ASSUME NEW z \in DOMAIN ZonesFromDb PROVE ZonesFromDb[z] = ZoneSetsOf(ZonesFromDb[z])
  <2>1. \E M, R : ZonesFromDb[z] = [members |-> M, routes |-> R]
    BY DEF ZonesFromDb
  <2> QED
    BY <2>1 DEF ZoneSetsOf
<1> QED
  BY <1>1, <1>2, <1>3

\* So every step keeps it.
LEMMA ShapeStep ==
    ASSUME KernelShape, [NextRelay]_rvars PROVE KernelShape'
<1>1. ASSUME NoKernel PROVE KernelShape'
  BY <1>1 DEF NoKernel, kvars, KernelShape
<1>2. CASE \E p \in Procs : Start(p) \/ Step(p)
  BY <1>1, <1>2, RequestCalls, CallKeepsShape
<1>3. CASE NewUser \/ Crash
  BY <1>1, <1>3 DEF NewUser, Crash
<1>4. CASE Boot
  <2>1. ASSUME NEW ps, ReplacePeers(ps), ps = [k \in DOMAIN ps |-> ps[k]] PROVE KernelShape'
    BY <2>1 DEF ReplacePeers, KernelShape
  <2>2. ASSUME NEW zs, BuildTable(zs), zs = [z \in DOMAIN zs |-> zs[z]], \A z \in DOMAIN zs : zs[z] = ZoneSetsOf(zs[z])
        PROVE  KernelShape'
    BY <2>2 DEF BuildTable, KernelShape
  <2>3. CASE BootInterface
    <3> DEFINE ps == [k \in {} |-> 0]
    <3>1. ps = [k \in DOMAIN ps |-> ps[k]] /\ ReplacePeers(ps)
      BY <2>3 DEF BootInterface
    <3> HIDE DEF ps
    <3> QED
      BY <2>1, <3>1
  <2>4. CASE BootPeers
    BY <2>1, <2>4, DbShape DEF BootPeers
  <2>5. CASE BootClear
    <3> DEFINE zs == [z \in {} |-> 0]
    <3>1. zs = [z \in DOMAIN zs |-> zs[z]] /\ DOMAIN zs = {} /\ BuildTable(zs)
      BY <2>5 DEF BootClear, ClearTable, BuildTable
    <3> HIDE DEF zs
    <3> QED
      BY <2>2, <3>1
  <2>6. CASE BootBuild
    BY <2>2, <2>6, DbShape DEF BootBuild
  <2> QED
    BY <1>4, <2>3, <2>4, <2>5, <2>6 DEF Boot
<1>5. CASE UNCHANGED rvars
  BY <1>1, <1>5 DEF rvars, NoKernel
<1> QED
  BY <1>2, <1>3, <1>4, <1>5 DEF NextRelay

-----------------------------------------------------------------------------
(* The invariant *)

\* What holds between the steps: the tables are keyed, the kernel has its shape,
\* and the request that is being served is all that separates the two.
MirrorInv ==
    /\ Keyed /\ TypeInv /\ JobInv /\ Starting /\ KernelShape
    /\ SingleFault \/ faults = 0 => Synchronized

\* A kernel that has just been rebuilt has what the database records.
LEMMA RebuiltTracks ==
    ASSUME KernelMatches, NEW p \in Procs, job[p] = Idle PROVE Tracks(job[p])
<1>1. Have = Want
  BY DEF KernelMatches, Have, Want
<1>2. job[p].pc = "idle"
  BY DEF Idle
<1>3. Accurate(job[p])
  BY <1>2 DEF Accurate, UndoPcs
<1> QED
  BY <1>1, <1>3 DEF Tracks

\* A request that waits while no row and no kernel state changes.
LEMMA WaitingTracks ==
    ASSUME UNCHANGED <<node, zone, member, ann, att, peers, nft, job, faults>>,
           NEW p \in Procs, Tracks(job[p])
    PROVE  Tracks(job[p])' /\ Want' = Want /\ Have' = Have
<1>1. Want' = Want /\ Have' = Have
  BY DEF Want, Have, Facts, PeerFacts, ZoneFacts, PeersFromDb, ZonesFromDb, RoutesForNode, AnnsOf, OfZone
<1> DEFINE j == job[p]
<1>2. Accurate(job[p])'
  BY <1>1 DEF Tracks, Accurate, NodeIs, NodeAt, AnnIs, MembersOf, RouteRows, SafeList, Safe, Clears,
         RoutesForNode, AnnsOf
<1>3. \A f : Late(job[p], f)' <=> Late(job[p], f)
  BY DEF Late, OnlyIn
<1>4. \A f : Left(job[p], f)' <=> Left(job[p], f)
  BY DEF Left, Clears
<1> QED
  BY <1>1, <1>2, <1>3, <1>4 DEF Tracks

\* What a request's step finds.
LEMMA RequestOngoing ==
    ASSUME MirrorInv, SingleFault \/ faults' = 0, Keyed', JobInv',
           NEW p \in Procs, Start(p) \/ Step(p)
    PROVE  Ongoing(p)
<1>1. phase = "serving"
  BY StartServes, StepBusy DEF MirrorInv, Starting
<1>2. faults' = 0 => faults = 0
  BY RequestCounts DEF MirrorInv, TypeInv, CountersOK
<1>3. Shaped
  BY DEF MirrorInv, KernelShape, ZoneSetsOf, Shaped
<1>4. Tracks(job[p])
  BY <1>1, <1>2 DEF MirrorInv, Synchronized
<1> QED
  BY <1>2, <1>3, <1>4 DEF MirrorInv, Ongoing

\* Every step keeps the invariant; while the relay serves, a request's step follows
\* the database and any other step leaves the kernel alone.
LEMMA MirrorStep ==
    ASSUME OneAtATime, MirrorInv, [NextRelay]_rvars, Keyed', TypeInv', JobInv'
    PROVE  /\ MirrorInv'
           /\ SingleFault \/ faults' = 0 =>
                 \/ phase = "serving" /\ phase' = "serving" /\ Follows
                 \/ Want' = Want /\ phase' # "serving" /\ (phase = "serving" => Have' = Have)
                 \/ Want' = Want /\ phase # "serving" /\ phase' = "serving" /\ Have' = Want'
<1>1. Starting' /\ (phase # "serving" /\ phase' = "serving" => KernelMatches')
  BY StartingStep DEF MirrorInv
<1>2. KernelShape'
  BY ShapeStep DEF MirrorInv
<1> DEFINE Tame    == SingleFault \/ faults' = 0
           Sync    == Synchronized'
           Moved   == \/ phase = "serving" /\ phase' = "serving" /\ Follows
                      \/ Want' = Want /\ phase' # "serving" /\ (phase = "serving" => Have' = Have)
                      \/ Want' = Want /\ phase # "serving" /\ phase' = "serving" /\ Have' = Want'
<1> SUFFICES ASSUME Tame PROVE Sync /\ Moved
  BY <1>1, <1>2, Zenon DEF MirrorInv
<1>3. SingleFault' <=> SingleFault
  BY DEF SingleFault
<1>4. ASSUME NEW p \in Procs, Start(p) \/ Step(p) PROVE Sync /\ Moved
  <2>1. Tracks(job[p])' /\ Follows
    BY <1>4, RequestOngoing, RequestSync
  <2>2. phase = "serving" /\ phase' = "serving"
    BY <1>4, StartServes, StepBusy DEF MirrorInv, Starting
  <2>3. ASSUME NEW q \in Procs PROVE Tracks(job[q])'
    <3>1. p = q
      BY DEF OneAtATime
    <3> QED
      BY <2>1, <3>1
  <2> QED
    BY <2>1, <2>2, <2>3 DEF Synchronized
<1>5. CASE NewUser \/ UNCHANGED rvars
  <2>1. UNCHANGED <<node, zone, member, ann, att, peers, nft, job, faults, phase>>
    BY <1>5 DEF NewUser, CreateUser, NoKernel, kvars, NoFault, rvars, dbvars
  <2>2. Want' = Want /\ Have' = Have
    BY <2>1 DEF Want, Have, Facts, PeerFacts, ZoneFacts, PeersFromDb, ZonesFromDb, RoutesForNode,
           AnnsOf, OfZone
  <2>3. phase = "serving" => Sync
    <3> SUFFICES ASSUME phase = "serving", NEW p \in Procs PROVE Tracks(job[p])'
      BY DEF Synchronized
    <3>1. Tracks(job[p])
      BY <2>1 DEF MirrorInv, Synchronized
    <3> QED
      BY <2>1, <3>1, WaitingTracks
  <2>4. NoKernel
    BY <2>1 DEF NoKernel, kvars
  <2>5. phase # "serving" => Sync
    BY <2>1 DEF Synchronized
  <2>6. Moved
    BY <2>1, <2>2, <2>4 DEF Follows
  <2> QED
    BY <2>3, <2>5, <2>6
<1>6. CASE Crash
  <2>1. phase' = "wg" /\ NoDb /\ NoKernel
    BY <1>6 DEF Crash
  <2>2. Want' = Want /\ Have' = Have
    BY <2>1, NoDbNoChange, NoKernelNoChange
  <2> QED
    BY <2>1, <2>2 DEF Synchronized
<1>7. CASE Boot
  <2>1. NoDb /\ UNCHANGED <<job, faults>> /\ phase # "serving"
    BY <1>7 DEF Boot, BootInterface, BootPeers, BootClear, BootBuild, BootStep, NoFault
  <2>2. Want' = Want
    BY <2>1, NoDbNoChange
  <2>3. CASE phase' = "serving"
    <3>1. KernelMatches'
      BY <1>1, <2>1, <2>3
    <3>2. Have' = Want'
      BY <3>1 DEF KernelMatches, Have, Want
    <3>3. ASSUME NEW p \in Procs PROVE Tracks(job[p])'
      <4>1. job[p] = Idle
        BY <2>1 DEF MirrorInv, Starting
      <4>2. (job[p] = Idle)'
        BY <2>1, <4>1 DEF Idle
      <4>3. job'[p].pc = "idle"
        BY <4>2 DEF Idle
      <4>4. Accurate(job[p])'
        BY <4>3, Unburdened
      <4> QED
        BY <3>2, <4>4 DEF Tracks
    <3> QED
      BY <2>1, <2>2, <2>3, <3>2, <3>3 DEF Synchronized
  <2>4. CASE phase' # "serving"
    BY <2>1, <2>2, <2>4 DEF Synchronized
  <2> QED
    BY <2>3, <2>4
<1> QED
  BY <1>4, <1>5, <1>6, <1>7 DEF NextRelay

\* It holds from the start.
LEMMA MirrorInit ==
    ASSUME InitRelay PROVE Starting /\ KernelShape /\ Synchronized /\ Have = Want
<1>1. KernelMatches /\ phase = "serving" /\ \A p \in Procs : job[p] = Idle
  BY DEF InitRelay, KernelMatches
<1>2. Synchronized
  BY <1>1, RebuiltTracks DEF Synchronized
<1>3. KernelShape
  BY <1>1, DbShape DEF KernelMatches, KernelShape
<1>4. Starting /\ Have = Want
  BY <1>1 DEF Starting, KernelMatches, Have, Want
<1> QED
  BY <1>2, <1>3, <1>4

\* So it holds at all times.
LEMMA MirrorAlways ==
    ASSUME OneAtATime
    PROVE  InitRelay /\ [][NextRelay]_rvars => [](MirrorInv /\ Keyed /\ TypeInv /\ JobInv)
<1> DEFINE K == Keyed /\ TypeInv /\ JobInv
<1>1. InitRelay /\ K => MirrorInv
  BY MirrorInit DEF MirrorInv
<1>2. MirrorInv /\ K /\ K' /\ [NextRelay]_rvars => MirrorInv'
  BY MirrorStep
<1>3. InitRelay /\ [][NextRelay]_rvars => []K
  BY KeyedAlways
<1> QED
  BY <1>1, <1>2, <1>3, PTL

\* Between requests the kernel has what the database records and, unless a call
\* failed, nothing else.
LEMMA QuietAgrees ==
    ASSUME MirrorInv, SingleFault \/ faults = 0, Quiet
    PROVE  (\A f \in Want : f \in Have) /\ (faults = 0 => \A f \in Have : f \in Want)
<1>1. PICK p \in Procs : TRUE
  BY RelayAssumption
<1>2. Tracks(job[p]) /\ job[p].pc \in PlainPcs
  BY DEF MirrorInv, Synchronized, Quiet, Idle, PlainPcs
<1> QED
  BY <1>2, PlainMirror

\* Kernel states of the same facts are the same.
LEMMA SameFactsSameKernel ==
    ASSUME KernelShape, \A f : f \in Have <=> f \in Want PROVE KernelMatches
<1> DEFINE ps == PeersFromDb
           zs == ZonesFromDb
<1>1. /\ \A k : <<"peer", k>> \in Want <=> k \in DOMAIN ps
      /\ \A k, b : <<"allows", k, b>> \in Want <=> k \in DOMAIN ps /\ b \in ps[k]
      /\ \A z : <<"zone", z>> \in Want <=> z \in DOMAIN zs
      /\ \A z, ip : <<"member", z, ip>> \in Want <=> z \in DOMAIN zs /\ ip \in zs[z].members
      /\ \A z, b : <<"route", z, b>> \in Want <=> z \in DOMAIN zs /\ b \in zs[z].routes
  BY FactKinds DEF Want
<1>2. /\ ps = [k \in DOMAIN ps |-> ps[k]]
      /\ zs = [z \in DOMAIN zs |-> zs[z]]
      /\ \A z \in DOMAIN zs : zs[z] = ZoneSetsOf(zs[z])
  BY DbShape
<1> HIDE DEF ps, zs
<1>3. peers = ps
  <2>1. \A k : k \in DOMAIN ps <=> k \in DOMAIN peers
    BY <1>1, HaveKinds
  <2>2. \A k \in DOMAIN ps : \A b : b \in ps[k] <=> b \in peers[k]
    BY <1>1, <2>1, HaveKinds
  <2>3. DOMAIN ps = DOMAIN peers /\ \A k \in DOMAIN ps : ps[k] = peers[k]
    <3>1. \A k \in DOMAIN ps : ps[k] \subseteq peers[k] /\ peers[k] \subseteq ps[k]
      BY <2>2
    <3>2. ASSUME NEW A, NEW B, A \subseteq B, B \subseteq A PROVE A = B
      BY <3>2
    <3>3. DOMAIN ps = DOMAIN peers
      BY <2>1
    <3>4. ASSUME NEW k \in DOMAIN ps PROVE ps[k] = peers[k]
      BY <3>1, <3>2, Zenon
    <3> QED
      BY <3>3, <3>4
  <2>4. [k \in DOMAIN ps |-> ps[k]] = [k \in DOMAIN peers |-> peers[k]]
    BY <2>3
  <2> QED
    BY <1>2, <2>4 DEF KernelShape
<1>4. nft = zs
  <2>1. DOMAIN zs = DOMAIN nft
    <3>1. \A z : z \in DOMAIN zs <=> z \in DOMAIN nft
      BY <1>1, HaveKinds
    <3> QED
      BY <3>1
  <2>2. ASSUME NEW z \in DOMAIN zs PROVE zs[z] = nft[z]
    <3>1. /\ \A ip : ip \in zs[z].members <=> ip \in nft[z].members
          /\ \A b : b \in zs[z].routes <=> b \in nft[z].routes
      BY <1>1, <2>1, HaveKinds
    <3>2. ASSUME NEW A, NEW B, \A x : x \in A <=> x \in B PROVE A = B
      BY <3>2
    <3>3. zs[z].members = nft[z].members
      BY <3>1, <3>2, Zenon
    <3>4. zs[z].routes = nft[z].routes
      BY <3>1, <3>2, Zenon
    <3>5. ZoneSetsOf(zs[z]) = ZoneSetsOf(nft[z])
      BY <3>3, <3>4 DEF ZoneSetsOf
    <3>6. zs[z] = ZoneSetsOf(zs[z]) /\ nft[z] = ZoneSetsOf(nft[z])
      BY <1>2, <2>1 DEF KernelShape
    <3> QED
      BY <3>5, <3>6, Zenon
  <2>3. [z \in DOMAIN zs |-> zs[z]] = [z \in DOMAIN nft |-> nft[z]]
    BY <2>1, <2>2
  <2> QED
    BY <1>2, <2>3 DEF KernelShape
<1> QED
  BY <1>3, <1>4 DEF KernelMatches, ps, zs

(***************************************************************************)
(* No drift: one request at a time and as long as no call fails, the peers *)
(* and the zone sets are, between requests, exactly what the database      *)
(* says, whatever users, nodes, zones and announcements were created,      *)
(* joined, kicked, withdrawn or deleted, and wherever the relay was killed *)
(* and restarted.  The announce pool must lie outside the VPN network, as  *)
(* config.Validate demands.                                                *)
(***************************************************************************)
THEOREM NeverDrifts == OneAtATime => (SpecRelay => []DriftFree)
<1> SUFFICES ASSUME OneAtATime PROVE SpecRelay => []DriftFree
  OBVIOUS
<1>1. InitRelay /\ [][NextRelay]_rvars => [](MirrorInv /\ Keyed /\ TypeInv /\ JobInv)
  BY MirrorAlways
<1>2. MirrorInv /\ Keyed /\ TypeInv /\ JobInv => DriftFree
  <2> SUFFICES ASSUME MirrorInv, Quiet, faults = 0 PROVE KernelMatches
    BY DEF DriftFree
  <2>1. \A f : f \in Have <=> f \in Want
    BY QuietAgrees
  <2> QED
    BY <2>1, SameFactsSameKernel DEF MirrorInv
<1> QED
  BY <1>1, <1>2, PTL DEF SpecRelay

(***************************************************************************)
(* A failing call costs no node its connectivity: with one failure, or any *)
(* number of failing kernel calls, the compensations of the handlers leave *)
(* every peer, allowed block, member and route the database records in the *)
(* kernel once the request is answered.  A failure of the compensating     *)
(* transaction itself is the one thing that would leave a gap.             *)
(***************************************************************************)
THEOREM NothingIsLost == OneAtATime /\ SingleFault => (SpecRelay => []NothingMissing)
<1> SUFFICES ASSUME OneAtATime, SingleFault PROVE SpecRelay => []NothingMissing
  OBVIOUS
<1>1. InitRelay /\ [][NextRelay]_rvars => [](MirrorInv /\ Keyed /\ TypeInv /\ JobInv)
  BY MirrorAlways
<1>2. MirrorInv /\ Keyed /\ TypeInv /\ JobInv => NothingMissing
  <2> SUFFICES ASSUME MirrorInv, Quiet PROVE NothingMissing
    BY Zenon DEF NothingMissing
  <2> DEFINE ps == PeersFromDb
             zs == ZonesFromDb
  <2>1. \A f \in Want : f \in Have
    BY QuietAgrees
  <2>2. /\ \A k : <<"peer", k>> \in Want <=> k \in DOMAIN ps
        /\ \A k, b : <<"allows", k, b>> \in Want <=> k \in DOMAIN ps /\ b \in ps[k]
        /\ \A z : <<"zone", z>> \in Want <=> z \in DOMAIN zs
        /\ \A z, ip : <<"member", z, ip>> \in Want <=> z \in DOMAIN zs /\ ip \in zs[z].members
        /\ \A z, b : <<"route", z, b>> \in Want <=> z \in DOMAIN zs /\ b \in zs[z].routes
    BY FactKinds DEF Want
  <2>3. DOMAIN zs = DOMAIN zone
    BY DEF ZonesFromDb
  <2> HIDE DEF ps, zs
  <2>4. ASSUME NEW k \in DOMAIN ps PROVE k \in DOMAIN peers /\ ps[k] \subseteq peers[k]
    <3>1. k \in DOMAIN peers
      BY <2>1, <2>2, HaveKinds
    <3>2. ASSUME NEW b \in ps[k] PROVE b \in peers[k]
      BY <2>1, <2>2, HaveKinds
    <3> QED
      BY <3>1, <3>2
  <2>5. ASSUME NEW z \in DOMAIN zs
        PROVE  z \in DOMAIN nft /\ zs[z].members \subseteq nft[z].members /\ zs[z].routes \subseteq nft[z].routes
    <3>1. z \in DOMAIN nft
      BY <2>1, <2>2, HaveKinds
    <3>2. ASSUME NEW ip \in zs[z].members PROVE ip \in nft[z].members
      BY <2>1, <2>2, HaveKinds
    <3>3. ASSUME NEW b \in zs[z].routes PROVE b \in nft[z].routes
      BY <2>1, <2>2, HaveKinds
    <3> QED
      BY <3>1, <3>2, <3>3
  <2> QED
    BY <2>3, <2>4, <2>5 DEF NothingMissing, ps, zs
<1> QED
  BY <1>1, <1>2, PTL DEF SpecRelay

(***************************************************************************)
(* The relay implements the mirror: while it serves, every call on the     *)
(* kernel moves it towards the database, showing only what is recorded and *)
(* taking away only what is not; a restart rebuilds it before it serves.   *)
(***************************************************************************)
THEOREM RelayIsMirror == OneAtATime /\ SingleFault => (SpecRelay => MirrorsDatabase)
<1> SUFFICES ASSUME OneAtATime, SingleFault PROVE SpecRelay => MirrorsDatabase
  OBVIOUS
<1>1. InitRelay /\ [][NextRelay]_rvars => [](MirrorInv /\ Keyed /\ TypeInv /\ JobInv)
  BY MirrorAlways
<1>2. InitRelay => Derived!Init
  <2>1. InitRelay => Have = Want /\ phase = "serving"
    BY MirrorInit DEF InitRelay
  <2> QED
    BY <2>1 DEF Derived!Init, Have, Want
<1>3. /\ MirrorInv /\ Keyed /\ TypeInv /\ JobInv
      /\ (MirrorInv /\ Keyed /\ TypeInv /\ JobInv)'
      /\ [NextRelay]_rvars
      => [Derived!Next]_(Derived!mvars)
  <2> SUFFICES ASSUME MirrorInv, Keyed', TypeInv', JobInv', [NextRelay]_rvars PROVE Derived!Next
    BY Zenon
  <2>1. \/ phase = "serving" /\ phase' = "serving" /\ Follows
        \/ Want' = Want /\ phase' # "serving" /\ (phase = "serving" => Have' = Have)
        \/ Want' = Want /\ phase # "serving" /\ phase' = "serving" /\ Have' = Want'
    BY MirrorStep
  <2>2. CASE phase = "serving" /\ phase' = "serving" /\ NoKernel
    <3>1. Have' = Have
      BY <2>2, NoKernelNoChange
    <3> QED
      BY <2>2, <3>1 DEF Derived!Next, Derived!Change, Have
  <2>3. CASE phase = "serving" /\ phase' = "serving" /\ Follows /\ ~ NoKernel
    <3>1. UNCHANGED Want /\ Have' \subseteq Have \cup Want /\ Have \cap Want \subseteq Have'
      BY <2>3 DEF Follows
    <3> QED
      BY <2>3, <3>1 DEF Derived!Next, Derived!Follow, Have, Want
  <2>4. CASE Want' = Want /\ phase' # "serving" /\ (phase = "serving" => Have' = Have)
    BY <2>4 DEF Derived!Next, Derived!Stop, Derived!Rebuild, Have, Want
  <2>5. CASE Want' = Want /\ phase # "serving" /\ phase' = "serving" /\ Have' = Want'
    BY <2>5 DEF Derived!Next, Derived!Serve, Have, Want
  <2> QED
    BY <2>1, <2>2, <2>3, <2>4, <2>5
<1> QED
  BY <1>1, <1>2, <1>3, PTL DEF SpecRelay, MirrorsDatabase, Derived!Spec
=============================================================================
