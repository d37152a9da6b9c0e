---------------------------- MODULE StoreProofs -----------------------------
(***************************************************************************)
(* The invariants of the relay's database hold for any number of rows, any *)
(* pools and any caps.                                                     *)
(***************************************************************************)
EXTENDS Store, IpamProofs

\* The inductive invariant: uniqueness and disjointness only make sense of rows
\* of their type, and a cascade only preserves types of rows it can reach.
IInv ==
    /\ StoreTypeOK
    /\ ReferentialIntegrity
    /\ SyntheticDisjoint
    /\ RealDisjoint
    /\ NodesDistinct

-----------------------------------------------------------------------------

\* Overlapping is symmetric, so one comparison covers a pair of blocks.
LEMMA OverlapsSymmetric ==
    ASSUME NEW a, NEW b, Overlaps(a, b) PROVE Overlaps(b, a)
  BY DEF Overlaps

-----------------------------------------------------------------------------

\* The migrated database with its first administrator satisfies the invariant.
LEMMA InitEstablishes == InitStore => IInv
<1> SUFFICES ASSUME InitStore PROVE IInv
  OBVIOUS
<1>1. StoreTypeOK
  BY StoreAssumption DEF InitStore, StoreTypeOK, UserRow
<1>2. ReferentialIntegrity /\ SyntheticDisjoint /\ RealDisjoint /\ NodesDistinct
  BY DEF InitStore, ReferentialIntegrity, SyntheticDisjoint, RealDisjoint, NodesDistinct
<1> QED
  BY <1>1, <1>2 DEF IInv

\* CreateAdmin and Register add a row nothing refers to yet.
LEMMA CreateUserPreserves ==
    ASSUME IInv, NEW admin \in BOOLEAN, CreateUser(admin)
    PROVE  IInv'
<1> DEFINE u == lastId.user + 1
<1>1. /\ u \in 1 .. MaxRows.user /\ u \notin DOMAIN user
      /\ user' = Put(user, u, [admin |-> admin])
      /\ lastId' = [lastId EXCEPT !.user = u]
      /\ UNCHANGED <<node, zone, member, ann, att>>
  BY StoreAssumption DEF CreateUser, IInv, StoreTypeOK
<1> HIDE DEF u
<1>2. /\ user' \in [DOMAIN user' -> UserRow]
      /\ DOMAIN user' = DOMAIN user \cup {u}
  BY <1>1 DEF IInv, StoreTypeOK, UserRow, Put
<1>3. StoreTypeOK'
  BY <1>1, <1>2, StoreAssumption DEF IInv, StoreTypeOK, u
<1>4. ReferentialIntegrity'
  BY <1>1, <1>2 DEF IInv, ReferentialIntegrity
<1>5. (SyntheticDisjoint /\ RealDisjoint /\ NodesDistinct)'
  BY <1>1 DEF IInv, SyntheticDisjoint, RealDisjoint, NodesDistinct
<1> QED
  BY <1>3, <1>4, <1>5 DEF IInv

\* t keeps some rows of s, unchanged.
Restricts(t, s) == DOMAIN t \subseteq DOMAIN s /\ t = [i \in DOMAIN t |-> s[i]]

\* Deleting rows of any tables preserves everything but the foreign keys.
LEMMA ShrinkPreserves ==
    ASSUME IInv, UNCHANGED lastId,
           Restricts(user', user), Restricts(node', node),
           Restricts(zone', zone), Restricts(ann', ann),
           member' \subseteq member, att' \subseteq att, ReferentialIntegrity'
    PROVE  IInv'
<1>1. StoreTypeOK'
  <2>1. user' \in [DOMAIN user' -> UserRow] /\ node' \in [DOMAIN node' -> NodeRow]
    BY DEF IInv, StoreTypeOK, Restricts
  <2>2. zone' \in [DOMAIN zone' -> ZoneRow] /\ ann' \in [DOMAIN ann' -> AnnRow]
    BY DEF IInv, StoreTypeOK, Restricts
  <2>3. /\ DOMAIN user' \subseteq 1 .. lastId.user /\ DOMAIN node' \subseteq 1 .. lastId.node
        /\ DOMAIN zone' \subseteq 1 .. lastId.zone /\ DOMAIN ann' \subseteq 1 .. lastId.ann
    BY DEF IInv, StoreTypeOK, Restricts
  <2> QED
    BY <2>1, <2>2, <2>3 DEF IInv, StoreTypeOK
<1>2. (SyntheticDisjoint /\ RealDisjoint)'
  BY DEF IInv, Restricts, SyntheticDisjoint, RealDisjoint
<1>3. NodesDistinct'
  BY DEF IInv, Restricts, NodesDistinct
<1> QED
  BY <1>1, <1>2, <1>3 DEF IInv

\* DeleteCascade removes a user and everything that hangs on it.
LEMMA DeleteUserPreserves ==
    ASSUME IInv, NEW u \in DOMAIN user, DeleteUser(u)
    PROVE  IInv'
<1> DEFINE dn == NodesOf(u)
           dz == ZonesOf(u)
           da == AnnsOf(dn)
<1>1. /\ user' = Without(user, {u}) /\ node' = Without(node, dn)
      /\ zone' = Without(zone, dz)
      /\ member' = {m \in member : m[1] \notin dz /\ m[2] \notin dn}
      /\ att' = {t \in att : t[1] \notin da /\ t[2] \notin dz}
      /\ ann' = [a \in {x \in DOMAIN ann \ da : \E t \in att' : t[1] = x} |-> ann[a]]
      /\ UNCHANGED lastId
  BY DEF DeleteUser
<1>2. /\ Restricts(user', user) /\ Restricts(node', node)
      /\ Restricts(zone', zone) /\ Restricts(ann', ann)
  BY <1>1 DEF Restricts, Without
<1>3. /\ DOMAIN user' = DOMAIN user \ {u} /\ DOMAIN node' = DOMAIN node \ dn
      /\ DOMAIN zone' = DOMAIN zone \ dz
      /\ DOMAIN ann' = {x \in DOMAIN ann \ da : \E t \in att' : t[1] = x}
  BY <1>1 DEF Without
<1>4. \A n \in DOMAIN node' : node'[n].user \in DOMAIN user'
  BY <1>2, <1>3 DEF IInv, ReferentialIntegrity, Restricts, NodesOf
<1>5. \A z \in DOMAIN zone' : zone'[z].owner \in DOMAIN user'
  BY <1>2, <1>3 DEF IInv, ReferentialIntegrity, Restricts, ZonesOf
<1>6. \A a \in DOMAIN ann' : ann'[a].node \in DOMAIN node'
  BY <1>2, <1>3 DEF IInv, ReferentialIntegrity, Restricts, AnnsOf
<1>7. \A m \in member' : m[1] \in DOMAIN zone' /\ m[2] \in DOMAIN node'
  BY <1>1, <1>3 DEF IInv, ReferentialIntegrity
<1>8. \A t \in att' : t[1] \in DOMAIN ann' /\ t[2] \in DOMAIN zone'
  BY <1>1, <1>3 DEF IInv, ReferentialIntegrity
<1>9. ReferentialIntegrity'
  BY <1>4, <1>5, <1>6, <1>7, <1>8 DEF ReferentialIntegrity
<1>10. member' \subseteq member /\ att' \subseteq att
  BY <1>1
<1> QED
  BY <1>1, <1>2, <1>9, <1>10, ShrinkPreserves

\* DeleteOwned removes a node, its memberships and announcements.
LEMMA DeleteNodePreserves ==
    ASSUME IInv, NEW n \in DOMAIN node, DeleteNode(n)
    PROVE  IInv'
<1> DEFINE da == AnnsOf({n})
<1>1. /\ node' = Without(node, {n}) /\ ann' = Without(ann, da)
      /\ member' = {m \in member : m[2] # n}
      /\ att' = {t \in att : t[1] \notin da}
      /\ UNCHANGED <<user, zone, lastId>>
  BY DEF DeleteNode
<1>2. /\ Restricts(node', node) /\ Restricts(ann', ann)
      /\ Restricts(user', user) /\ Restricts(zone', zone)
  BY <1>1 DEF Restricts, Without, IInv, StoreTypeOK
<1>3. DOMAIN node' = DOMAIN node \ {n} /\ DOMAIN ann' = DOMAIN ann \ da
  BY <1>1 DEF Without
<1>4. \A a \in DOMAIN ann' : ann'[a].node \in DOMAIN node'
  BY <1>2, <1>3 DEF IInv, ReferentialIntegrity, Restricts, AnnsOf
<1>5. \A x \in DOMAIN node' : node'[x].user \in DOMAIN user'
  BY <1>1, <1>2, <1>3 DEF IInv, ReferentialIntegrity, Restricts
<1>6. \A t \in att' : t[1] \in DOMAIN ann' /\ t[2] \in DOMAIN zone'
  BY <1>1, <1>3 DEF IInv, ReferentialIntegrity
<1>7. \A m \in member' : m[1] \in DOMAIN zone' /\ m[2] \in DOMAIN node'
  BY <1>1, <1>3 DEF IInv, ReferentialIntegrity
<1>8. ReferentialIntegrity'
  BY <1>1, <1>4, <1>5, <1>6, <1>7 DEF IInv, ReferentialIntegrity
<1>9. member' \subseteq member /\ att' \subseteq att
  BY <1>1
<1> QED
  BY <1>1, <1>2, <1>8, <1>9, ShrinkPreserves

\* ZoneRepo.Delete removes a zone, its memberships and attachments.
LEMMA DeleteZonePreserves ==
    ASSUME IInv, NEW z \in DOMAIN zone, DeleteZone(z)
    PROVE  IInv'
<1>1. /\ zone' = Without(zone, {z})
      /\ member' = {m \in member : m[1] # z} /\ att' = {t \in att : t[2] # z}
      /\ UNCHANGED <<user, node, ann, lastId>>
  BY DEF DeleteZone
<1>2. /\ Restricts(zone', zone) /\ Restricts(user', user)
      /\ Restricts(node', node) /\ Restricts(ann', ann)
  BY <1>1 DEF Restricts, Without, IInv, StoreTypeOK
<1>3. DOMAIN zone' = DOMAIN zone \ {z} /\ \A y \in DOMAIN zone' : zone'[y] = zone[y]
  BY <1>1 DEF Without
<1>4. ReferentialIntegrity'
  BY <1>1, <1>3 DEF IInv, ReferentialIntegrity
<1>5. member' \subseteq member /\ att' \subseteq att
  BY <1>1
<1> QED
  BY <1>1, <1>2, <1>4, <1>5, ShrinkPreserves

\* Leave removes one membership.
LEMMA LeavePreserves ==
    ASSUME IInv, NEW z, NEW n, Leave(z, n)
    PROVE  IInv'
<1>1. member' \subseteq member /\ UNCHANGED <<user, node, zone, ann, att, lastId>>
  BY DEF Leave
<1>2. /\ Restricts(zone', zone) /\ Restricts(user', user)
      /\ Restricts(node', node) /\ Restricts(ann', ann)
  BY <1>1 DEF Restricts, IInv, StoreTypeOK
<1>3. ReferentialIntegrity'
  BY <1>1 DEF IInv, ReferentialIntegrity
<1> QED
  BY <1>1, <1>2, <1>3, ShrinkPreserves

\* The detaching transactions remove attachments and orphaned announcements.
LEMMA DetachSetPreserves ==
    ASSUME IInv, NEW gone, DetachSet(gone)
    PROVE  IInv'
<1>1. /\ att' = att \ gone /\ ann' = Without(ann, Reclaimed(gone))
      /\ UNCHANGED <<user, node, zone, member, lastId>>
  BY DEF DetachSet
<1>2. /\ Restricts(ann', ann) /\ Restricts(user', user)
      /\ Restricts(node', node) /\ Restricts(zone', zone)
  BY <1>1 DEF Restricts, Without, IInv, StoreTypeOK
<1>3. DOMAIN ann' = DOMAIN ann \ Reclaimed(gone)
  BY <1>1 DEF Without
<1>4. \A t \in att' : t[1] \in DOMAIN ann' /\ t[2] \in DOMAIN zone'
  BY <1>1, <1>3 DEF IInv, ReferentialIntegrity, Reclaimed
<1>5. ReferentialIntegrity'
  BY <1>1, <1>2, <1>3, <1>4 DEF IInv, ReferentialIntegrity, Restricts
<1> QED
  BY <1>1, <1>2, <1>5, ShrinkPreserves

\* insertNode adds a node whose address and key are free when it commits.
LEMMA InsertNodePreserves ==
    ASSUME IInv, NEW u \in DOMAIN user, NEW nm \in NodeNames, NEW k \in Keys,
           NEW ip \in FirstIP .. LastIP, NEW pf \in Platforms,
           InsertNode(u, nm, k, ip, pf)
    PROVE  IInv'
<1> DEFINE n   == lastId.node + 1
           row == [user |-> u, name |-> nm, key |-> k, ip |-> ip, platform |-> pf]
<1>1. /\ n \in 1 .. MaxRows.node /\ n \notin DOMAIN node
      /\ node' = Put(node, n, row)
      /\ lastId' = [lastId EXCEPT !.node = n]
      /\ UNCHANGED <<user, zone, member, ann, att>>
  BY StoreAssumption DEF InsertNode, IInv, StoreTypeOK
<1>2. row \in NodeRow
  BY DEF IInv, StoreTypeOK, NodeRow
<1>typed. node \in [DOMAIN node -> NodeRow]
  BY DEF IInv, StoreTypeOK
<1> HIDE DEF n, row
<1>3. /\ node' \in [DOMAIN node' -> NodeRow]
      /\ DOMAIN node' = DOMAIN node \cup {n}
      /\ node'[n] = row /\ \A i \in DOMAIN node : node'[i] = node[i]
  BY <1>1, <1>2, <1>typed DEF Put
<1>4. StoreTypeOK'
  BY <1>1, <1>3, StoreAssumption DEF IInv, StoreTypeOK, n
<1>5. ReferentialIntegrity'
  BY <1>1, <1>3 DEF IInv, ReferentialIntegrity, row
<1>6. (SyntheticDisjoint /\ RealDisjoint)'
  BY <1>1 DEF IInv, SyntheticDisjoint, RealDisjoint
<1>7. \A m \in DOMAIN node : node[m].ip # ip /\ node[m].key # k
  BY DEF InsertNode, NodeInsertable, NodeConflict
<1>8. NodesDistinct'
  BY <1>3, <1>7 DEF IInv, NodesDistinct, row
<1> QED
  BY <1>4, <1>5, <1>6, <1>8 DEF IInv

\* insertZone adds a zone of a live owner.
LEMMA InsertZonePreserves ==
    ASSUME IInv, NEW u \in DOMAIN user, NEW nm \in ZoneNames, NEW h \in Hashes,
           InsertZone(u, nm, h)
    PROVE  IInv'
<1> DEFINE z   == lastId.zone + 1
           row == [name |-> nm, owner |-> u, hash |-> h]
<1>1. /\ z \in 1 .. MaxRows.zone /\ z \notin DOMAIN zone
      /\ zone' = Put(zone, z, row)
      /\ lastId' = [lastId EXCEPT !.zone = z]
      /\ UNCHANGED <<user, node, member, ann, att>>
  BY StoreAssumption DEF InsertZone, IInv, StoreTypeOK
<1>2. row \in ZoneRow
  BY DEF IInv, StoreTypeOK, ZoneRow
<1>typed. zone \in [DOMAIN zone -> ZoneRow]
  BY DEF IInv, StoreTypeOK
<1> HIDE DEF z, row
<1>3. /\ zone' \in [DOMAIN zone' -> ZoneRow]
      /\ DOMAIN zone' = DOMAIN zone \cup {z}
      /\ zone'[z] = row /\ \A i \in DOMAIN zone : zone'[i] = zone[i]
  BY <1>1, <1>2, <1>typed DEF Put
<1>4. StoreTypeOK'
  BY <1>1, <1>3, StoreAssumption DEF IInv, StoreTypeOK, z
<1>5. ReferentialIntegrity'
  BY <1>1, <1>3 DEF IInv, ReferentialIntegrity, row
<1>6. (SyntheticDisjoint /\ RealDisjoint /\ NodesDistinct)'
  BY <1>1 DEF IInv, SyntheticDisjoint, RealDisjoint, NodesDistinct
<1> QED
  BY <1>4, <1>5, <1>6 DEF IInv

\* UpdatePassword changes one column.
LEMMA UpdatePasswordPreserves ==
    ASSUME IInv, NEW z \in DOMAIN zone, NEW h \in Hashes, UpdatePassword(z, h)
    PROVE  IInv'
<1>1. /\ zone' = [zone EXCEPT ![z].hash = h]
      /\ UNCHANGED <<user, node, member, ann, att, lastId>>
  BY DEF UpdatePassword
<1>2. /\ DOMAIN zone' = DOMAIN zone /\ zone' \in [DOMAIN zone' -> ZoneRow]
      /\ \A y \in DOMAIN zone : zone'[y].owner = zone[y].owner
  BY <1>1 DEF IInv, StoreTypeOK, ZoneRow
<1>3. StoreTypeOK'
  BY <1>1, <1>2 DEF IInv, StoreTypeOK
<1>4. ReferentialIntegrity'
  BY <1>1, <1>2 DEF IInv, ReferentialIntegrity
<1>5. (SyntheticDisjoint /\ RealDisjoint /\ NodesDistinct)'
  BY <1>1 DEF IInv, SyntheticDisjoint, RealDisjoint, NodesDistinct
<1> QED
  BY <1>3, <1>4, <1>5 DEF IInv

\* Join adds a membership between live rows.
LEMMA JoinPreserves ==
    ASSUME IInv, NEW z, NEW n, Join(z, n)
    PROVE  IInv'
<1>1. /\ z \in DOMAIN zone /\ n \in DOMAIN node
      /\ member' = member \cup {<<z, n>>}
      /\ UNCHANGED <<user, node, zone, ann, att, lastId>>
  BY DEF Join
<1>2. <<z, n>> \in (1 .. lastId.zone) \X (1 .. lastId.node)
  BY <1>1 DEF IInv, StoreTypeOK
<1>3. StoreTypeOK'
  BY <1>1, <1>2 DEF IInv, StoreTypeOK
<1>4. ReferentialIntegrity'
  BY <1>1 DEF IInv, ReferentialIntegrity
<1>5. (SyntheticDisjoint /\ RealDisjoint /\ NodesDistinct)'
  BY <1>1 DEF IInv, SyntheticDisjoint, RealDisjoint, NodesDistinct
<1> QED
  BY <1>3, <1>4, <1>5 DEF IInv

\* Create's reuse path attaches a live announcement to a live zone.
LEMMA AttachAgainPreserves ==
    ASSUME IInv, NEW n, NEW r, NEW z, AttachAgain(n, r, z)
    PROVE  IInv'
<1>1. PICK a \in AnnsOf({n}) :
          /\ <<z, n>> \in member /\ att' = att \cup {<<a, z>>}
          /\ UNCHANGED <<user, node, zone, member, ann, lastId>>
  BY DEF AttachAgain
<1>2. a \in DOMAIN ann /\ z \in DOMAIN zone
  BY <1>1 DEF AnnsOf, IInv, ReferentialIntegrity
<1>3. <<a, z>> \in (1 .. lastId.ann) \X (1 .. lastId.zone)
  BY <1>2 DEF IInv, StoreTypeOK
<1>4. StoreTypeOK'
  BY <1>1, <1>3 DEF IInv, StoreTypeOK
<1>5. ReferentialIntegrity'
  BY <1>1, <1>2 DEF IInv, ReferentialIntegrity
<1>6. (SyntheticDisjoint /\ RealDisjoint /\ NodesDistinct)'
  BY <1>1 DEF IInv, SyntheticDisjoint, RealDisjoint, NodesDistinct
<1> QED
  BY <1>4, <1>5, <1>6 DEF IInv

\* Create's new-announcement path inserts a block AllocateBlock found free.
LEMMA AnnouncePreserves ==
    ASSUME IInv, NEW n, NEW r \in RealBlocks, NEW z, Announce(n, r, z)
    PROVE  IInv'
<1> DEFINE a   == lastId.ann + 1
           s   == AllocateBlock(SynthPool, r.len, SynthInUse)
           row == [node |-> n, real |-> r, synth |-> s]
<1>1. /\ <<z, n>> \in member /\ a <= MaxRows.ann /\ s # NoBlock
      /\ \A x \in RealBy(n) : ~ Overlaps(r, x)
      /\ ann' = Put(ann, a, row)
      /\ att' = att \cup {<<a, z>>}
      /\ lastId' = [lastId EXCEPT !.ann = a]
      /\ UNCHANGED <<user, node, zone, member>>
  BY DEF Announce, Announceable
<1>2. a \in 1 .. MaxRows.ann /\ a \notin DOMAIN ann
  BY <1>1, StoreAssumption DEF IInv, StoreTypeOK
<1>3. n \in DOMAIN node /\ z \in DOMAIN zone
  BY <1>1 DEF IInv, ReferentialIntegrity
<1>4. s \in Block /\ \A x \in SynthInUse : ~ Overlaps(s, x)
  <2>1. SynthPool \in Block /\ r.len \in 0 .. AddrBits
    BY StoreAssumption DEF Block
  <2> QED
    BY <1>1, <2>1, AllocatedIsFree
<1> HIDE DEF s
<1>5. row \in AnnRow
  BY <1>3, <1>4 DEF AnnRow, IInv, StoreTypeOK
<1>typed. ann \in [DOMAIN ann -> AnnRow]
  BY DEF IInv, StoreTypeOK
<1> HIDE DEF a, row
<1>6. /\ ann' \in [DOMAIN ann' -> AnnRow]
      /\ DOMAIN ann' = DOMAIN ann \cup {a}
      /\ ann'[a] = row /\ \A i \in DOMAIN ann : ann'[i] = ann[i]
  BY <1>1, <1>2, <1>5, <1>typed DEF Put
<1>7. StoreTypeOK'
  BY <1>1, <1>2, <1>3, <1>6, StoreAssumption DEF IInv, StoreTypeOK, a
<1>8. ReferentialIntegrity'
  BY <1>1, <1>3, <1>6 DEF IInv, ReferentialIntegrity, row
<1>9. SyntheticDisjoint'
  <2>1. \A b \in DOMAIN ann : ~ Overlaps(s, ann[b].synth) /\ ~ Overlaps(ann[b].synth, s)
    BY <1>4, OverlapsSymmetric DEF SynthInUse
  <2> QED
    BY <1>6, <2>1 DEF IInv, SyntheticDisjoint, row
<1>10. RealDisjoint'
  <2>1. \A b \in DOMAIN ann : ann[b].node = n =>
            ~ Overlaps(r, ann[b].real) /\ ~ Overlaps(ann[b].real, r)
    BY <1>1, OverlapsSymmetric DEF RealBy, AnnsOf
  <2> QED
    BY <1>6, <2>1 DEF IInv, RealDisjoint, row
<1>11. NodesDistinct'
  BY <1>1 DEF IInv, NodesDistinct
<1> QED
  BY <1>7, <1>8, <1>9, <1>10, <1>11 DEF IInv

-----------------------------------------------------------------------------

\* No transaction, and no stuttering step, breaks the inductive invariant.
LEMMA NextPreserves == IInv /\ [NextStore]_dbvars => IInv'
<1> SUFFICES ASSUME IInv, [NextStore]_dbvars PROVE IInv'
  OBVIOUS
<1>1. CASE NextUsers
  BY <1>1, CreateUserPreserves, DeleteUserPreserves DEF NextUsers
<1>2. CASE NextNodes
  BY <1>2, InsertNodePreserves, DeleteNodePreserves DEF NextNodes
<1>3. CASE NextZones
  BY <1>3, InsertZonePreserves, UpdatePasswordPreserves, DeleteZonePreserves,
     JoinPreserves, LeavePreserves DEF NextZones
<1>4. CASE NextAnns
  BY <1>4, AttachAgainPreserves, AnnouncePreserves, DetachSetPreserves
     DEF NextAnns, Detach, DetachAllForNodeZone, DetachAllForZone
<1>5. CASE UNCHANGED dbvars
  BY <1>5 DEF dbvars, IInv, StoreTypeOK, ReferentialIntegrity, SyntheticDisjoint,
     RealDisjoint, NodesDistinct
<1> QED
  BY <1>1, <1>2, <1>3, <1>4, <1>5 DEF NextStore

\* The tables are always well typed, whatever the order of the transactions of
\* concurrent requests (every repository method of internal/server/store).
THEOREM StoreTypeCorrect == SpecStore => []StoreTypeOK
<1>1. IInv => StoreTypeOK
  BY DEF IInv
<1> QED
  BY <1>1, InitEstablishes, NextPreserves, PTL DEF SpecStore

\* Foreign keys survive every cascade (migrations, DeleteCascade, DeleteOwned).
THEOREM StoreIntegrity == SpecStore => []ReferentialIntegrity
<1>1. IInv => ReferentialIntegrity
  BY DEF IInv
<1> QED
  BY <1>1, InitEstablishes, NextPreserves, PTL DEF SpecStore

\* The synthetic pool is never allocated twice (AnnouncementRepo.Create), and a
\* node's real subnets never overlap.
THEOREM PoolNeverDoubleAllocated == SpecStore => []AnnouncementsDisjoint
<1>1. IInv => AnnouncementsDisjoint
  BY DEF IInv, AnnouncementsDisjoint
<1> QED
  BY <1>1, InitEstablishes, NextPreserves, PTL DEF SpecStore

\* No two live nodes share an address or a key (NodeRepo.Create).
THEOREM AddressesUnique == SpecStore => []NodesDistinct
<1>1. IInv => NodesDistinct
  BY DEF IInv
<1> QED
  BY <1>1, InitEstablishes, NextPreserves, PTL DEF SpecStore

-----------------------------------------------------------------------------

\* Only DeleteCascade removes administrators, and never the last one.
LEMMA NextKeepsAdmin == IInv /\ SomeAdmin /\ [NextStore]_dbvars => SomeAdmin'
<1> SUFFICES ASSUME IInv, SomeAdmin, [NextStore]_dbvars PROVE SomeAdmin'
  OBVIOUS
<1>1. ASSUME NEW admin \in BOOLEAN, CreateUser(admin) PROVE SomeAdmin'
  <2>1. /\ user' = Put(user, lastId.user + 1, [admin |-> admin])
        /\ lastId.user + 1 \notin DOMAIN user
    BY <1>1 DEF CreateUser, IInv, StoreTypeOK
  <2>2. \A x \in DOMAIN user : x \in DOMAIN user' /\ user'[x] = user[x]
    BY <2>1 DEF Put
  <2> QED
    BY <2>2 DEF SomeAdmin, Admins
<1>2. ASSUME NEW u \in DOMAIN user, DeleteUser(u) PROVE SomeAdmin'
  <2>1. user' = [i \in DOMAIN user \ {u} |-> user[i]]
    BY <1>2 DEF DeleteUser, Without
  <2>2. Admins' = Admins \ {u}
    BY <2>1 DEF Admins
  <2>3. CASE u \notin Admins
    BY <2>2, <2>3 DEF SomeAdmin
  <2>4. CASE u \in Admins
    <3>1. Cardinality(Admins) > 1
      BY <1>2, <2>4 DEF DeleteUser, Admins
    <3>2. Admins # {u}
      BY <3>1, FS_Singleton
    <3> QED
      BY <2>2, <2>4, <3>2 DEF SomeAdmin
  <2> QED
    BY <2>3, <2>4
<1>3. CASE UNCHANGED user
  BY <1>3 DEF SomeAdmin, Admins
<1>4. CASE NextNodes
  BY <1>3, <1>4 DEF NextNodes, InsertNode, DeleteNode
<1>5. CASE NextZones
  BY <1>3, <1>5 DEF NextZones, InsertZone, UpdatePassword, DeleteZone, Join, Leave
<1>6. CASE NextAnns
  BY <1>3, <1>6 DEF NextAnns, AttachAgain, Announce, Detach, DetachAllForNodeZone,
     DetachAllForZone, DetachSet
<1> QED
  BY <1>1, <1>2, <1>3, <1>4, <1>5, <1>6 DEF NextStore, NextUsers, dbvars

(***************************************************************************)
(* Some administrator always remains, however administrators delete each   *)
(* other (DeleteCascade's ErrLastAdmin).                                   *)
(***************************************************************************)
THEOREM AdminRemains == SpecStore => []SomeAdmin
<1>1. InitStore => SomeAdmin
  BY DEF InitStore, SomeAdmin, Admins
<1> QED
  BY <1>1, InitEstablishes, NextPreserves, NextKeepsAdmin, PTL DEF SpecStore

-----------------------------------------------------------------------------

(***************************************************************************)
(* Every transaction but ZoneRepo.Delete removes an announcement together  *)
(* with its last attachment, so only a zone deleted without detaching it   *)
(* first can leave a synthetic block allocated to nobody.                  *)
(***************************************************************************)
THEOREM OrphansOnlyFromZones == SpecStore => OrphansOnlyByZoneDelete
<1> DEFINE P == \A a \in DOMAIN ann \cap DOMAIN ann' :
                   Attached(a) /\ ~ Attached(a)' => \E z \in DOMAIN zone : DeleteZone(z)
<1>1. ASSUME IInv, NextStore PROVE P
  <2>1. CASE att \subseteq att'
    BY <2>1 DEF Attached
  <2>2. ASSUME NEW gone, DetachSet(gone) PROVE P
    <3>1. att' = att \ gone /\ DOMAIN ann' = DOMAIN ann \ Reclaimed(gone)
      BY <2>2 DEF DetachSet, Without
    <3> QED
      BY <3>1 DEF Reclaimed, Attached
  <2>3. ASSUME NEW u \in DOMAIN user, DeleteUser(u) PROVE P
    <3>1. \A a \in DOMAIN ann' : \E t \in att' : t[1] = a
      BY <2>3 DEF DeleteUser
    <3> QED
      BY <3>1 DEF Attached
  <2>4. ASSUME NEW n \in DOMAIN node, DeleteNode(n) PROVE P
    <3>1. /\ DOMAIN ann' = DOMAIN ann \ AnnsOf({n})
          /\ att' = {t \in att : t[1] \notin AnnsOf({n})}
      BY <2>4 DEF DeleteNode, Without
    <3> QED
      BY <3>1 DEF Attached
  <2>5. CASE NextUsers
    BY <2>1, <2>3, <2>5 DEF NextUsers, CreateUser
  <2>6. CASE NextNodes
    BY <2>1, <2>4, <2>6 DEF NextNodes, InsertNode
  <2>7. CASE NextZones
    BY <2>1, <2>7 DEF NextZones, InsertZone, UpdatePassword, Join, Leave
  <2>8. CASE NextAnns
    BY <2>1, <2>2, <2>8 DEF NextAnns, AttachAgain, Announce, Detach,
       DetachAllForNodeZone, DetachAllForZone
  <2> QED
    BY <1>1, <2>5, <2>6, <2>7, <2>8 DEF NextStore
<1>2. IInv /\ [NextStore]_dbvars => [P]_dbvars
  BY <1>1
<1> QED
  BY <1>2, InitEstablishes, NextPreserves, PTL DEF SpecStore, OrphansOnlyByZoneDelete

-----------------------------------------------------------------------------

\* What a user owns is finite: ids are handed out from a sequence.
LEMMA OwnedFinite ==
    ASSUME IInv, NEW u
    PROVE  /\ IsFiniteSet(NodesOf(u)) /\ IsFiniteSet(ZonesOf(u))
           /\ IsFiniteSet(AnnsOf(NodesOf(u)))
<1>1. lastId.node \in Int /\ lastId.zone \in Int /\ lastId.ann \in Int
  BY StoreAssumption DEF IInv, StoreTypeOK
<1>2. /\ NodesOf(u) \in SUBSET (1 .. lastId.node)
      /\ ZonesOf(u) \in SUBSET (1 .. lastId.zone)
      /\ AnnsOf(NodesOf(u)) \in SUBSET (1 .. lastId.ann)
  BY DEF IInv, StoreTypeOK, NodesOf, ZonesOf, AnnsOf
<1>3. /\ IsFiniteSet(1 .. lastId.node) /\ IsFiniteSet(1 .. lastId.zone)
      /\ IsFiniteSet(1 .. lastId.ann)
  BY <1>1, FS_Interval
<1> QED
  BY <1>2, <1>3, FS_Subset

\* A user who owns no more than before stays within the caps.
LEMMA CapsOfFewer ==
    ASSUME IInv, CapsRespected, NEW u \in DOMAIN user, u \in DOMAIN user',
           user'[u] = user[u], NodesOf(u)' \subseteq NodesOf(u),
           ZonesOf(u)' \subseteq ZonesOf(u),
           AnnsOf(NodesOf(u))' \subseteq AnnsOf(NodesOf(u))
    PROVE  /\ Capped(u, MaxDevices)' => Cardinality(NodesOf(u)') <= MaxDevices
           /\ Capped(u, MaxOwnedZones)' => Cardinality(ZonesOf(u)') <= MaxOwnedZones
           /\ Capped(u, MaxAnnounced)' => Cardinality(AnnsOf(NodesOf(u))') <= MaxAnnounced
<1>1. /\ Capped(u, MaxDevices)' = Capped(u, MaxDevices)
      /\ Capped(u, MaxOwnedZones)' = Capped(u, MaxOwnedZones)
      /\ Capped(u, MaxAnnounced)' = Capped(u, MaxAnnounced)
  BY DEF Capped
<1>2. /\ Capped(u, MaxDevices) => Cardinality(NodesOf(u)) <= MaxDevices
      /\ Capped(u, MaxOwnedZones) => Cardinality(ZonesOf(u)) <= MaxOwnedZones
      /\ Capped(u, MaxAnnounced) => Cardinality(AnnsOf(NodesOf(u))) <= MaxAnnounced
  BY DEF CapsRespected
<1>3. ASSUME NEW S, NEW T \in SUBSET S, IsFiniteSet(S), NEW c \in Nat, Cardinality(S) <= c
      PROVE  Cardinality(T) <= c
  <2>1. /\ Cardinality(T) <= Cardinality(S) /\ Cardinality(S) \in Nat
        /\ Cardinality(T) \in Nat
    BY <1>3, FS_Subset, FS_CardinalityType
  <2> QED
    BY <1>3, <2>1
<1>4. Capped(u, MaxDevices)' => Cardinality(NodesOf(u)') <= MaxDevices
  BY <1>1, <1>2, <1>3, OwnedFinite, StoreAssumption
<1>5. Capped(u, MaxOwnedZones)' => Cardinality(ZonesOf(u)') <= MaxOwnedZones
  BY <1>1, <1>2, <1>3, OwnedFinite, StoreAssumption
<1>6. Capped(u, MaxAnnounced)' => Cardinality(AnnsOf(NodesOf(u))') <= MaxAnnounced
  BY <1>1, <1>2, <1>3, OwnedFinite, StoreAssumption
<1> QED
  BY <1>4, <1>5, <1>6

\* Every step that hands nobody anything new keeps the caps.
LEMMA CapsShrink ==
    ASSUME IInv, CapsRespected,
           \A u \in DOMAIN user' : u \in DOMAIN user /\ user'[u] = user[u],
           \A n \in DOMAIN node' : n \in DOMAIN node /\ node'[n].user = node[n].user,
           \A z \in DOMAIN zone' : z \in DOMAIN zone /\ zone'[z].owner = zone[z].owner,
           \A a \in DOMAIN ann' : a \in DOMAIN ann /\ ann'[a].node = ann[a].node
    PROVE  CapsRespected'
<1>1. ASSUME NEW u \in DOMAIN user'
      PROVE  /\ NodesOf(u)' \subseteq NodesOf(u) /\ ZonesOf(u)' \subseteq ZonesOf(u)
             /\ AnnsOf(NodesOf(u))' \subseteq AnnsOf(NodesOf(u))
  BY DEF NodesOf, ZonesOf, AnnsOf
<1> QED
  BY <1>1, CapsOfFewer DEF CapsRespected

\* A user below a cap may gain one more.
LEMMA OneMore ==
    ASSUME NEW S, IsFiniteSet(S), NEW x, NEW c \in Nat, ~ (Cardinality(S) >= c)
    PROVE  Cardinality(S \cup {x}) <= c
<1>1. Cardinality(S) \in Nat
  BY FS_CardinalityType
<1>2. Cardinality(S \cup {x}) \in {Cardinality(S), Cardinality(S) + 1}
  <2>1. Cardinality(S \cup {x}) = IF x \in S THEN Cardinality(S) ELSE Cardinality(S) + 1
    BY FS_AddElement
  <2> QED
    BY <2>1
<1> QED
  BY <1>1, <1>2

\* A new user owns nothing, so no count grows.
LEMMA CreateUserCaps ==
    ASSUME IInv, CapsRespected, NEW admin \in BOOLEAN, CreateUser(admin)
    PROVE  CapsRespected'
<1>0. PICK v : v = lastId.user + 1
  OBVIOUS
<1>1. /\ user' = Put(user, v, [admin |-> admin]) /\ v \notin DOMAIN user
      /\ UNCHANGED <<node, zone, ann>>
  BY <1>0 DEF CreateUser, IInv, StoreTypeOK
<1>2. /\ DOMAIN user' = DOMAIN user \cup {v}
      /\ \A u \in DOMAIN user : user'[u] = user[u]
  BY <1>1 DEF Put
<1>3. \A u : /\ NodesOf(u)' = NodesOf(u) /\ ZonesOf(u)' = ZonesOf(u)
              /\ AnnsOf(NodesOf(u))' = AnnsOf(NodesOf(u))
  BY <1>1 DEF NodesOf, ZonesOf, AnnsOf
<1>4. NodesOf(v)' = {} /\ ZonesOf(v)' = {} /\ AnnsOf(NodesOf(v))' = {}
  BY <1>1, <1>3 DEF IInv, ReferentialIntegrity, NodesOf, ZonesOf, AnnsOf
<1>5. /\ Cardinality(NodesOf(v)') <= MaxDevices
      /\ Cardinality(ZonesOf(v)') <= MaxOwnedZones
      /\ Cardinality(AnnsOf(NodesOf(v))') <= MaxAnnounced
  BY <1>4, FS_EmptySet, StoreAssumption
<1>6. ASSUME NEW u \in DOMAIN user
      PROVE  /\ Capped(u, MaxDevices)' => Cardinality(NodesOf(u)') <= MaxDevices
             /\ Capped(u, MaxOwnedZones)' => Cardinality(ZonesOf(u)') <= MaxOwnedZones
             /\ Capped(u, MaxAnnounced)' => Cardinality(AnnsOf(NodesOf(u))') <= MaxAnnounced
  BY <1>2, <1>3, CapsOfFewer
<1> QED
  BY <1>2, <1>5, <1>6 DEF CapsRespected

\* insertNode counts the user's nodes in the statement that inserts.
LEMMA InsertNodeCaps ==
    ASSUME IInv, CapsRespected, NEW v \in DOMAIN user, NEW nm, NEW k, NEW ip, NEW pf,
           InsertNode(v, nm, k, ip, pf)
    PROVE  CapsRespected'
<1> DEFINE n   == lastId.node + 1
           row == [user |-> v, name |-> nm, key |-> k, ip |-> ip, platform |-> pf]
<1>1. /\ node' = Put(node, n, row) /\ n \notin DOMAIN node /\ ~ AtDeviceCap(v)
      /\ UNCHANGED <<user, zone, ann>>
  BY DEF InsertNode, NodeInsertable, IInv, StoreTypeOK
<1>2. row.user = v
  OBVIOUS
<1> HIDE DEF n, row
<1>3. /\ DOMAIN node' = DOMAIN node \cup {n} /\ node'[n] = row
      /\ \A x \in DOMAIN node : node'[x] = node[x]
  BY <1>1 DEF Put
<1>4. /\ NodesOf(v)' = NodesOf(v) \cup {n}
      /\ \A u : u # v => NodesOf(u)' = NodesOf(u)
  BY <1>2, <1>3 DEF NodesOf
<1>5. \A u : ZonesOf(u)' = ZonesOf(u)
  BY <1>1 DEF ZonesOf
<1>6. \A u : AnnsOf(NodesOf(u))' = AnnsOf(NodesOf(u))
  BY <1>1, <1>2, <1>3 DEF NodesOf, AnnsOf, IInv, ReferentialIntegrity
<1>7. ASSUME NEW u \in DOMAIN user, u # v
      PROVE  /\ Capped(u, MaxDevices)' => Cardinality(NodesOf(u)') <= MaxDevices
             /\ Capped(u, MaxOwnedZones)' => Cardinality(ZonesOf(u)') <= MaxOwnedZones
             /\ Capped(u, MaxAnnounced)' => Cardinality(AnnsOf(NodesOf(u))') <= MaxAnnounced
  BY <1>1, <1>4, <1>5, <1>6, <1>7, CapsOfFewer
<1>8. Capped(v, MaxDevices)' => Cardinality(NodesOf(v)') <= MaxDevices
  BY <1>1, <1>4, OneMore, OwnedFinite, StoreAssumption DEF AtDeviceCap, Capped
<1>9. /\ Capped(v, MaxOwnedZones)' => Cardinality(ZonesOf(v)') <= MaxOwnedZones
      /\ Capped(v, MaxAnnounced)' => Cardinality(AnnsOf(NodesOf(v))') <= MaxAnnounced
  BY <1>1, <1>5, <1>6 DEF Capped, CapsRespected
<1> QED
  BY <1>1, <1>7, <1>8, <1>9 DEF CapsRespected

\* insertZone counts the owner's zones in the statement that inserts.
LEMMA InsertZoneCaps ==
    ASSUME IInv, CapsRespected, NEW v \in DOMAIN user, NEW nm, NEW h, InsertZone(v, nm, h)
    PROVE  CapsRespected'
<1> DEFINE z   == lastId.zone + 1
           row == [name |-> nm, owner |-> v, hash |-> h]
<1>1. /\ zone' = Put(zone, z, row) /\ z \notin DOMAIN zone /\ ~ AtZoneCap(v)
      /\ UNCHANGED <<user, node, ann>>
  BY DEF InsertZone, ZoneInsertable, IInv, StoreTypeOK
<1>2. row.owner = v
  OBVIOUS
<1> HIDE DEF z, row
<1>3. /\ DOMAIN zone' = DOMAIN zone \cup {z} /\ zone'[z] = row
      /\ \A x \in DOMAIN zone : zone'[x] = zone[x]
  BY <1>1 DEF Put
<1>4. /\ ZonesOf(v)' = ZonesOf(v) \cup {z}
      /\ \A u : u # v => ZonesOf(u)' = ZonesOf(u)
  BY <1>2, <1>3 DEF ZonesOf
<1>5. \A u : NodesOf(u)' = NodesOf(u) /\ AnnsOf(NodesOf(u))' = AnnsOf(NodesOf(u))
  BY <1>1 DEF NodesOf, AnnsOf
<1>6. ASSUME NEW u \in DOMAIN user, u # v
      PROVE  /\ Capped(u, MaxDevices)' => Cardinality(NodesOf(u)') <= MaxDevices
             /\ Capped(u, MaxOwnedZones)' => Cardinality(ZonesOf(u)') <= MaxOwnedZones
             /\ Capped(u, MaxAnnounced)' => Cardinality(AnnsOf(NodesOf(u))') <= MaxAnnounced
  BY <1>1, <1>4, <1>5, <1>6, CapsOfFewer
<1>7. Capped(v, MaxOwnedZones)' => Cardinality(ZonesOf(v)') <= MaxOwnedZones
  BY <1>1, <1>4, OneMore, OwnedFinite, StoreAssumption DEF AtZoneCap, Capped
<1>8. /\ Capped(v, MaxDevices)' => Cardinality(NodesOf(v)') <= MaxDevices
      /\ Capped(v, MaxAnnounced)' => Cardinality(AnnsOf(NodesOf(v))') <= MaxAnnounced
  BY <1>1, <1>5 DEF Capped, CapsRespected
<1> QED
  BY <1>1, <1>6, <1>7, <1>8 DEF CapsRespected

\* Create counts the user's announcements in the transaction that inserts.
LEMMA AnnounceCaps ==
    ASSUME IInv, CapsRespected, NEW n, NEW r, NEW z, Announce(n, r, z)
    PROVE  CapsRespected'
<1> DEFINE a   == lastId.ann + 1
           s   == AllocateBlock(SynthPool, r.len, SynthInUse)
           row == [node |-> n, real |-> r, synth |-> s]
<1>0. PICK v : v = node[n].user
  OBVIOUS
<1>1. /\ ann' = Put(ann, a, row) /\ a \notin DOMAIN ann /\ ~ AtAnnounceCap(v)
      /\ <<z, n>> \in member /\ UNCHANGED <<user, node, zone>>
  BY <1>0 DEF Announce, Announceable, IInv, StoreTypeOK
<1>2. row.node = n /\ n \in DOMAIN node /\ v \in DOMAIN user
  BY <1>0, <1>1 DEF IInv, ReferentialIntegrity
<1> HIDE DEF a, s, row
<1>3. /\ DOMAIN ann' = DOMAIN ann \cup {a} /\ ann'[a] = row
      /\ \A x \in DOMAIN ann : ann'[x] = ann[x]
  BY <1>1 DEF Put
<1>4. /\ AnnsOf(NodesOf(v))' = AnnsOf(NodesOf(v)) \cup {a}
      /\ \A u : u # v => AnnsOf(NodesOf(u))' = AnnsOf(NodesOf(u))
  BY <1>0, <1>1, <1>2, <1>3 DEF NodesOf, AnnsOf
<1>5. \A u : NodesOf(u)' = NodesOf(u) /\ ZonesOf(u)' = ZonesOf(u)
  BY <1>1 DEF NodesOf, ZonesOf
<1>6. ASSUME NEW u \in DOMAIN user, u # v
      PROVE  /\ Capped(u, MaxDevices)' => Cardinality(NodesOf(u)') <= MaxDevices
             /\ Capped(u, MaxOwnedZones)' => Cardinality(ZonesOf(u)') <= MaxOwnedZones
             /\ Capped(u, MaxAnnounced)' => Cardinality(AnnsOf(NodesOf(u))') <= MaxAnnounced
  BY <1>1, <1>4, <1>5, <1>6, CapsOfFewer
<1>7. Capped(v, MaxAnnounced)' => Cardinality(AnnsOf(NodesOf(v))') <= MaxAnnounced
  BY <1>1, <1>4, OneMore, OwnedFinite, StoreAssumption DEF AtAnnounceCap, Capped
<1>8. /\ Capped(v, MaxDevices)' => Cardinality(NodesOf(v)') <= MaxDevices
      /\ Capped(v, MaxOwnedZones)' => Cardinality(ZonesOf(v)') <= MaxOwnedZones
  BY <1>1, <1>2, <1>5 DEF Capped, CapsRespected
<1> QED
  BY <1>1, <1>6, <1>7, <1>8 DEF CapsRespected

\* No transaction of the store takes a user past a cap.
LEMMA NextKeepsCaps == IInv /\ CapsRespected /\ [NextStore]_dbvars => CapsRespected'
<1> SUFFICES ASSUME IInv, CapsRespected, [NextStore]_dbvars PROVE CapsRespected'
  OBVIOUS
<1>1. CASE UNCHANGED <<user, node, zone, ann>>
  BY <1>1, CapsShrink
<1>2. ASSUME NEW u \in DOMAIN user, DeleteUser(u) PROVE CapsRespected'
  BY <1>2, CapsShrink DEF DeleteUser, Without
<1>3. ASSUME NEW n \in DOMAIN node, DeleteNode(n) PROVE CapsRespected'
  BY <1>3, CapsShrink DEF DeleteNode, Without
<1>4. ASSUME NEW z \in DOMAIN zone, DeleteZone(z) PROVE CapsRespected'
  BY <1>4, CapsShrink DEF DeleteZone, Without
<1>5. ASSUME NEW z \in DOMAIN zone, NEW h, UpdatePassword(z, h) PROVE CapsRespected'
  <2>1. /\ DOMAIN zone' = DOMAIN zone /\ UNCHANGED <<user, node, ann>>
        /\ \A y \in DOMAIN zone : zone'[y].owner = zone[y].owner
    BY <1>5 DEF UpdatePassword, IInv, StoreTypeOK, ZoneRow
  <2> QED
    BY <2>1, CapsShrink
<1>6. ASSUME NEW gone, DetachSet(gone) PROVE CapsRespected'
  BY <1>6, CapsShrink DEF DetachSet, Without
<1>7. CASE NextUsers
  BY <1>2, <1>7, CreateUserCaps DEF NextUsers
<1>8. CASE NextNodes
  BY <1>3, <1>8, InsertNodeCaps DEF NextNodes
<1>9. CASE NextZones
  BY <1>1, <1>4, <1>5, <1>9, InsertZoneCaps DEF NextZones, Join, Leave
<1>10. CASE NextAnns
  BY <1>1, <1>6, <1>10, AnnounceCaps
     DEF NextAnns, AttachAgain, Detach, DetachAllForNodeZone, DetachAllForZone
<1> QED
  BY <1>1, <1>7, <1>8, <1>9, <1>10 DEF NextStore, dbvars

(***************************************************************************)
(* However concurrent requests interleave, no ordinary user ever owns more *)
(* devices, zones or announced subnets than the configured caps allow      *)
(* (insertNode, insertZone and AnnouncementRepo.Create).                   *)
(***************************************************************************)
THEOREM CapsHold == SpecStore => []CapsRespected
<1>1. InitStore => CapsRespected
  BY DEF InitStore, CapsRespected, Capped
<1> QED
  BY <1>1, InitEstablishes, NextPreserves, NextKeepsCaps, PTL DEF SpecStore
=============================================================================
