---------------------------- MODULE RouterProofs ----------------------------
(***************************************************************************)
(* The invariants of Router, for any zones and announcements and any       *)
(* number of commands, failures, crashes and outside events.               *)
(***************************************************************************)
EXTENDS Router, TLAPS

FetchJob   == [pc : {"members", "list", "routes"}, tok : BOOLEAN, todo : SUBSET Zones,
               zones : SUBSET Zones, got : SUBSET Anns]
RouteJob   == [pc : {"replace", "allow"}, tok : BOOLEAN, desired : SUBSET Others,
               todo : SUBSET Others, want : SUBSET Others, routed : SUBSET Others]
CommandJob == [pc : {"compensate", "list", "delete"}, cmd : {"add", "remove"}, tok : BOOLEAN,
               m : Mine, z : Zones, todo : SUBSET Zones, got : SUBSET Anns]
LogoutJob  == [pc : {"down", "teardown", "wipe"}]

Reconciles(j) ==
    \/ j \in FetchJob \cup {Idle}
    \/ j \in RouteJob /\ j.todo \subseteq j.want /\ j.routed \subseteq j.want /\ j.want \subseteq j.desired

Commanded(j) == j \in CommandJob \cup LogoutJob \cup {Idle}

JobsOK == DOMAIN job = Procs /\ Reconciles(reconcile) /\ Commanded(cli)

\* The server's side: this router announces only in its zones.
ServerOK ==
    /\ att \subseteq Anns \X Zones /\ member \subseteq Zones /\ node \in BOOLEAN
    /\ \A x \in att : x[1] \in Mine => x[2] \in member
    /\ member # {} => node

HostOK ==
    /\ local \subseteq Anns /\ nat \subseteq Mine
    /\ creds \in BOOLEAN /\ onboarded \in BOOLEAN /\ scarred \in BOOLEAN

Links  == [up : {TRUE}, ready : BOOLEAN, stale : BOOLEAN, routes : SUBSET Others, allowed : SUBSET Others]
LinkOK == (kern = NoLink \/ kern \in Links) /\ handle \in BOOLEAN /\ (handle => kern.up)

EngineOK ==
    /\ eng \in [mu : {"free", "held"}, wanted : SUBSET Others, applied : SUBSET Others, fooled : BOOLEAN]
    /\ eng.applied \subseteq eng.wanted
    /\ eng.mu = "held" <=> reconcile.pc \in {"replace", "allow"}

\* A teardown knows why it was started; no cycle outlives the process.
DaemonOK ==
    /\ d \in [pc : {"off", "up", "config", "clear", "del", "idle"}, up : BOOLEAN,
              then : {"first", "retry", "rebuild", "fail", "stop"}]
    /\ d.pc \in {"clear", "del"} => d.then # "first"
    /\ d.pc = "off" => reconcile = Idle

TypeInv == ServerOK /\ HostOK /\ LinkOK /\ EngineOK /\ DaemonOK /\ JobsOK

\* An interface has no routes before it is configured, and the daemon configures only what it
\* has just created.
NewIsBare ==
    kern.up => /\ ~ kern.ready => kern.routes = {}
               /\ d.pc = "config" => ~ kern.ready

\* An interface that replaced the one a cycle looked up has no routes while that cycle lasts.
ReplacedIsBare == (eng.mu = "held" /\ ~ handle /\ kern.up) => kern.routes = {}

\* A cycle keeps what is routed and still wanted.
CycleKeeps == reconcile.pc = "replace" => reconcile.want \cap eng.applied \subseteq reconcile.routed

\* The routes of a tunnel that is up are in the memory or in the cycle that will replace it.
Accounted ==
    (d.pc = "idle" /\ d.up /\ kern.up /\ ~ scarred) =>
        /\ eng.mu = "free" => kern.routes \subseteq eng.applied \cap kern.allowed
        /\ reconcile.pc = "replace" => kern.routes \subseteq eng.applied \cup reconcile.routed
        /\ reconcile.pc = "allow" => kern.routes \subseteq reconcile.routed

RouteInv  == NewIsBare /\ ReplacedIsBare /\ CycleKeeps /\ Accounted
RouterInv == TypeInv /\ RouteInv

-----------------------------------------------------------------------------
(* What a step does to the two jobs *)

Routing(j) == j.pc \in {"replace", "allow"}

\* The reconcile goroutine moves on.
LEMMA ReconcileGoes ==
    ASSUME JobsOK, NEW j, Reconciles(j), Goes("reconcile", j)
    PROVE  JobsOK' /\ reconcile' = j /\ cli' = cli
  BY DEF JobsOK, Goes, Procs, reconcile, cli

\* The command moves on.
LEMMA CliGoes ==
    ASSUME JobsOK, NEW j, Commanded(j), Goes("cli", j)
    PROVE  JobsOK' /\ cli' = j /\ reconcile' = reconcile
  BY DEF JobsOK, Goes, Procs, reconcile, cli

\* A job that ends leaves the credentials it read.
LEMMA EndsStep ==
    ASSUME JobsOK, HostOK, NEW p \in Procs, Ends(p)
    PROVE  /\ JobsOK' /\ creds' \in BOOLEAN /\ UNCHANGED onboarded
           /\ p = "reconcile" => reconcile' = Idle /\ cli' = cli
           /\ p = "cli" => reconcile' = reconcile
<1>1. Goes(p, Idle) /\ UNCHANGED onboarded
  BY DEF Ends
<1>2. creds' \in BOOLEAN
  BY DEF Ends
<1>3. Reconciles(Idle) /\ Commanded(Idle)
  BY DEF Reconciles, Commanded
<1>4. p \in {"reconcile", "cli"}
  BY DEF Procs
<1> QED
  BY <1>1, <1>2, <1>3, <1>4, ReconcileGoes, CliGoes

\* A fetch job and an idle one hold no lock.
LEMMA FetchNotRouting ==
    ASSUME NEW j, j \in FetchJob \cup {Idle}
    PROVE  Reconciles(j) /\ ~ Routing(j)
  BY DEF Reconciles, Routing, FetchJob, Idle

\* A step that leaves the interface, the memory and the daemon alone, and a cycle that holds
\* the lock too, keeps the routes accounted for.
LEMMA QuietStep ==
    ASSUME RouteInv, EngineOK, UNCHANGED <<kern, handle, scarred, d, eng.mu, eng.applied>>,
           reconcile' = reconcile \/ (~ Routing(reconcile) /\ ~ Routing(reconcile'))
    PROVE  RouteInv'
<1>1. NewIsBare' /\ ReplacedIsBare'
  BY DEF RouteInv, NewIsBare, ReplacedIsBare
<1>2. CycleKeeps' /\ Accounted'
  BY DEF RouteInv, CycleKeeps, Accounted, Routing
<1> QED
  BY <1>1, <1>2 DEF RouteInv

\* An interface that is gone has no routes.
LEMMA LinkDelStep ==
    ASSUME RouteInv, LinkDel, UNCHANGED <<eng.applied, reconcile>>
    PROVE  RouteInv' /\ LinkOK'
<1>1. kern' = NoLink /\ handle' = FALSE /\ ~ kern'.up
  BY DEF LinkDel, NoLink
<1>2. CycleKeeps'
  BY DEF RouteInv, CycleKeeps
<1>3. NewIsBare' /\ ReplacedIsBare' /\ Accounted'
  BY <1>1 DEF NewIsBare, ReplacedIsBare, Accounted
<1>4. LinkOK'
  BY <1>1 DEF LinkOK
<1> QED
  BY <1>2, <1>3, <1>4 DEF RouteInv

-----------------------------------------------------------------------------
(* reconcileAll up to the lists *)

\* What a cycle does before it takes the lock.
LEMMA CycleStep ==
    ASSUME RouterInv, UNCHANGED <<server, local, link, eng, d, scarred>>,
           creds' \in BOOLEAN, UNCHANGED onboarded, nat' \subseteq Mine, JobsOK',
           ~ Routing(reconcile), ~ Routing(reconcile'),
           reconcile' = Idle \/ d.pc # "off"
    PROVE  RouterInv'
<1>1. ServerOK' /\ HostOK' /\ LinkOK'
  BY DEF RouterInv, TypeInv, ServerOK, HostOK, LinkOK, server, link
<1>2. EngineOK' /\ DaemonOK'
  BY DEF RouterInv, TypeInv, EngineOK, DaemonOK, Routing
<1>3. RouteInv'
  BY QuietStep DEF RouterInv, TypeInv, link
<1> QED
  BY <1>1, <1>2, <1>3 DEF RouterInv, TypeInv

\* The start of a cycle.
LEMMA ReconcileBeginKeeps ==
    ASSUME RouterInv, ReconcileBegin
    PROVE  RouterInv'
<1> DEFINE j == [pc |-> "members", tok |-> TRUE, todo |-> Zones, zones |-> {}, got |-> {}]
<1>1. j \in FetchJob
  BY DEF FetchJob
<1>2. Goes("reconcile", j) /\ reconcile = Idle /\ d.pc # "off"
  BY DEF ReconcileBegin
<1> HIDE DEF j
<1>3. JobsOK' /\ reconcile' = j
  BY <1>1, <1>2, FetchNotRouting, ReconcileGoes DEF RouterInv, TypeInv
<1>4. ~ Routing(reconcile) /\ ~ Routing(reconcile')
  BY <1>1, <1>2, <1>3, FetchNotRouting
<1>5. /\ UNCHANGED <<server, local, link, eng, d, scarred, onboarded>>
      /\ creds' \in BOOLEAN /\ nat' \subseteq Mine
  BY DEF ReconcileBegin, RouterInv, TypeInv, HostOK, files
<1> QED
  BY <1>2, <1>3, <1>4, <1>5, CycleStep

\* One lookup of a zone's members.
LEMMA MemberZonesKeeps ==
    ASSUME RouterInv, MemberZones
    PROVE  RouterInv'
<1> DEFINE Looked(z, found) == [reconcile EXCEPT !.todo = @ \ {z}, !.zones = @ \cup found]
           Next(k) == IF k.todo # {} THEN k ELSE [k EXCEPT !.pc = "list", !.todo = k.zones]
<1>1. reconcile \in FetchJob /\ reconcile.pc = "members"
  BY DEF MemberZones, RouterInv, TypeInv, JobsOK, Reconciles, FetchJob, RouteJob, Idle
<1>2. PICK z \in Zones, found \in SUBSET Zones : Goes("reconcile", Next(Looked(z, found)))
  <2>1. \A z \in Zones : {z} \cap member \in SUBSET Zones /\ {} \in SUBSET Zones
    OBVIOUS
  <2>2. reconcile.todo \subseteq Zones
    BY <1>1 DEF FetchJob
  <2> QED
    BY <2>1, <2>2 DEF MemberZones
<1> DEFINE k == Looked(z, found)
<1>3. k \in FetchJob
  BY <1>1 DEF FetchJob
<1> HIDE DEF k
<1>4. Next(k) \in FetchJob
  BY <1>3 DEF FetchJob
<1> DEFINE j == Next(k)
<1>5. Goes("reconcile", j) /\ j \in FetchJob
  BY <1>2, <1>4 DEF k
<1> HIDE DEF j
<1>6. JobsOK' /\ reconcile' = j
  BY <1>5, FetchNotRouting, ReconcileGoes DEF RouterInv, TypeInv
<1>7. ~ Routing(reconcile) /\ ~ Routing(reconcile')
  BY <1>1, <1>5, <1>6, FetchNotRouting
<1>8. /\ UNCHANGED <<server, local, link, eng, d, scarred, onboarded>>
      /\ creds' \in BOOLEAN /\ nat' \subseteq Mine
  BY DEF MemberZones, RouterInv, TypeInv, HostOK, files
<1>9. d.pc # "off"
  BY <1>1 DEF RouterInv, TypeInv, DaemonOK, Idle
<1> QED
  BY <1>6, <1>7, <1>8, <1>9, CycleStep

\* A cycle ends, wherever it was.
LEMMA CycleEnds ==
    ASSUME RouterInv, Ends("reconcile"), ~ Routing(reconcile), nat' \subseteq Mine,
           UNCHANGED <<server, local, link, eng, d, scarred>>
    PROVE  RouterInv'
<1>1. JobsOK' /\ creds' \in BOOLEAN /\ UNCHANGED onboarded /\ reconcile' = Idle
  BY EndsStep DEF RouterInv, TypeInv, Procs
<1>2. ~ Routing(Idle)
  BY DEF Routing, Idle
<1> QED
  BY <1>1, <1>2, CycleStep

\* One list of a cycle.
LEMMA FetchReconcileKeeps ==
    ASSUME RouterInv, Fetch("reconcile")
    PROVE  RouterInv'
<1>1. reconcile \in FetchJob /\ reconcile.pc = "list" /\ d.pc # "off"
  <2>1. reconcile.pc = "list"
    BY DEF Fetch, reconcile
  <2> QED
    BY <2>1 DEF RouterInv, TypeInv, DaemonOK, JobsOK, Reconciles, FetchJob, RouteJob, Idle
<1>2. UNCHANGED <<server, local, link, nat, eng, d, scarred>> /\ nat' \subseteq Mine
  BY DEF Fetch, RouterInv, TypeInv, HostOK
<1>3. CASE Ends("reconcile")
  BY <1>1, <1>2, <1>3, CycleEnds, FetchNotRouting
<1>4. CASE UNCHANGED files /\ \E z \in reconcile.todo :
             Goes("reconcile", [reconcile EXCEPT !.todo = @ \ {z}, !.got = @ \cup In(z)])
  <2>1. PICK z \in reconcile.todo :
          Goes("reconcile", [reconcile EXCEPT !.todo = @ \ {z}, !.got = @ \cup In(z)])
    BY <1>4
  <2> DEFINE j == [reconcile EXCEPT !.todo = @ \ {z}, !.got = @ \cup In(z)]
  <2>2. In(z) \subseteq Anns
    BY DEF In, Anns
  <2>3. j \in FetchJob
    BY <1>1, <2>2 DEF FetchJob
  <2> HIDE DEF j
  <2>4. JobsOK' /\ reconcile' = j
    BY <2>1, <2>3, FetchNotRouting, ReconcileGoes DEF RouterInv, TypeInv, j
  <2>5. creds' \in BOOLEAN /\ UNCHANGED onboarded
    BY <1>4 DEF RouterInv, TypeInv, HostOK, files
  <2> QED
    BY <1>1, <1>2, <2>3, <2>4, <2>5, FetchNotRouting, CycleStep
<1> QED
  BY <1>3, <1>4 DEF Fetch, reconcile

\* The translation table is rebuilt.
LEMMA RebuildKeeps ==
    ASSUME RouterInv, Rebuild
    PROVE  RouterInv'
<1>1. reconcile \in FetchJob /\ reconcile.pc = "list" /\ d.pc # "off"
  BY DEF Rebuild, RouterInv, TypeInv, DaemonOK, JobsOK, Reconciles, FetchJob, RouteJob, Idle
<1>2. UNCHANGED <<server, local, link, eng, d, scarred>>
  BY DEF Rebuild
<1>3. nat' \subseteq Mine
  BY DEF Rebuild, Rules, RouterInv, TypeInv, HostOK
<1>4. CASE Ends("reconcile")
  BY <1>1, <1>2, <1>3, <1>4, CycleEnds, FetchNotRouting
<1>5. CASE Goes("reconcile", [reconcile EXCEPT !.pc = "routes"]) /\ UNCHANGED files
  <2> DEFINE j == [reconcile EXCEPT !.pc = "routes"]
  <2>1. j \in FetchJob
    BY <1>1 DEF FetchJob
  <2> HIDE DEF j
  <2>2. JobsOK' /\ reconcile' = j
    BY <1>5, <2>1, FetchNotRouting, ReconcileGoes DEF RouterInv, TypeInv, j
  <2>3. creds' \in BOOLEAN /\ UNCHANGED onboarded
    BY <1>5 DEF RouterInv, TypeInv, HostOK, files
  <2> QED
    BY <1>1, <1>2, <1>3, <2>1, <2>2, <2>3, FetchNotRouting, CycleStep
<1> QED
  BY <1>4, <1>5 DEF Rebuild

-----------------------------------------------------------------------------
(* Engine.SetRoutes *)

\* The lock is taken: what is routed is in the memory, and what of it is wanted stays.
LEMMA SetRoutesKeeps ==
    ASSUME RouterInv, SetRoutes
    PROVE  RouterInv'
<1> DEFINE desired == Consumed(reconcile.got)
           want == {p \in desired : ~ LocalOverlap(p)}
           j == [pc |-> "replace", tok |-> reconcile.tok, desired |-> desired,
                 todo |-> want \ eng.applied, want |-> want, routed |-> want \cap eng.applied]
<1>1. reconcile \in FetchJob /\ reconcile.pc = "routes" /\ d.pc # "off" /\ eng.mu = "free"
  BY DEF SetRoutes, RouterInv, TypeInv, DaemonOK, JobsOK, Reconciles, FetchJob, RouteJob, Idle
<1>2. UNCHANGED <<server, local, kern, nat, d, left, scarred>>
  BY DEF SetRoutes
<1>3. CASE Ends("reconcile") /\ UNCHANGED <<eng, handle>>
  <2>1. nat' \subseteq Mine /\ UNCHANGED link
    BY <1>2, <1>3 DEF RouterInv, TypeInv, HostOK, link
  <2> QED
    BY <1>1, <1>2, <1>3, <2>1, CycleEnds, FetchNotRouting
<1>4. CASE /\ kern.up /\ eng' = [eng EXCEPT !.mu = "held"] /\ handle' = TRUE
           /\ Goes("reconcile", j) /\ UNCHANGED files
  <2>1. desired \subseteq Others /\ want \subseteq desired
    BY DEF Consumed
  <2>2. reconcile.tok \in BOOLEAN
    BY <1>1 DEF FetchJob
  <2>3. j \in RouteJob /\ j.todo \subseteq j.want /\ j.routed \subseteq j.want /\ j.want \subseteq j.desired
    <3> HIDE DEF desired, want
    <3> QED BY <2>1, <2>2 DEF RouteJob
  <2>4. j.pc = "replace" /\ j.want \cap eng.applied \subseteq j.routed
    OBVIOUS
  <2> HIDE DEF j
  <2>5. JobsOK' /\ reconcile' = j
    BY <1>4, <2>3, ReconcileGoes DEF RouterInv, TypeInv, Reconciles
  <2>6. /\ eng \in [mu : {"free", "held"}, wanted : SUBSET Others, applied : SUBSET Others, fooled : BOOLEAN]
        /\ eng.applied \subseteq eng.wanted
    BY DEF RouterInv, TypeInv, EngineOK
  <2>7. EngineOK' /\ eng'.mu = "held" /\ eng'.applied = eng.applied
    BY <1>4, <2>4, <2>5, <2>6 DEF EngineOK
  <2>8. ServerOK' /\ HostOK' /\ LinkOK' /\ DaemonOK'
    BY <1>1, <1>2, <1>4 DEF RouterInv, TypeInv, ServerOK, HostOK, LinkOK, DaemonOK, server, files
  <2>9. RouteInv'
    <3>1. NewIsBare' /\ ReplacedIsBare'
      BY <1>2, <1>4 DEF RouterInv, RouteInv, NewIsBare, ReplacedIsBare
    <3>2. CycleKeeps' /\ Accounted'
      BY <1>1, <1>2, <2>4, <2>5, <2>7 DEF RouterInv, RouteInv, CycleKeeps, Accounted
    <3> QED
      BY <3>1, <3>2 DEF RouteInv
  <2> QED
    BY <2>5, <2>7, <2>8, <2>9 DEF RouterInv, TypeInv
<1> QED
  BY <1>3, <1>4 DEF SetRoutes

\* A route is added to the interface that was looked up, if that still exists.
LEMMA RouteReplaceKeeps ==
    ASSUME RouterInv, RouteReplace
    PROVE  RouterInv'
<1>1. /\ reconcile \in RouteJob /\ reconcile.pc = "replace" /\ reconcile.todo \subseteq reconcile.want
      /\ reconcile.routed \subseteq reconcile.want /\ reconcile.want \subseteq reconcile.desired
      /\ eng.mu = "held" /\ d.pc # "off"
  BY DEF RouteReplace, RouterInv, TypeInv, DaemonOK, EngineOK, JobsOK, Reconciles, FetchJob, RouteJob, Idle
<1>2. UNCHANGED <<server, files, local, handle, nat, eng, d, scarred>>
  BY DEF RouteReplace
<1>3. PICK p, more :
        /\ p \in reconcile.todo /\ more \in {{}, {p}}
        /\ Goes("reconcile", [reconcile EXCEPT !.todo = @ \ {p}, !.routed = @ \cup more])
        /\ more # {} => handle /\ kern.ready /\ kern' = [kern EXCEPT !.routes = @ \cup more]
        /\ more = {} => kern' = kern
  <2>1. PICK p \in reconcile.todo :
          \/ /\ handle /\ kern.ready /\ kern' = [kern EXCEPT !.routes = @ \cup {p}]
             /\ Goes("reconcile", [reconcile EXCEPT !.todo = @ \ {p}, !.routed = @ \cup {p}])
          \/ Goes("reconcile", [reconcile EXCEPT !.todo = @ \ {p}]) /\ UNCHANGED kern
    BY DEF RouteReplace
  <2>2. CASE Goes("reconcile", [reconcile EXCEPT !.todo = @ \ {p}]) /\ UNCHANGED kern
    <3>1. [reconcile EXCEPT !.todo = @ \ {p}] = [reconcile EXCEPT !.todo = @ \ {p}, !.routed = @ \cup {}]
      BY <1>1 DEF RouteJob
    <3> QED
      BY <2>2, <3>1
  <2> QED
    BY <2>1, <2>2
<1> DEFINE j == [reconcile EXCEPT !.todo = @ \ {p}, !.routed = @ \cup more]
<1>4. /\ j \in RouteJob /\ j.todo \subseteq j.want /\ j.routed \subseteq j.want /\ j.want \subseteq j.desired
      /\ j.pc = "replace" /\ j.want = reconcile.want /\ j.routed = reconcile.routed \cup more
  BY <1>1, <1>3 DEF RouteJob
<1>5. Goes("reconcile", j)
  BY <1>3
<1> HIDE DEF j
<1>6. JobsOK' /\ reconcile' = j
  BY <1>4, <1>5, ReconcileGoes DEF RouterInv, TypeInv, Reconciles
<1>7. ServerOK' /\ HostOK' /\ EngineOK' /\ DaemonOK'
  BY <1>1, <1>2, <1>4, <1>6
  DEF RouterInv, TypeInv, ServerOK, HostOK, EngineOK, DaemonOK, server, files
<1>8. /\ kern'.up = kern.up /\ LinkOK'
      /\ kern.up => /\ kern'.ready = kern.ready /\ kern'.routes = kern.routes \cup more
                    /\ kern'.allowed = kern.allowed
  <2>1. CASE more = {}
    BY <1>2, <1>3, <2>1 DEF RouterInv, TypeInv, LinkOK
  <2>2. CASE more # {}
    <3>1. kern \in Links /\ more \subseteq Others
      BY <1>1, <1>3, <2>2 DEF RouterInv, TypeInv, LinkOK, NoLink, RouteJob
    <3>2. kern' = [kern EXCEPT !.routes = @ \cup more]
      BY <1>3, <2>2
    <3>3. kern' \in Links
      BY <3>1, <3>2 DEF Links
    <3> QED
      BY <1>2, <3>1, <3>2, <3>3 DEF RouterInv, TypeInv, LinkOK, Links
  <2> QED
    BY <2>1, <2>2
<1>9. RouteInv'
  <2>1. NewIsBare'
    BY <1>2, <1>3, <1>8 DEF RouterInv, RouteInv, NewIsBare
  <2>2. ReplacedIsBare'
    BY <1>2, <1>3, <1>8 DEF RouterInv, RouteInv, ReplacedIsBare
  <2>3. CycleKeeps'
    BY <1>1, <1>2, <1>4, <1>6 DEF RouterInv, RouteInv, CycleKeeps
  <2>4. Accounted'
    BY <1>1, <1>2, <1>4, <1>6, <1>8 DEF RouterInv, RouteInv, Accounted
  <2> QED
    BY <2>1, <2>2, <2>3, <2>4 DEF RouteInv
<1> QED
  BY <1>6, <1>7, <1>8, <1>9 DEF RouterInv, TypeInv

\* Routes nobody wants any more are deleted, or a deletion failed and the interface is scarred.
LEMMA RouteDelKeeps ==
    ASSUME RouterInv, RouteDel
    PROVE  RouterInv'
<1> DEFINE old == eng.applied \ reconcile.want
           j == [reconcile EXCEPT !.pc = "allow"]
<1>1. /\ reconcile \in RouteJob /\ reconcile.pc = "replace" /\ reconcile.todo \subseteq reconcile.want
      /\ reconcile.routed \subseteq reconcile.want /\ reconcile.want \subseteq reconcile.desired
      /\ eng.mu = "held" /\ d.pc # "off"
  BY DEF RouteDel, RouterInv, TypeInv, DaemonOK, EngineOK, JobsOK, Reconciles, FetchJob, RouteJob, Idle
<1>2. UNCHANGED <<server, files, local, handle, nat, eng, d>> /\ Goes("reconcile", j)
  BY DEF RouteDel
<1>3. /\ j \in RouteJob /\ j.todo \subseteq j.want /\ j.routed \subseteq j.want /\ j.want \subseteq j.desired
      /\ j.pc = "allow" /\ j.routed = reconcile.routed
  BY <1>1 DEF RouteJob
<1> HIDE DEF j
<1>4. JobsOK' /\ reconcile' = j
  BY <1>2, <1>3, ReconcileGoes DEF RouterInv, TypeInv, Reconciles
<1>5. scarred' \in BOOLEAN
  BY DEF RouteDel, RouterInv, TypeInv, HostOK
<1>6. ServerOK' /\ HostOK' /\ EngineOK' /\ DaemonOK'
  BY <1>1, <1>2, <1>3, <1>4, <1>5
  DEF RouterInv, TypeInv, ServerOK, HostOK, EngineOK, DaemonOK, server, files
<1>7. CASE UNCHANGED kern /\ scarred' = TRUE
  <2>1. LinkOK'
    BY <1>2, <1>7 DEF RouterInv, TypeInv, LinkOK
  <2>2. RouteInv'
    BY <1>2, <1>3, <1>4, <1>7
    DEF RouterInv, RouteInv, NewIsBare, ReplacedIsBare, CycleKeeps, Accounted
  <2> QED
    BY <1>4, <1>6, <2>1, <2>2 DEF RouterInv, TypeInv
<1>8. CASE UNCHANGED scarred /\ kern' = IF handle THEN [kern EXCEPT !.routes = @ \ old] ELSE kern
  <2>1. /\ LinkOK' /\ kern'.up = kern.up
        /\ kern.up => /\ kern'.ready = kern.ready
                      /\ kern'.routes = IF handle THEN kern.routes \ old ELSE kern.routes
    <3>1. CASE handle
      <4>1. kern \in Links
        BY <3>1 DEF RouterInv, TypeInv, LinkOK, NoLink
      <4>2. kern' = [kern EXCEPT !.routes = @ \ old]
        BY <1>8, <3>1
      <4>3. kern' \in Links
        BY <4>1, <4>2 DEF Links
      <4> QED
        BY <1>2, <3>1, <4>1, <4>2, <4>3 DEF RouterInv, TypeInv, LinkOK, Links
    <3>2. CASE ~ handle
      BY <1>2, <1>8, <3>2 DEF RouterInv, TypeInv, LinkOK
    <3> QED
      BY <3>1, <3>2
  <2>2. NewIsBare' /\ ReplacedIsBare'
    BY <1>1, <1>2, <2>1 DEF RouterInv, RouteInv, NewIsBare, ReplacedIsBare
  <2>3. CycleKeeps'
    BY <1>3, <1>4 DEF CycleKeeps
  <2>4. Accounted'
    <3>1. CASE handle
      BY <1>1, <1>2, <1>3, <1>4, <1>8, <2>1, <3>1 DEF RouterInv, RouteInv, CycleKeeps, Accounted
    <3>2. CASE ~ handle
      BY <1>1, <1>2, <1>3, <1>4, <1>8, <2>1, <3>2 DEF RouterInv, RouteInv, ReplacedIsBare, Accounted
    <3> QED
      BY <3>1, <3>2
  <2> QED
    BY <1>4, <1>6, <2>1, <2>2, <2>3, <2>4 DEF RouterInv, TypeInv, RouteInv
<1> QED
  BY <1>7, <1>8 DEF RouteDel

\* The peer and the memory get what was routed, or the interface is scarred.
LEMMA AllowedIPsKeeps ==
    ASSUME RouterInv, AllowedIPs
    PROVE  RouterInv'
<1> DEFINE j == reconcile
<1>1. /\ reconcile \in RouteJob /\ reconcile.pc = "allow"
      /\ reconcile.routed \subseteq reconcile.want /\ reconcile.want \subseteq reconcile.desired
      /\ eng.mu = "held"
  BY DEF AllowedIPs, RouterInv, TypeInv, EngineOK, JobsOK, Reconciles, FetchJob, RouteJob, Idle
<1>2. UNCHANGED <<server, local, handle, nat, d>> /\ Ends("reconcile")
  BY DEF AllowedIPs
<1>3. JobsOK' /\ creds' \in BOOLEAN /\ UNCHANGED onboarded /\ reconcile' = Idle /\ reconcile'.pc = "idle"
  BY <1>2, EndsStep DEF RouterInv, TypeInv, Procs, Idle
<1>4. /\ eng \in [mu : {"free", "held"}, wanted : SUBSET Others, applied : SUBSET Others, fooled : BOOLEAN]
      /\ eng.applied \subseteq eng.wanted /\ j.routed \subseteq Others /\ j.desired \subseteq Others
      /\ j.routed \subseteq j.desired
  BY <1>1 DEF RouterInv, TypeInv, EngineOK, RouteJob
<1>5. ServerOK' /\ DaemonOK'
  BY <1>2, <1>3 DEF RouterInv, TypeInv, ServerOK, DaemonOK, server
<1>6. CASE /\ kern.up /\ UNCHANGED scarred
           /\ kern' = IF kern.ready THEN [kern EXCEPT !.allowed = j.routed] ELSE kern
           /\ eng' = [eng EXCEPT !.mu = "free", !.wanted = j.desired, !.applied = j.routed,
                                 !.fooled = @ \/ ~ handle \/ d.pc = "del"]
  <2>1. EngineOK' /\ eng'.mu = "free" /\ eng'.applied = j.routed
    BY <1>3, <1>4, <1>6 DEF EngineOK
  <2>2. HostOK'
    BY <1>2, <1>3, <1>6 DEF RouterInv, TypeInv, HostOK
  <2>3. kern \in Links
    BY <1>6 DEF RouterInv, TypeInv, LinkOK, NoLink
  <2>4. /\ kern' \in Links /\ kern'.ready = kern.ready /\ kern'.routes = kern.routes
        /\ kern.ready => kern'.allowed = j.routed
    BY <1>4, <1>6, <2>3 DEF Links
  <2>5. LinkOK' /\ kern'.up
    BY <1>2, <2>4 DEF RouterInv, TypeInv, LinkOK, Links
  <2>6. NewIsBare' /\ ReplacedIsBare' /\ CycleKeeps'
    BY <1>2, <1>3, <1>6, <2>1, <2>4 DEF RouterInv, RouteInv, NewIsBare, ReplacedIsBare, CycleKeeps
  <2>7. Accounted'
    BY <1>1, <1>2, <1>3, <1>6, <2>1, <2>4 DEF RouterInv, RouteInv, NewIsBare, Accounted
  <2> QED
    BY <1>3, <1>5, <2>1, <2>2, <2>5, <2>6, <2>7 DEF RouterInv, TypeInv, RouteInv
<1>7. CASE scarred' = (scarred \/ kern.up) /\ eng' = [eng EXCEPT !.mu = "free"] /\ UNCHANGED kern
  <2>1. EngineOK' /\ eng'.mu = "free"
    BY <1>3, <1>4, <1>7 DEF EngineOK
  <2>2. scarred' \in BOOLEAN /\ (kern'.up => scarred')
    BY <1>7 DEF RouterInv, TypeInv, HostOK
  <2>3. HostOK' /\ LinkOK'
    BY <1>2, <1>3, <1>7, <2>2 DEF RouterInv, TypeInv, HostOK, LinkOK
  <2>4. NewIsBare' /\ ReplacedIsBare' /\ CycleKeeps' /\ Accounted'
    BY <1>2, <1>3, <1>7, <2>1, <2>2
    DEF RouterInv, RouteInv, NewIsBare, ReplacedIsBare, CycleKeeps, Accounted
  <2> QED
    BY <1>3, <1>5, <2>1, <2>3, <2>4 DEF RouterInv, TypeInv, RouteInv
<1> QED
  BY <1>6, <1>7 DEF AllowedIPs

-----------------------------------------------------------------------------
(* Daemon.Run *)

\* The process starts or ends with an empty memory and no cycle, and its tunnel is not up.
LEMMA FreshProcess ==
    ASSUME RouterInv, eng' = NewEngine, JobsOK', reconcile' = Idle, DaemonOK', d'.pc \in {"off", "up"},
           LinkOK', kern' = kern \/ ~ kern'.up, HostOK', UNCHANGED server
    PROVE  RouterInv'
<1>1. eng'.mu = "free" /\ EngineOK' /\ reconcile'.pc = "idle"
  BY DEF NewEngine, EngineOK, Idle
<1>2. ServerOK'
  BY DEF RouterInv, TypeInv, ServerOK, server
<1>3. NewIsBare' /\ ReplacedIsBare'
  BY <1>1 DEF RouterInv, RouteInv, NewIsBare, ReplacedIsBare
<1>4. CycleKeeps' /\ Accounted'
  BY <1>1 DEF CycleKeeps, Accounted
<1> QED
  BY <1>1, <1>2, <1>3, <1>4 DEF RouterInv, TypeInv, RouteInv

\* The process starts.
LEMMA StartKeeps ==
    ASSUME RouterInv, Start
    PROVE  RouterInv'
<1>1. UNCHANGED <<server, files, local, link, nat, job, scarred>> /\ eng' = NewEngine
  BY DEF Start
<1>2. reconcile' = Idle /\ JobsOK'
  BY <1>1 DEF Start, RouterInv, TypeInv, DaemonOK, JobsOK, reconcile, cli
<1>3. DaemonOK' /\ d'.pc = "up"
  BY DEF Start, DaemonOK
<1>4. LinkOK' /\ HostOK' /\ kern' = kern
  BY <1>1 DEF RouterInv, TypeInv, LinkOK, HostOK, link, files
<1> QED
  BY <1>1, <1>2, <1>3, <1>4, FreshProcess

\* The process ends.
LEMMA ExitStep ==
    ASSUME RouterInv, Exits, LinkOK', kern' = kern \/ ~ kern'.up, HostOK', UNCHANGED server
    PROVE  RouterInv'
<1>1. JobsOK' /\ reconcile' = Idle
  BY ReconcileGoes DEF Exits, Reconciles, RouterInv, TypeInv
<1>2. DaemonOK' /\ d'.pc = "off" /\ eng' = NewEngine
  BY <1>1 DEF Exits, DaemonOK
<1> QED
  BY <1>1, <1>2, FreshProcess

\* It crashes.
LEMMA CrashKeeps ==
    ASSUME RouterInv, Crash
    PROVE  RouterInv'
<1>1. UNCHANGED <<server, files, local, link, nat, scarred>> /\ Exits
  BY DEF Crash
<1>2. LinkOK' /\ HostOK' /\ kern' = kern
  BY <1>1 DEF RouterInv, TypeInv, LinkOK, HostOK, link, files
<1> QED
  BY <1>1, <1>2, ExitStep

\* A step of the daemon that touches neither the interface nor the memory, and that does not
\* bring the tunnel up.
LEMMA DaemonCalm ==
    ASSUME RouterInv, UNCHANGED <<server, files, local, link, nat, eng, job, scarred>>, DaemonOK',
           d'.pc # "config", d'.pc # "idle" \/ ~ d'.up
    PROVE  RouterInv'
<1>1. ServerOK' /\ HostOK' /\ LinkOK' /\ EngineOK' /\ JobsOK'
  BY DEF RouterInv, TypeInv, ServerOK, HostOK, LinkOK, EngineOK, JobsOK, server, files, link,
         reconcile, cli
<1>2. RouteInv'
  BY DEF RouterInv, RouteInv, NewIsBare, ReplacedIsBare, CycleKeeps, Accounted, link, reconcile
<1> QED
  BY <1>1, <1>2 DEF RouterInv, TypeInv

\* Fails and Down keep the daemon's own state in order.
LEMMA DaemonMoves ==
    ASSUME DaemonOK, d.pc # "off", UNCHANGED reconcile
    PROVE  /\ Fails => DaemonOK' /\ d'.pc = "idle" /\ ~ d'.up
           /\ \A why \in {"retry", "rebuild", "fail", "stop"} : Down(why) => DaemonOK' /\ d'.pc = "clear"
  BY DEF DaemonOK, Fails, Down

\* Ticks, and SIGTERM.
LEMMA TickKeeps ==
    ASSUME RouterInv, Tick \/ Stop
    PROVE  RouterInv'
<1>1. UNCHANGED <<server, files, local, link, nat, eng, job, scarred>> /\ d.pc = "idle"
  BY DEF Tick, Stop
<1>2. UNCHANGED reconcile
  BY <1>1 DEF reconcile
<1>3. CASE Down("rebuild") \/ Down("stop")
  <2>1. DaemonOK' /\ d'.pc = "clear"
    BY <1>1, <1>2, <1>3, DaemonMoves DEF RouterInv, TypeInv
  <2> QED
    BY <1>1, <2>1, DaemonCalm
<1>4. CASE d' = [d EXCEPT !.pc = "up", !.then = "first"]
  <2>1. DaemonOK' /\ d'.pc = "up"
    BY <1>4 DEF RouterInv, TypeInv, DaemonOK
  <2> QED
    BY <1>1, <2>1, DaemonCalm
<1> QED
  BY <1>3, <1>4 DEF Tick, Stop

\* The start of Up: an interface that exists is taken down, a new one is bare.
LEMMA UpCheckKeeps ==
    ASSUME RouterInv, UpCheck
    PROVE  RouterInv'
<1>1. UNCHANGED <<server, files, local, handle, nat, eng, job>> /\ d.pc = "up" /\ UNCHANGED reconcile
  BY DEF UpCheck, reconcile
<1>2. CASE UNCHANGED <<kern, scarred>> /\ (Fails \/ Down("retry"))
  <2>1. DaemonOK' /\ (d'.pc = "clear" \/ (d'.pc = "idle" /\ ~ d'.up))
    BY <1>1, <1>2, DaemonMoves DEF RouterInv, TypeInv
  <2> QED
    BY <1>1, <1>2, <2>1, DaemonCalm DEF link
<1>3. CASE ~ kern.up /\ kern' = NewLink /\ scarred' = FALSE /\ d' = [d EXCEPT !.pc = "config"]
  <2>1. DaemonOK' /\ d'.pc = "config"
    BY <1>1, <1>3 DEF RouterInv, TypeInv, DaemonOK
  <2>2. LinkOK' /\ kern'.routes = {} /\ ~ kern'.ready
    BY <1>1, <1>3 DEF RouterInv, TypeInv, LinkOK, Links, NewLink
  <2>3. ServerOK' /\ HostOK' /\ EngineOK' /\ JobsOK'
    BY <1>1, <1>3 DEF RouterInv, TypeInv, ServerOK, HostOK, EngineOK, JobsOK, server, files,
                      reconcile, cli
  <2>4. NewIsBare' /\ ReplacedIsBare'
    BY <2>2 DEF NewIsBare, ReplacedIsBare
  <2>5. CycleKeeps' /\ Accounted'
    BY <1>1, <2>1, <2>2 DEF RouterInv, RouteInv, CycleKeeps, Accounted
  <2> QED
    BY <2>1, <2>2, <2>3, <2>4, <2>5 DEF RouterInv, TypeInv, RouteInv
<1> QED
  BY <1>2, <1>3 DEF UpCheck

\* The rest of Up: the tunnel comes up without routes.
LEMMA UpConfigureKeeps ==
    ASSUME RouterInv, UpConfigure
    PROVE  RouterInv'
<1>1. /\ UNCHANGED <<server, files, local, handle, nat, eng, job, scarred>> /\ d.pc = "config"
      /\ UNCHANGED reconcile
  BY DEF UpConfigure, reconcile
<1>2. CASE Down("fail") /\ UNCHANGED kern
  <2>1. DaemonOK' /\ d'.pc = "clear"
    BY <1>1, <1>2, DaemonMoves DEF RouterInv, TypeInv
  <2> QED
    BY <1>1, <1>2, <2>1, DaemonCalm DEF link
<1>3. CASE kern.up /\ kern' = [kern EXCEPT !.ready = TRUE] /\ d' = [d EXCEPT !.pc = "idle", !.up = TRUE]
  <2>1. DaemonOK' /\ d'.pc = "idle"
    BY <1>1, <1>3 DEF RouterInv, TypeInv, DaemonOK
  <2>2. kern \in Links /\ kern.routes = {}
    BY <1>1, <1>3 DEF RouterInv, TypeInv, RouteInv, LinkOK, NoLink, NewIsBare
  <2>3. kern' \in Links /\ kern'.routes = {} /\ kern'.ready
    BY <1>3, <2>2 DEF Links
  <2>4. LinkOK'
    BY <1>1, <2>3 DEF RouterInv, TypeInv, LinkOK, Links
  <2>5. ServerOK' /\ HostOK' /\ EngineOK' /\ JobsOK'
    BY <1>1 DEF RouterInv, TypeInv, ServerOK, HostOK, EngineOK, JobsOK, server, files, reconcile, cli
  <2>6. NewIsBare' /\ ReplacedIsBare'
    BY <2>1, <2>3 DEF NewIsBare, ReplacedIsBare
  <2>7. CycleKeeps' /\ Accounted'
    BY <1>1, <2>3 DEF RouterInv, RouteInv, CycleKeeps, Accounted
  <2> QED
    BY <2>1, <2>4, <2>5, <2>6, <2>7 DEF RouterInv, TypeInv, RouteInv
<1> QED
  BY <1>2, <1>3 DEF UpConfigure

\* Down forgets the routes; the interface follows.
LEMMA DownClearKeeps ==
    ASSUME RouterInv, DownClear
    PROVE  RouterInv'
<1>1. /\ UNCHANGED <<server, files, local, link, nat, job, scarred>> /\ d.pc = "clear"
      /\ UNCHANGED reconcile /\ eng' = NewEngine /\ eng.mu = "free"
  BY DEF DownClear, reconcile
<1>2. DaemonOK' /\ d'.pc = "del"
  BY <1>1 DEF DownClear, RouterInv, TypeInv, DaemonOK
<1>3. EngineOK' /\ eng'.mu = "free" /\ reconcile.pc \notin {"replace", "allow"}
  BY <1>1 DEF RouterInv, TypeInv, EngineOK, NewEngine
<1>4. ServerOK' /\ HostOK' /\ LinkOK' /\ JobsOK'
  BY <1>1 DEF RouterInv, TypeInv, ServerOK, HostOK, LinkOK, JobsOK, server, files, link,
              reconcile, cli
<1>5. NewIsBare' /\ ReplacedIsBare'
  BY <1>1, <1>2, <1>3 DEF RouterInv, RouteInv, NewIsBare, ReplacedIsBare, link
<1>6. CycleKeeps' /\ Accounted'
  BY <1>1, <1>2, <1>3 DEF CycleKeeps, Accounted
<1> QED
  BY <1>2, <1>3, <1>4, <1>5, <1>6 DEF RouterInv, TypeInv, RouteInv

\* The interface goes, or it stays and is scarred.
LEMMA DownDelKeeps ==
    ASSUME RouterInv, DownDel
    PROVE  RouterInv'
<1>1. /\ UNCHANGED <<server, files, local, nat>> /\ d.pc = "del"
      /\ d.then \in {"retry", "rebuild", "fail", "stop"}
  BY DEF DownDel, RouterInv, TypeInv, DaemonOK
<1>2. CASE LinkDel /\ UNCHANGED scarred /\ Exits
  <2>1. LinkOK' /\ ~ kern'.up
    BY <1>2 DEF LinkDel, LinkOK, NoLink
  <2>2. HostOK'
    BY <1>1, <1>2 DEF RouterInv, TypeInv, HostOK, files
  <2> QED
    BY <1>1, <1>2, <2>1, <2>2, ExitStep
<1>3. CASE UNCHANGED link /\ scarred' = TRUE /\ Exits
  <2>1. LinkOK' /\ HostOK' /\ kern' = kern
    BY <1>1, <1>3 DEF RouterInv, TypeInv, LinkOK, HostOK, link, files
  <2> QED
    BY <1>1, <1>3, <2>1, ExitStep
<1>4. CASE /\ LinkDel /\ UNCHANGED <<scarred, eng, job>>
           /\ \/ d' = [d EXCEPT !.pc = "up"] \/ Fails
              \/ d' = [d EXCEPT !.pc = "up", !.then = "first"]
  <2>1. UNCHANGED reconcile
    BY <1>4 DEF reconcile
  <2>2. DaemonOK'
    BY <1>1, <1>4, <2>1 DEF RouterInv, TypeInv, DaemonOK, Fails
  <2>3. ServerOK' /\ HostOK' /\ EngineOK' /\ JobsOK'
    BY <1>1, <1>4 DEF RouterInv, TypeInv, ServerOK, HostOK, EngineOK, JobsOK, server, files,
                      reconcile, cli
  <2>4. RouteInv' /\ LinkOK'
    BY <1>4, <2>1, LinkDelStep DEF RouterInv
  <2> QED
    BY <2>2, <2>3, <2>4 DEF RouterInv, TypeInv
<1>5. CASE /\ UNCHANGED <<link, eng, job>> /\ scarred' = TRUE
           /\ Fails \/ d' = [d EXCEPT !.pc = "idle"]
  <2>1. UNCHANGED reconcile
    BY <1>5 DEF reconcile
  <2>2. DaemonOK' /\ d'.pc = "idle"
    BY <1>1, <1>5, <2>1 DEF RouterInv, TypeInv, DaemonOK, Fails
  <2>3. ServerOK' /\ HostOK' /\ LinkOK' /\ EngineOK' /\ JobsOK'
    BY <1>1, <1>5 DEF RouterInv, TypeInv, ServerOK, HostOK, LinkOK, EngineOK, JobsOK, server,
                      files, link, reconcile, cli
  <2>4. RouteInv'
    BY <1>5, <2>1, <2>2
    DEF RouterInv, RouteInv, NewIsBare, ReplacedIsBare, CycleKeeps, Accounted, link
  <2> QED
    BY <2>2, <2>3, <2>4 DEF RouterInv, TypeInv
<1> QED
  <2>1. CASE d.then = "retry"
    BY <1>4, <1>5, <2>1 DEF DownDel
  <2>2. CASE d.then = "rebuild"
    BY <1>4, <1>5, <2>2 DEF DownDel
  <2>3. CASE d.then = "fail"
    BY <1>4, <1>5, <2>3 DEF DownDel
  <2>4. CASE d.then = "stop"
    BY <1>2, <1>3, <2>4 DEF DownDel
  <2> QED
    BY <1>1, <2>1, <2>2, <2>3, <2>4

-----------------------------------------------------------------------------
(* Commands and surroundings *)

\* What a command or the outside does to the server and the files concerns no route.
LEMMA OutsideStep ==
    ASSUME RouterInv, UNCHANGED <<link, eng, d, scarred, reconcile>>, ServerOK', JobsOK',
           creds' \in BOOLEAN, onboarded' \in BOOLEAN, nat' \subseteq Mine, local' \subseteq Anns
    PROVE  RouterInv'
<1>1. HostOK' /\ LinkOK' /\ EngineOK' /\ DaemonOK'
  BY DEF RouterInv, TypeInv, HostOK, LinkOK, EngineOK, DaemonOK, link
<1>2. RouteInv'
  BY QuietStep DEF RouterInv, TypeInv, link
<1> QED
  BY <1>1, <1>2 DEF RouterInv, TypeInv

\* Attachments that go leave the server in order.
LEMMA DetachStep ==
    ASSUME ServerOK, att' \subseteq att, UNCHANGED <<member, node>>
    PROVE  ServerOK'
  BY DEF ServerOK

\* An attachment is a pair of an announcement and a zone.
LEMMA AttachStep ==
    ASSUME ServerOK, NEW a \in Anns, NEW z \in Zones, a \in Mine => z \in member,
           att' \subseteq att \cup {<<a, z>>}, UNCHANGED <<member, node>>
    PROVE  ServerOK'
  BY DEF ServerOK

\* A command at one of its steps.
LEMMA CliTypes ==
    ASSUME RouterInv
    PROVE  /\ cli.pc \in {"compensate", "list", "delete"} => cli \in CommandJob
           /\ HostOK /\ ServerOK /\ JobsOK
           /\ creds \in BOOLEAN /\ onboarded \in BOOLEAN /\ nat \subseteq Mine /\ local \subseteq Anns
  BY DEF RouterInv, TypeInv, HostOK, JobsOK, Commanded, CommandJob, LogoutJob, Idle

\* The ends of a command.
LEMMA CliEnds ==
    ASSUME RouterInv, Ends("cli"), UNCHANGED <<link, eng, d, scarred>>, ServerOK',
           nat' \subseteq Mine, UNCHANGED local
    PROVE  RouterInv'
<1>1. JobsOK' /\ creds' \in BOOLEAN /\ onboarded' = onboarded /\ reconcile' = reconcile
  BY CliTypes, EndsStep DEF Procs
<1>2. onboarded' \in BOOLEAN /\ local' \subseteq Anns
  BY <1>1, CliTypes
<1> QED
  BY <1>1, <1>2, OutsideStep

\* announce add and announce remove begin.
LEMMA AnnounceKeeps ==
    ASSUME RouterInv, NEW m \in Mine, NEW z \in Zones, AnnounceAdd(m, z) \/ AnnounceRemove(m, z)
    PROVE  RouterInv'
<1>1. UNCHANGED <<member, node, files, local, link, nat, eng, d, scarred>>
  BY DEF AnnounceAdd, AnnounceRemove, server
<1>2. ServerOK'
  <2>1. CASE AnnounceAdd(m, z)
    BY <2>1, CliTypes, AttachStep DEF AnnounceAdd, Anns
  <2>2. CASE AnnounceRemove(m, z)
    BY <2>2, CliTypes, DetachStep DEF AnnounceRemove, server
  <2> QED
    BY <2>1, <2>2
<1>3. JobsOK' /\ reconcile' = reconcile
  <2>1. CASE UNCHANGED job
    BY <2>1, CliTypes DEF JobsOK, reconcile, cli
  <2>2. CASE \E pc \in {"compensate", "list", "delete"}, cmd \in {"add", "remove"} :
               Goes("cli", [pc |-> pc, cmd |-> cmd, tok |-> TRUE, m |-> m, z |-> z,
                            todo |-> Zones, got |-> {}])
    <3>1. PICK pc \in {"compensate", "list", "delete"}, cmd \in {"add", "remove"} :
            Goes("cli", [pc |-> pc, cmd |-> cmd, tok |-> TRUE, m |-> m, z |-> z,
                         todo |-> Zones, got |-> {}])
      BY <2>2
    <3>2. Commanded([pc |-> pc, cmd |-> cmd, tok |-> TRUE, m |-> m, z |-> z, todo |-> Zones, got |-> {}])
      BY DEF Commanded, CommandJob
    <3> QED
      BY <3>1, <3>2, CliTypes, CliGoes
  <2> QED
    BY <2>1, <2>2 DEF AnnounceAdd, AnnounceRemove
<1>4. creds' \in BOOLEAN /\ onboarded' \in BOOLEAN /\ nat' \subseteq Mine /\ local' \subseteq Anns
  BY <1>1, CliTypes DEF files
<1> QED
  BY <1>1, <1>2, <1>3, <1>4, OutsideStep

\* The steps of announce.
LEMMA AnnounceStepKeeps ==
    ASSUME RouterInv, DeleteAnnouncement \/ Fetch("cli") \/ RebuildFromServer \/ Compensate
    PROVE  RouterInv'
<1>1. cli \in CommandJob
  <2>1. cli.pc \in {"compensate", "list", "delete"}
    BY DEF DeleteAnnouncement, Fetch, RebuildFromServer, Compensate, cli
  <2> QED
    BY <2>1, CliTypes
<1>2. UNCHANGED <<member, node, local, link, eng, d, scarred>>
  BY DEF DeleteAnnouncement, Fetch, RebuildFromServer, Compensate, server
<1>3. ServerOK'
  <2>1. att' \subseteq att
    BY DEF DeleteAnnouncement, Fetch, RebuildFromServer, Compensate, server
  <2> QED
    BY <1>2, <2>1, CliTypes, DetachStep
<1>4. nat' \subseteq Mine
  BY CliTypes DEF DeleteAnnouncement, Fetch, RebuildFromServer, Compensate, Rules
<1>5. CASE Ends("cli")
  BY <1>2, <1>3, <1>4, <1>5, CliEnds
<1>6. CASE /\ UNCHANGED files
           /\ \E pc \in {"compensate", "list"}, todo \in SUBSET Zones, got \in SUBSET Anns :
                 Goes("cli", [cli EXCEPT !.pc = pc, !.todo = todo, !.got = got])
  <2>1. PICK pc \in {"compensate", "list"}, todo \in SUBSET Zones, got \in SUBSET Anns :
          Goes("cli", [cli EXCEPT !.pc = pc, !.todo = todo, !.got = got])
    BY <1>6
  <2>2. Commanded([cli EXCEPT !.pc = pc, !.todo = todo, !.got = got])
    BY <1>1 DEF Commanded, CommandJob
  <2>3. JobsOK' /\ reconcile' = reconcile
    BY <2>1, <2>2, CliTypes, CliGoes
  <2>4. creds' \in BOOLEAN /\ onboarded' \in BOOLEAN /\ local' \subseteq Anns
    BY <1>2, <1>6, CliTypes DEF files
  <2> QED
    BY <1>2, <1>3, <1>4, <2>3, <2>4, OutsideStep
<1> QED
  <2>1. cli.todo \subseteq Zones /\ cli.got \subseteq Anns /\ cli.pc \in {"compensate", "list", "delete"}
    BY <1>1 DEF CommandJob
  <2>2. CASE UNCHANGED files /\ \E pc \in {"compensate", "list"} : Goes("cli", [cli EXCEPT !.pc = pc])
    <3>1. PICK pc \in {"compensate", "list"} : Goes("cli", [cli EXCEPT !.pc = pc])
      BY <2>2
    <3>2. [cli EXCEPT !.pc = pc] = [cli EXCEPT !.pc = pc, !.todo = cli.todo, !.got = cli.got]
      BY <1>1 DEF CommandJob
    <3>3. Goes("cli", [cli EXCEPT !.pc = pc, !.todo = cli.todo, !.got = cli.got])
      BY <3>1, <3>2
    <3> QED
      BY <1>6, <2>1, <2>2, <3>3
  <2>3. CASE /\ UNCHANGED files /\ cli.pc = "list"
             /\ \E z \in cli.todo : Goes("cli", [cli EXCEPT !.todo = @ \ {z}, !.got = @ \cup In(z)])
    <3>1. PICK z \in cli.todo : Goes("cli", [cli EXCEPT !.todo = @ \ {z}, !.got = @ \cup In(z)])
      BY <2>3
    <3>2. In(z) \subseteq Anns
      BY DEF In, Anns
    <3>3. [cli EXCEPT !.todo = @ \ {z}, !.got = @ \cup In(z)]
            = [cli EXCEPT !.pc = "list", !.todo = cli.todo \ {z}, !.got = cli.got \cup In(z)]
      BY <1>1, <2>3 DEF CommandJob
    <3>4. cli.todo \ {z} \in SUBSET Zones /\ cli.got \cup In(z) \in SUBSET Anns
      BY <2>1, <3>2
    <3> QED
      BY <1>6, <2>3, <3>1, <3>3, <3>4
  <2>4. CASE Fetch("cli")
    BY <1>5, <2>2, <2>3, <2>4 DEF Fetch, cli
  <2>5. CASE DeleteAnnouncement \/ RebuildFromServer \/ Compensate
    BY <1>5, <2>2, <2>5 DEF DeleteAnnouncement, RebuildFromServer, Compensate
  <2> QED
    BY <2>4, <2>5

\* A command takes the interface away.
LEMMA LinkGoes ==
    ASSUME RouterInv, LinkDel, UNCHANGED <<server, files, local, nat, d, scarred, reconcile>>, JobsOK',
           EngineOK', eng'.applied = eng.applied
    PROVE  RouterInv'
<1>1. ServerOK' /\ HostOK' /\ DaemonOK'
  BY DEF RouterInv, TypeInv, ServerOK, HostOK, DaemonOK, server, files
<1>2. RouteInv' /\ LinkOK'
  BY LinkDelStep DEF RouterInv
<1> QED
  BY <1>1, <1>2 DEF RouterInv, TypeInv

\* down and logout.
LEMMA LogoutKeeps ==
    ASSUME RouterInv, CmdDown \/ (\E force \in BOOLEAN : CmdLogout(force)) \/ LogoutDown
    PROVE  RouterInv'
<1>1. \A pc \in {"down", "teardown", "wipe"} : Commanded([pc |-> pc])
  BY DEF Commanded, LogoutJob
<1>2. CASE CmdDown
  <2>1. JobsOK' /\ reconcile' = reconcile
    BY <1>2, CliTypes DEF CmdDown, JobsOK, reconcile, cli
  <2>2. EngineOK' /\ eng'.applied = eng.applied
    BY <1>2, <2>1 DEF CmdDown, RouterInv, TypeInv, EngineOK
  <2> QED
    BY <1>2, <2>1, <2>2, LinkGoes DEF CmdDown
<1>3. CASE LogoutDown
  <2>1. JobsOK' /\ reconcile' = reconcile
    BY <1>1, <1>3, CliTypes, CliGoes DEF LogoutDown
  <2>2. EngineOK' /\ eng' = eng
    BY <1>3, <2>1 DEF LogoutDown, RouterInv, TypeInv, EngineOK
  <2>3. CASE LinkDel
    BY <1>3, <2>1, <2>2, <2>3, LinkGoes DEF LogoutDown
  <2>4. CASE UNCHANGED link
    <3>1. ServerOK' /\ creds' \in BOOLEAN /\ onboarded' \in BOOLEAN /\ nat' \subseteq Mine /\ local' \subseteq Anns
      BY <1>3, CliTypes DEF LogoutDown, ServerOK, server, files
    <3> QED
      BY <1>3, <2>1, <2>4, <3>1, OutsideStep DEF LogoutDown
  <2> QED
    BY <1>3, <2>3, <2>4 DEF LogoutDown
<1>4. ASSUME NEW force \in BOOLEAN, CmdLogout(force) PROVE RouterInv'
  <2>1. UNCHANGED <<files, local, link, nat, eng, d, scarred>>
    BY <1>4 DEF CmdLogout
  <2>2. JobsOK' /\ reconcile' = reconcile
    <3>1. CASE UNCHANGED job
      BY <3>1, CliTypes DEF JobsOK, reconcile, cli
    <3>2. CASE Goes("cli", [pc |-> "down"])
      BY <1>1, <3>2, CliTypes, CliGoes
    <3> QED
      BY <1>4, <3>1, <3>2 DEF CmdLogout
  <2>3. ServerOK'
    <3>1. CASE UNCHANGED server
      BY <3>1, CliTypes DEF ServerOK, server
    <3>2. CASE node' = FALSE /\ member' = {} /\ att' = {x \in att : x[1] \notin Mine}
      BY <3>2, CliTypes DEF ServerOK
    <3> QED
      BY <1>4, <3>1, <3>2 DEF CmdLogout
  <2>4. creds' \in BOOLEAN /\ onboarded' \in BOOLEAN /\ nat' \subseteq Mine /\ local' \subseteq Anns
    BY <2>1, CliTypes DEF files
  <2> QED
    BY <2>1, <2>2, <2>3, <2>4, OutsideStep
<1> QED
  BY <1>2, <1>3, <1>4

\* The wipe at the end of a log-out.
LEMMA WipeKeeps ==
    ASSUME RouterInv, Teardown \/ Wipe
    PROVE  RouterInv'
<1>1. UNCHANGED <<server, local, link, eng, d, scarred>>
  BY DEF Teardown, Wipe
<1>2. PICK j \in {Idle, [pc |-> "wipe"]} : Goes("cli", j)
  BY DEF Teardown, Wipe
<1>3. Commanded(j)
  BY <1>2 DEF Commanded, LogoutJob
<1>4. JobsOK' /\ reconcile' = reconcile
  BY <1>2, <1>3, CliTypes, CliGoes
<1>5. creds' \in BOOLEAN /\ onboarded' \in BOOLEAN
  BY CliTypes DEF Teardown, Wipe, files
<1>6. ServerOK' /\ nat' \subseteq Mine /\ local' \subseteq Anns
  BY <1>1, CliTypes DEF Teardown, Wipe, ServerOK, server
<1> QED
  BY <1>1, <1>4, <1>5, <1>6, OutsideStep

\* The surroundings.
LEMMA SurroundingsKeep ==
    ASSUME RouterInv, Surroundings
    PROVE  RouterInv'
<1>1. JobsOK' /\ reconcile' = reconcile
  BY CliTypes DEF Surroundings, OthersAnnounce, ChangeZone, ChangeLocal, GoesStale, JobsOK,
                  reconcile, cli
<1>2. CASE GoesStale
  <2>1. UNCHANGED <<server, files, local, handle, nat, eng, d, job, scarred>>
    BY <1>2 DEF GoesStale
  <2>2. kern \in Links
    BY <1>2 DEF GoesStale, RouterInv, TypeInv, LinkOK, NoLink
  <2>3. /\ kern' \in Links /\ kern'.ready = kern.ready /\ kern'.routes = kern.routes
        /\ kern'.allowed = kern.allowed /\ kern'.up = kern.up
    BY <1>2, <2>2 DEF GoesStale, Links
  <2>4. ServerOK' /\ HostOK' /\ LinkOK' /\ EngineOK' /\ DaemonOK'
    BY <1>1, <2>1, <2>3
    DEF RouterInv, TypeInv, ServerOK, HostOK, LinkOK, EngineOK, DaemonOK, server, files
  <2>5. RouteInv'
    BY <1>1, <2>1, <2>3 DEF RouterInv, RouteInv, NewIsBare, ReplacedIsBare, CycleKeeps, Accounted
  <2> QED
    BY <1>1, <2>4, <2>5 DEF RouterInv, TypeInv
<1>3. ASSUME NEW a \in Others, NEW z \in Zones, OthersAnnounce(a, z) PROVE RouterInv'
  <2>1. UNCHANGED <<member, node, files, local, link, nat, eng, d, scarred>>
    BY <1>3 DEF OthersAnnounce
  <2>2. ServerOK'
    BY <1>3, <2>1, CliTypes, AttachStep, RouterAssumption DEF OthersAnnounce, Anns
  <2> QED
    BY <1>1, <2>1, <2>2, CliTypes, OutsideStep DEF files
<1>4. ASSUME NEW z \in Zones, ChangeZone(z) PROVE RouterInv'
  <2>1. UNCHANGED <<node, files, local, link, nat, eng, d, scarred>>
    BY <1>4 DEF ChangeZone
  <2>2. ServerOK'
    <3>1. CASE z \in member /\ member' = member \ {z} /\ att' = att \ (Mine \X {z})
      BY <2>1, <3>1, CliTypes DEF ServerOK
    <3>2. CASE node /\ member' = member \cup {z} /\ UNCHANGED att
      BY <2>1, <3>2, CliTypes DEF ServerOK
    <3> QED
      BY <1>4, <3>1, <3>2 DEF ChangeZone
  <2> QED
    BY <1>1, <2>1, <2>2, CliTypes, OutsideStep DEF files
<1>5. ASSUME NEW a \in Mine \cup Others, ChangeLocal(a) PROVE RouterInv'
  <2>1. UNCHANGED <<server, files, link, nat, eng, d, scarred>>
    BY <1>5 DEF ChangeLocal
  <2>2. local' \subseteq Anns /\ ServerOK'
    BY <1>5, <2>1, CliTypes DEF ChangeLocal, Anns, ServerOK, server
  <2> QED
    BY <1>1, <2>1, <2>2, CliTypes, OutsideStep DEF files
<1> QED
  BY <1>2, <1>3, <1>4, <1>5 DEF Surroundings

-----------------------------------------------------------------------------

\* The invariant holds after onboarding.
LEMMA InitHolds == InitRouter => RouterInv
<1> SUFFICES ASSUME InitRouter PROVE RouterInv
  OBVIOUS
<1>1. JobsOK /\ reconcile = Idle /\ cli = Idle
  BY DEF InitRouter, JobsOK, Procs, reconcile, cli, Reconciles, Commanded
<1>2. ServerOK
  BY RouterAssumption DEF InitRouter, ServerOK, Anns
<1>3. HostOK /\ LinkOK /\ ~ kern.up
  BY DEF InitRouter, HostOK, LinkOK, NoLink
<1>4. EngineOK /\ DaemonOK
  BY <1>1 DEF InitRouter, EngineOK, NewEngine, DaemonOK, Idle
<1>5. NewIsBare /\ ReplacedIsBare /\ CycleKeeps /\ Accounted
  BY <1>1, <1>3 DEF NewIsBare, ReplacedIsBare, CycleKeeps, Accounted, Idle
<1> QED
  BY <1>1, <1>2, <1>3, <1>4, <1>5 DEF RouterInv, TypeInv, RouteInv

\* Every step keeps it.
LEMMA NextKeeps == RouterInv /\ [NextRouter]_vars => RouterInv'
<1> SUFFICES ASSUME RouterInv, [NextRouter]_vars PROVE RouterInv'
  OBVIOUS
<1>1. CASE Start \/ Stop \/ Crash \/ DownClear
  BY <1>1, StartKeeps, TickKeeps, CrashKeeps, DownClearKeeps
<1>2. CASE DaemonStep
  BY <1>2, UpCheckKeeps, UpConfigureKeeps, DownDelKeeps, TickKeeps DEF DaemonStep
<1>3. CASE ReconcileStep
  BY <1>3, ReconcileBeginKeeps, MemberZonesKeeps, FetchReconcileKeeps, RebuildKeeps,
     SetRoutesKeeps, RouteReplaceKeeps, RouteDelKeeps, AllowedIPsKeeps DEF ReconcileStep
<1>4. CASE CliStep
  BY <1>4, AnnounceStepKeeps, LogoutKeeps, WipeKeeps DEF CliStep
<1>5. CASE Commands
  BY <1>5, AnnounceKeeps, LogoutKeeps DEF Commands
<1>6. CASE Surroundings
  BY <1>6, SurroundingsKeep
<1>7. CASE UNCHANGED vars
  <2>1. UNCHANGED <<server, files, local, link, nat, eng, d, job, scarred>>
    BY <1>7 DEF vars
  <2>2. ServerOK' /\ JobsOK' /\ reconcile' = reconcile
    BY <2>1, CliTypes DEF ServerOK, JobsOK, server, reconcile, cli
  <2> QED
    BY <2>1, <2>2, CliTypes, OutsideStep DEF files
<1> QED
  BY <1>1, <1>2, <1>3, <1>4, <1>5, <1>6, <1>7 DEF NextRouter

\* The invariant of the router client.
THEOREM RouterInvariant == SpecRouter => []RouterInv
  BY InitHolds, NextKeeps, PTL DEF SpecRouter

\* RouterTypeOK: the route memory, the kernel's routes and the rules hold announcements of the
\* right side, and routesMu is held exactly while a cycle changes routes.
THEOREM RouterTypeCorrect == SpecRouter => []RouterTypeOK
<1>1. RouterInv => RouterTypeOK
  BY DEF RouterInv, TypeInv, ServerOK, HostOK, LinkOK, Links, EngineOK, DaemonOK, JobsOK, RouterTypeOK
<1> QED
  BY <1>1, RouterInvariant, PTL

\* RoutesAccounted: between two calls of SetRoutes no route of the tunnel is forgotten, whatever
\* crashes, commands and rebuilds went before (SetRoutes, Down).
THEOREM RoutesAlwaysAccounted == SpecRouter => []RoutesAccounted
<1>1. RouterInv => RoutesAccounted
  BY DEF RouterInv, RouteInv, Accounted, RoutesAccounted
<1> QED
  BY <1>1, RouterInvariant, PTL
=============================================================================
