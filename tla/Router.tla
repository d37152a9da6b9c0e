------------------------------- MODULE Router -------------------------------
(***************************************************************************)
(* The OpenWrt client lanweave-routerd: the daemon that keeps the tunnel   *)
(* up (router/daemon, router/engine), the reconcile loop that derives the  *)
(* NAT table and the consumer routes from the server's lists               *)
(* (cmd/lanweave-routerd, client/routesync, router/natctl), and the        *)
(* commands announce, down and logout, which run in a process of their     *)
(* own.  An API call, a netlink call or a critical section is one step.    *)
(*                                                                         *)
(* An announcement stands for its real subnet and its synthetic block,     *)
(* which the server assigns once.  The account owns a device in every      *)
(* zone, so the server lists all zones to it; member holds those of this   *)
(* router.                                                                 *)
(***************************************************************************)
EXTENDS Naturals, FiniteSets

CONSTANTS
    Mine,                 \* announcements this router may make
    Others,               \* announcements of other nodes
    Zones,
    MaxEvents,            \* bound on commands and changes of the surroundings
    MaxFaults             \* bound on failing calls and crashes

ASSUME RouterAssumption == Mine \cap Others = {} /\ MaxEvents \in Nat /\ MaxFaults \in Nat

VARIABLES
    att,                  \* server: <<announcement, zone>> attachments
    member,               \* server: zones of this router
    node,                 \* server: this router is registered
    creds,                \* keyring: the session tokens
    onboarded,            \* state.json and the device key
    local,                \* announcements whose block overlaps a local network
    kern,                 \* the interface, or NoLink
    handle,               \* the interface SetRoutes looked up still exists
    nat,                  \* rules of the translation table
    eng,                  \* Engine: [mu, wanted, applied, fooled]; fooled: see RoutesRecover
    d,                    \* Daemon.Run: [pc, up, then]
    job,                  \* the reconcile goroutine and the command: pc and locals
    left,                 \* [events, faults] left
    scarred               \* a call on this interface failed halfway (see SetRoutes)

server == <<att, member, node>>
files  == <<creds, onboarded>>
link   == <<kern, handle>>
vars   == <<server, files, local, link, nat, eng, d, job, left, scarred>>

-----------------------------------------------------------------------------

NoLink  == [up |-> FALSE]
NewLink == [up |-> TRUE, ready |-> FALSE, stale |-> FALSE, routes |-> {}, allowed |-> {}]
Idle    == [pc |-> "idle"]
NewEngine == [mu |-> "free", wanted |-> {}, applied |-> {}, fooled |-> FALSE]

Procs == {"reconcile", "cli"}

Fault == left.faults > 0 /\ left' = [left EXCEPT !.faults = @ - 1]
Event == left.events > 0 /\ left' = [left EXCEPT !.events = @ - 1]
Smooth == UNCHANGED left

Goes(p, j) == job' = [job EXCEPT ![p] = j]

\* persistTokens, deferred by reconcileAll and cmdAnnounce, writes back what newClient read.
Ends(p) == Goes(p, Idle) /\ creds' = (creds \/ job[p].tok) /\ UNCHANGED onboarded

In(z) == {a \in Mine \cup Others : <<a, z>> \in att}

\* The two views of a fetched list: rules of one's own, and routes to what others announce.
Rules(got)    == got \cap Mine
Consumed(got) == got \cap Others
LocalOverlap(a) == a \in local

-----------------------------------------------------------------------------
(* Daemon.Run and Engine.Up *)

Start ==
    /\ d.pc = "off" /\ onboarded
    /\ d' = [pc |-> "up", up |-> FALSE, then |-> "first"]
    /\ eng' = NewEngine
    /\ UNCHANGED <<server, files, local, link, nat, job, left, scarred>>

\* The end of the process, wherever the reconcile goroutine is.
Exits ==
    /\ d' = [pc |-> "off", up |-> FALSE, then |-> "first"]
    /\ eng' = NewEngine /\ Goes("reconcile", Idle)

Crash ==
    /\ d.pc # "off" /\ Fault /\ Exits
    /\ UNCHANGED <<server, files, local, link, nat, scarred>>

Fails    == d' = [d EXCEPT !.pc = "idle", !.up = FALSE]
Down(why) == d' = [d EXCEPT !.pc = "clear", !.then = why]

\* A slip: an interface that exists is an error like any other.
UpCheckNoAdopt ==
    /\ d.pc = "up"
    /\ \/ kern.up /\ Smooth /\ Fails /\ UNCHANGED <<kern, scarred>>
       \/ ~ kern.up /\ Fault /\ Fails /\ UNCHANGED <<kern, scarred>>
       \/ ~ kern.up /\ Smooth /\ kern' = NewLink /\ scarred' = FALSE /\ d' = [d EXCEPT !.pc = "config"]
    /\ UNCHANGED <<server, files, local, handle, nat, eng, job>>

\* Up's checks and LinkAdd; tryUp replaces an interface that exists, once.
UpCheck ==
    /\ d.pc = "up"
    /\ \/ /\ kern.up /\ Smooth /\ UNCHANGED <<kern, scarred>>
          /\ IF d.then = "retry" THEN Fails ELSE Down("retry")
       \/ ~ kern.up /\ Fault /\ Fails /\ UNCHANGED <<kern, scarred>>
       \/ ~ kern.up /\ Smooth /\ kern' = NewLink /\ scarred' = FALSE /\ d' = [d EXCEPT !.pc = "config"]
    /\ UNCHANGED <<server, files, local, handle, nat, eng, job>>

\* The rest of Up: address, peer, link up, VPN route.
UpConfigure ==
    /\ d.pc = "config"
    /\ \/ ~ kern.up /\ Smooth /\ Down("fail") /\ UNCHANGED kern
       \/ kern.up /\ Fault /\ Down("fail") /\ UNCHANGED kern
       \/ /\ kern.up /\ Smooth
          /\ kern' = [kern EXCEPT !.ready = TRUE] /\ d' = [d EXCEPT !.pc = "idle", !.up = TRUE]
    /\ UNCHANGED <<server, files, local, handle, nat, eng, job, scarred>>

\* Down's critical section.
DownClear ==
    /\ d.pc = "clear" /\ eng.mu = "free"
    /\ eng' = NewEngine /\ d' = [d EXCEPT !.pc = "del"]
    /\ UNCHANGED <<server, files, local, link, nat, job, left, scarred>>

LinkDel == kern' = NoLink /\ handle' = FALSE

\* The rest of Down, and what its caller does next.
DownDel ==
    /\ d.pc = "del"
    /\ \/ /\ Smooth /\ LinkDel /\ UNCHANGED scarred
          /\ CASE d.then = "retry"   -> d' = [d EXCEPT !.pc = "up"] /\ UNCHANGED <<eng, job>>
               [] d.then = "rebuild" -> d' = [d EXCEPT !.pc = "up", !.then = "first"] /\ UNCHANGED <<eng, job>>
               [] d.then = "fail"    -> Fails /\ UNCHANGED <<eng, job>>
               [] d.then = "stop"    -> Exits
       \/ /\ kern.up /\ Fault /\ scarred' = TRUE /\ UNCHANGED link
          /\ CASE d.then = "rebuild" -> d' = [d EXCEPT !.pc = "idle"] /\ UNCHANGED <<eng, job>>
               [] d.then = "stop"    -> Exits
               [] OTHER              -> Fails /\ UNCHANGED <<eng, job>>
    /\ UNCHANGED <<server, files, local, nat>>

\* A missing interface is not stale: LastHandshake fails.
Stale == kern.up /\ kern.stale

\* A tick of Run.
Tick ==
    /\ d.pc = "idle"
    /\ \/ ~ d.up /\ d' = [d EXCEPT !.pc = "up", !.then = "first"]
       \/ d.up /\ Stale /\ Down("rebuild")
    /\ UNCHANGED <<server, files, local, link, nat, eng, job, left, scarred>>

\* SIGTERM.
Stop ==
    /\ d.pc = "idle" /\ Down("stop")
    /\ UNCHANGED <<server, files, local, link, nat, eng, job, left, scarred>>

-----------------------------------------------------------------------------
(* reconcileAll *)

reconcile == job["reconcile"]

\* reconcileOnce, from the ticker or OnUp: one at a time.  ListZones is the first call; one
\* that fails changes nothing.
ReconcileBegin ==
    /\ d.pc # "off" /\ reconcile = Idle /\ creds
    /\ Goes("reconcile", [pc |-> "members", tok |-> TRUE, todo |-> Zones, zones |-> {}, got |-> {}])
    /\ UNCHANGED <<server, files, local, link, nat, eng, d, left, scarred>>

\* MemberZones: a lookup that fails skips its zone.  Fetch takes the zones that are left.
MemberZones ==
    LET j == reconcile
        Looked(z, found) ==
            LET k == [j EXCEPT !.todo = @ \ {z}, !.zones = @ \cup found]
            IN  Goes("reconcile", IF k.todo # {} THEN k ELSE [k EXCEPT !.pc = "list", !.todo = k.zones])
    IN
    /\ j.pc = "members"
    /\ \E z \in j.todo : \/ Smooth /\ Looked(z, {z} \cap member)
                         \/ Fault /\ Looked(z, {})
    /\ UNCHANGED <<server, files, local, link, nat, eng, d, scarred>>

\* One ListAnnouncements of Fetch, for either process.
Fetch(p) ==
    LET j == job[p] IN
    /\ j.pc = "list" /\ j.todo # {}
    /\ \/ /\ Smooth /\ UNCHANGED files
          /\ \E z \in j.todo : Goes(p, [j EXCEPT !.todo = @ \ {z}, !.got = @ \cup In(z)])
       \/ /\ Fault
          /\ IF p = "cli" /\ j.cmd = "add"
             THEN Goes(p, [j EXCEPT !.pc = "compensate"]) /\ UNCHANGED files
             ELSE Ends(p)
    /\ UNCHANGED <<server, local, link, nat, eng, d, scarred>>

\* A slip: an empty rule set is taken for nothing to do.
RebuildUnlessEmpty ==
    LET j == reconcile IN
    /\ j.pc = "list" /\ j.todo = {}
    /\ \/ /\ Smooth /\ nat' = (IF Rules(j.got) = {} THEN nat ELSE Rules(j.got))
          /\ Goes("reconcile", [j EXCEPT !.pc = "routes"]) /\ UNCHANGED files
       \/ Fault /\ Ends("reconcile") /\ UNCHANGED nat
    /\ UNCHANGED <<server, local, link, eng, d, scarred>>

\* natctl.Rebuild: one atomic flush under a lock.
Rebuild ==
    LET j == reconcile IN
    /\ j.pc = "list" /\ j.todo = {}
    /\ \/ /\ Smooth /\ nat' = Rules(j.got)
          /\ Goes("reconcile", [j EXCEPT !.pc = "routes"]) /\ UNCHANGED files
       \/ Fault /\ Ends("reconcile") /\ UNCHANGED nat
    /\ UNCHANGED <<server, local, link, eng, d, scarred>>

-----------------------------------------------------------------------------
(* Engine.SetRoutes, which holds routesMu throughout *)

\* A slip: a set that is covered by the last one is taken for unchanged.
SetRoutesCovered ==
    LET j == reconcile
        desired == Consumed(j.got)
        want == {p \in desired : ~ LocalOverlap(p)}
    IN
    /\ j.pc = "routes" /\ eng.mu = "free"
    /\ IF (desired \subseteq eng.wanted /\ Cardinality(eng.applied) = Cardinality(eng.wanted)) \/ ~ kern.up
       THEN Ends("reconcile") /\ UNCHANGED <<eng, handle>>
       ELSE /\ eng' = [eng EXCEPT !.mu = "held"] /\ handle' = TRUE
            /\ Goes("reconcile", [pc |-> "replace", tok |-> j.tok, desired |-> desired,
                                  todo |-> want \ eng.applied, want |-> want,
                                  routed |-> want \cap eng.applied])
            /\ UNCHANGED files
    /\ UNCHANGED <<server, local, kern, nat, d, left, scarred>>

\* The comparison with the memory, LinkByName and LocalOverlap.
SetRoutes ==
    LET j == reconcile
        desired == Consumed(j.got)
        want == {p \in desired : ~ LocalOverlap(p)}
    IN
    /\ j.pc = "routes" /\ eng.mu = "free"
    /\ IF (desired = eng.wanted /\ Cardinality(eng.applied) = Cardinality(eng.wanted)) \/ ~ kern.up
       THEN Ends("reconcile") /\ UNCHANGED <<eng, handle>>
       ELSE /\ eng' = [eng EXCEPT !.mu = "held"] /\ handle' = TRUE
            /\ Goes("reconcile", [pc |-> "replace", tok |-> j.tok, desired |-> desired,
                                  todo |-> want \ eng.applied, want |-> want,
                                  routed |-> want \cap eng.applied])
            /\ UNCHANGED files
    /\ UNCHANGED <<server, local, kern, nat, d, left, scarred>>

\* One RouteReplace; a prefix that fails is left out.
RouteReplace ==
    LET j == reconcile IN
    /\ j.pc = "replace"
    /\ \E p \in j.todo :
          \/ /\ handle /\ kern.ready /\ Smooth
             /\ kern' = [kern EXCEPT !.routes = @ \cup {p}]
             /\ Goes("reconcile", [j EXCEPT !.todo = @ \ {p}, !.routed = @ \cup {p}])
          \/ /\ IF handle /\ kern.ready THEN Fault ELSE Smooth
             /\ Goes("reconcile", [j EXCEPT !.todo = @ \ {p}])
             /\ UNCHANGED kern
    /\ UNCHANGED <<server, files, local, handle, nat, eng, d, scarred>>

\* A slip: routes that are no longer wanted stay.
RouteDelForgotten ==
    /\ reconcile.pc = "replace" /\ reconcile.todo = {}
    /\ Goes("reconcile", [reconcile EXCEPT !.pc = "allow"])
    /\ UNCHANGED <<server, files, local, link, nat, eng, d, left, scarred>>

\* RouteDel of what was applied and is not wanted; errors are ignored.
RouteDel ==
    LET j == reconcile
        old == eng.applied \ j.want
    IN
    /\ j.pc = "replace" /\ j.todo = {}
    /\ \/ /\ Smooth /\ UNCHANGED scarred
          /\ kern' = IF handle THEN [kern EXCEPT !.routes = @ \ old] ELSE kern
       \/ handle /\ old # {} /\ Fault /\ scarred' = TRUE /\ UNCHANGED kern
    /\ Goes("reconcile", [j EXCEPT !.pc = "allow"])
    /\ UNCHANGED <<server, files, local, handle, nat, eng, d>>

\* A slip: the error return leaves routesMu locked.
AllowedIPsLocked ==
    LET j == reconcile IN
    /\ j.pc = "allow"
    /\ \/ /\ kern.up /\ Smooth
          /\ kern' = IF kern.ready THEN [kern EXCEPT !.allowed = j.routed] ELSE kern
          /\ eng' = [eng EXCEPT !.mu = "free", !.wanted = j.desired, !.applied = j.routed, !.fooled = @ \/ ~ handle \/ d.pc = "del"]
          /\ UNCHANGED scarred
       \/ /\ IF kern.up THEN Fault ELSE Smooth
          /\ scarred' = (scarred \/ kern.up)
          /\ UNCHANGED <<eng, kern>>
    /\ Ends("reconcile")
    /\ UNCHANGED <<server, local, handle, nat, d>>

\* ReplaceAllowedIPs of the peer, if it is there (UpdateOnly), and the memory.
AllowedIPs ==
    LET j == reconcile IN
    /\ j.pc = "allow"
    /\ \/ /\ kern.up /\ Smooth
          /\ kern' = IF kern.ready THEN [kern EXCEPT !.allowed = j.routed] ELSE kern
          /\ eng' = [eng EXCEPT !.mu = "free", !.wanted = j.desired, !.applied = j.routed, !.fooled = @ \/ ~ handle \/ d.pc = "del"]
          /\ UNCHANGED scarred
       \/ /\ IF kern.up THEN Fault ELSE Smooth
          /\ scarred' = (scarred \/ kern.up)
          /\ eng' = [eng EXCEPT !.mu = "free"] /\ UNCHANGED kern
    /\ Ends("reconcile")
    /\ UNCHANGED <<server, local, handle, nat, d>>

-----------------------------------------------------------------------------
(* Commands: announce add and remove *)

cli == job["cli"]

\* cmdAnnounceAdd: the server creates the attachment or finds it; then localOverlap.
AnnounceAdd(m, z) ==
    /\ cli = Idle /\ Event /\ onboarded /\ creds /\ z \in member
    /\ att' = att \cup {<<m, z>>}
    /\ \/ Goes("cli", [pc |-> IF LocalOverlap(m) THEN "compensate" ELSE "list", cmd |-> "add", tok |-> TRUE,
                       m |-> m, z |-> z, todo |-> Zones, got |-> {}])
       \/ UNCHANGED job                  \* the answer is lost
    /\ UNCHANGED <<member, node, files, local, link, nat, eng, d, scarred>>

\* cmdAnnounceRemove finds the id in the zone's list.
AnnounceRemove(m, z) ==
    /\ cli = Idle /\ Event /\ onboarded /\ creds /\ <<m, z>> \in att
    /\ Goes("cli", [pc |-> "delete", cmd |-> "remove", tok |-> TRUE,
                    m |-> m, z |-> z, todo |-> Zones, got |-> {}])
    /\ UNCHANGED <<server, files, local, link, nat, eng, d, scarred>>

DeleteAnnouncement ==
    /\ cli.pc = "delete"
    /\ \/ /\ <<cli.m, cli.z>> \in att /\ Smooth /\ att' = att \ {<<cli.m, cli.z>>}
          /\ Goes("cli", [cli EXCEPT !.pc = "list"]) /\ UNCHANGED files
       \/ /\ IF <<cli.m, cli.z>> \in att THEN Fault ELSE Smooth
          /\ Ends("cli") /\ att' \in {att, att \ {<<cli.m, cli.z>>}}
    /\ UNCHANGED <<member, node, local, link, nat, eng, d, scarred>>

\* The end of rebuildFromServer.
RebuildFromServer ==
    /\ cli.pc = "list" /\ cli.todo = {}
    /\ \/ Smooth /\ nat' = Rules(cli.got) /\ Ends("cli")
       \/ /\ Fault /\ UNCHANGED nat
          /\ IF cli.cmd = "add" THEN Goes("cli", [cli EXCEPT !.pc = "compensate"]) /\ UNCHANGED files
             ELSE Ends("cli")
    /\ UNCHANGED <<server, local, link, eng, d, scarred>>

Compensate ==
    /\ cli.pc = "compensate"
    /\ \/ Smooth /\ att' = att \ {<<cli.m, cli.z>>}
       \/ Fault /\ UNCHANGED att
    /\ Ends("cli")
    /\ UNCHANGED <<member, node, local, link, nat, eng, d, scarred>>

-----------------------------------------------------------------------------
(* Commands: down and logout; their engine has no memory of routes *)

CmdDown ==
    /\ cli = Idle /\ Event /\ kern.up /\ LinkDel
    /\ eng' = [eng EXCEPT !.fooled = (d.pc # "off")]
    /\ UNCHANGED <<server, files, local, nat, d, job, scarred>>

\* cmdLogout: DeleteNode, or --force.  If its answer is lost, so is every retry: no such node.
CmdLogout(force) ==
    /\ cli = Idle /\ Event /\ onboarded
    /\ \/ force /\ UNCHANGED server /\ Goes("cli", [pc |-> "down"])
       \/ /\ ~ force /\ creds /\ node
          /\ node' = FALSE /\ member' = {} /\ att' = {x \in att : x[1] \notin Mine}
          /\ (Goes("cli", [pc |-> "down"]) \/ UNCHANGED job)
    /\ UNCHANGED <<files, local, link, nat, eng, d, scarred>>

\* The steps of the local wipe, each made whatever the others come to.
LogoutDown ==
    /\ cli.pc = "down" /\ Goes("cli", [pc |-> "teardown"])
    /\ \/ Smooth /\ LinkDel
       \/ kern.up /\ Fault /\ UNCHANGED link
    /\ UNCHANGED <<server, files, local, nat, eng, d, scarred>>

\* natctl.Teardown.
Teardown ==
    /\ cli.pc = "teardown" /\ Goes("cli", [pc |-> "wipe"])
    /\ \/ Smooth /\ nat' = {}
       \/ Fault /\ UNCHANGED nat
    /\ UNCHANGED <<server, files, local, link, eng, d, scarred>>

Wipe ==
    /\ cli.pc = "wipe" /\ onboarded' = FALSE /\ Goes("cli", Idle)
    /\ \/ Smooth /\ creds' = FALSE
       \/ Fault /\ UNCHANGED creds
    /\ UNCHANGED <<server, local, link, nat, eng, d, scarred>>

-----------------------------------------------------------------------------
(* The surroundings *)

\* Other nodes announce and withdraw.
OthersAnnounce(a, z) ==
    /\ Event /\ att' = IF <<a, z>> \in att THEN att \ {<<a, z>>} ELSE att \cup {<<a, z>>}
    /\ UNCHANGED <<member, node, files, local, link, nat, eng, d, job, scarred>>

\* zone join, zone leave, a kick: leaving detaches.
ChangeZone(z) ==
    /\ Event
    /\ \/ z \in member /\ member' = member \ {z} /\ att' = att \ (Mine \X {z})
       \/ z \notin member /\ onboarded /\ creds /\ node /\ member' = member \cup {z} /\ UNCHANGED att
    /\ UNCHANGED <<node, files, local, link, nat, eng, d, job, scarred>>

\* A local network appears or goes.
ChangeLocal(a) ==
    /\ Event /\ local' = IF a \in local THEN local \ {a} ELSE local \cup {a}
    /\ UNCHANGED <<server, files, link, nat, eng, d, job, scarred>>

\* The last handshake is older than staleAfter.
GoesStale ==
    /\ Event /\ kern.up /\ kern.ready /\ ~ kern.stale
    /\ kern' = [kern EXCEPT !.stale = TRUE]
    /\ UNCHANGED <<server, files, local, handle, nat, eng, d, job, scarred>>

-----------------------------------------------------------------------------

\* After onboarding, the daemon not yet started.
InitRouter ==
    /\ node = TRUE /\ member = Zones /\ att \in SUBSET (Others \X Zones)
    /\ creds = TRUE /\ onboarded = TRUE /\ local = {}
    /\ kern = NoLink /\ handle = FALSE /\ nat = {} /\ eng = NewEngine
    /\ d = [pc |-> "off", up |-> FALSE, then |-> "first"]
    /\ job = [p \in Procs |-> Idle]
    /\ left = [events |-> MaxEvents, faults |-> MaxFaults] /\ scarred = FALSE

DaemonStep == UpCheck \/ UpConfigure \/ DownDel \/ Tick
ReconcileStep ==
    ReconcileBegin \/ MemberZones \/ Fetch("reconcile") \/ Rebuild
    \/ SetRoutes \/ RouteReplace \/ RouteDel \/ AllowedIPs
CliStep ==
    DeleteAnnouncement \/ Fetch("cli") \/ RebuildFromServer \/ Compensate
    \/ LogoutDown \/ Teardown \/ Wipe
Commands ==
    \/ \E m \in Mine, z \in Zones : AnnounceAdd(m, z) \/ AnnounceRemove(m, z)
    \/ \E force \in BOOLEAN : CmdLogout(force)
    \/ CmdDown
Surroundings ==
    \/ \E a \in Others, z \in Zones : OthersAnnounce(a, z)
    \/ \E z \in Zones : ChangeZone(z)
    \/ \E a \in Mine \cup Others : ChangeLocal(a)
    \/ GoesStale

NextRouter ==
    \/ Start \/ Stop \/ Crash \/ DownClear
    \/ DaemonStep \/ ReconcileStep \/ CliStep \/ Commands \/ Surroundings

\* Go schedules both goroutines, the ticker goes on, a started command is finished, and
\* a sync.Mutex does not starve Down.
Fairness ==
    /\ WF_vars(DaemonStep) /\ SF_vars(DownClear)
    /\ WF_vars(ReconcileStep) /\ WF_vars(CliStep)

SpecRouter == InitRouter /\ [][NextRouter]_vars /\ Fairness

-----------------------------------------------------------------------------
(* Properties *)

Anns == Mine \cup Others

\* The route memory, the kernel's routes and the rules hold announcements of the right side.
RouterTypeOK ==
    /\ att \subseteq Anns \X Zones /\ member \subseteq Zones /\ local \subseteq Anns
    /\ node \in BOOLEAN /\ (\A x \in att : x[1] \in Mine => x[2] \in member) /\ (member # {} => node)
    /\ creds \in BOOLEAN /\ onboarded \in BOOLEAN /\ scarred \in BOOLEAN
    /\ kern = NoLink \/ kern \in [up : {TRUE}, ready : BOOLEAN, stale : BOOLEAN,
                                  routes : SUBSET Others, allowed : SUBSET Others]
    /\ handle \in BOOLEAN /\ (handle => kern.up) /\ nat \subseteq Mine
    /\ eng \in [mu : {"free", "held"}, wanted : SUBSET Others, applied : SUBSET Others, fooled : BOOLEAN]
    /\ eng.applied \subseteq eng.wanted
    /\ eng.mu = "held" <=> reconcile.pc \in {"replace", "allow"}
    /\ d \in [pc : {"off", "up", "config", "clear", "del", "idle"}, up : BOOLEAN,
              then : {"first", "retry", "rebuild", "fail", "stop"}]
    /\ DOMAIN job = Procs

\* The daemon works: it has its credentials and nobody logged out.
Serving == d.pc # "off" /\ creds /\ onboarded

\* What the server says of this router.
Announced(S) == {a \in S : \E z \in member : <<a, z>> \in att}

(***************************************************************************)
(* No route is forgotten: between two calls of SetRoutes every route of    *)
(* the tunnel is in the engine's memory, or it could never be removed, and *)
(* in the peer's AllowedIPs, or it would swallow packets (SetRoutes, Down; *)
(* unless a netlink call failed halfway on this interface).                *)
(***************************************************************************)
RoutesAccounted ==
    (d.pc = "idle" /\ d.up /\ kern.up /\ eng.mu = "free" /\ ~ scarred)
        => kern.routes \subseteq eng.applied \cap kern.allowed

(***************************************************************************)
(* The translation table converges: whatever commands, failed cycles and   *)
(* crashes went before, it ends up with exactly the rules of this router's *)
(* announcements (reconcileAll, "rebuilt at startup and every period").    *)
(***************************************************************************)
NatConverges == <>[]Serving => <>[](nat = Announced(Mine))

(***************************************************************************)
(* Routes of withdrawn announcements go: what the tunnel routes in the     *)
(* end is announced in a zone of this router (SetRoutes).                  *)
(***************************************************************************)
WithdrawnRoutesGo ==
    <>[](Serving /\ ~ scarred) => <>[](kern.up => kern.routes \subseteq Announced(Others))

(***************************************************************************)
(* The tunnel comes up: from any state of a running daemon, a left-over    *)
(* interface, a failed start and a stale session included, unless a        *)
(* command took the interface away (Run, tryUp: "the router must converge  *)
(* without human help").                                                   *)
(***************************************************************************)
Severed == d.pc = "idle" /\ d.up /\ ~ kern.up
TunnelConverges ==
    d.pc # "off" ~> (d.pc = "off" \/ Severed \/ (kern.up /\ kern.ready /\ ~ kern.stale))

(***************************************************************************)
(* A rebuilt tunnel regains its routes (daemon.go: OnUp "so a rebuilt      *)
(* tunnel regains its consumer routes immediately"): all that is announced *)
(* and does not clash is routed in the end.  Unless the engine's memory    *)
(* was fooled: it describes an interface that Down deleted after SetRoutes *)
(* had looked it up, or that the command down deleted, and the next        *)
(* SetRoutes takes it for what the new interface has.                      *)
(***************************************************************************)
RoutesRecover ==
    <>[](Serving /\ ~ scarred /\ ~ eng.fooled /\ kern.up /\ d.up)
        => <>[](kern.up => Announced(Others) \ local \subseteq kern.routes)

\* The routes of the tunnel converge to the server's list, from either side.
RoutesConverge == WithdrawnRoutesGo /\ RoutesRecover
=============================================================================
