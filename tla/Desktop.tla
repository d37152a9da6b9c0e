------------------------------ MODULE Desktop ------------------------------
(***************************************************************************)
(* The desktop client: the tunnel (client/tunnel), the panel's buttons and *)
(* background loops (client/ui/panel.go) and log-out (client/panel).  A    *)
(* critical section of Tunnel.mu, an engine call, a firewall call or an    *)
(* API call is one step of the goroutine that makes it.                    *)
(*                                                                         *)
(* Goroutines: one of Clicks for each press of Connect, "health" and       *)
(* "sync" for the two loops, "ui" for the UI thread in onDisconnect and    *)
(* onFirewallToggle and for a log-out, whose dialog blocks the window.     *)
(***************************************************************************)
EXTENDS Naturals, FiniteSets

CONSTANTS
    Clicks,               \* goroutines of onConnect that may be in flight
    Blocks,               \* synthetic blocks other nodes may announce
    MaxPresses,           \* bound on what the user does
    MaxEvents,            \* bound on what the surroundings do
    MaxFaults             \* bound on failing calls

ASSUME DesktopAssumption == {MaxPresses, MaxEvents, MaxFaults} \subseteq Nat /\ IsFiniteSet(Clicks)

VARIABLES
    tun,                  \* Tunnel: [state, eng, desired, wanted, applied]
    adapter,              \* the network adapter, or NoAdapter
    fw,                   \* the host's inbound rule is open
    pref,                 \* record.FirewallAllowVPN
    btn,                  \* the Hero button is enabled
    alive,                \* [health, routes]: loops that run
    local,                \* keyring and state file are there
    node,                 \* server: this device is registered
    session,              \* whose tokens the panel has: own, other (an account that does
                          \* not own the device), or none that the server accepts
    online,               \* the server can be reached
    ann,                  \* server: blocks announced to this device
    job,                  \* goroutines: pc and locals
    left,                 \* [presses, events, faults] left
    outcome,              \* of a log-out: none, done, lingers, forced; elsewhere is done
                          \* too, for the window, by the list of another account
    wish,                 \* what the user asked for last: TRUE is connected
    scarred               \* a route call on this adapter failed halfway

world == <<node, session, online, ann>>
panel == <<btn, alive, local, outcome, wish>>
vars  == <<tun, adapter, fw, pref, panel, world, job, left, scarred>>

-----------------------------------------------------------------------------

NoEngine  == 0
Procs     == Clicks \cup {"health", "sync", "ui"}
Engines   == 1 .. Cardinality(Clicks) + 4
NoAdapter == [eng |-> NoEngine]
Idle      == [pc |-> "idle", eng |-> NoEngine, then |-> "idle", got |-> {}, n |-> 0]
NewTunnel == [state |-> "disconnected", eng |-> NoEngine, desired |-> FALSE,
              wanted |-> {}, applied |-> {}]

MaxAttempts == 3          \* removeRemoteNode: maxAttempts

Fault  == left.faults > 0 /\ left' = [left EXCEPT !.faults = @ - 1]
Press  == left.presses > 0 /\ left' = [left EXCEPT !.presses = @ - 1]
Event  == left.events > 0 /\ left' = [left EXCEPT !.events = @ - 1]
Smooth == UNCHANGED left

At(p, pc) == job[p].pc = pc
Goes(p, pc) == job' = [job EXCEPT ![p] = IF pc = "idle" THEN Idle ELSE [@ EXCEPT !.pc = pc]]
Ends(p, pc) == job' = [job EXCEPT ![p] = [Idle EXCEPT !.pc = pc]]
TearsDown(p, then) == job' = [job EXCEPT ![p].pc = "forget", ![p].then = then]

\* The engine a goroutine holds, live or not.
Live(e) == e # NoEngine /\ adapter.eng = e

-----------------------------------------------------------------------------
(* Tunnel.Connect; a press of Connect and the health loop use its answer differently *)

Succeeded(p) == IF p = "health" THEN "verdict" ELSE "desire"
Failed(p)    == IF p = "health" THEN "close rule" ELSE "idle"

\* A second Connect while one is active answers nil at once.
Connect(p) ==
    /\ At(p, "connect")
    /\ \/ /\ tun.state # "disconnected" /\ Goes(p, Succeeded(p)) /\ UNCHANGED tun
       \/ /\ tun.state = "disconnected"
          /\ LET e == CHOOSE x \in Engines : x # adapter.eng /\ \A q \in Procs : x # job[q].eng
             IN  /\ tun' = [tun EXCEPT !.state = "connecting", !.eng = e]
                 /\ job' = [job EXCEPT ![p].pc = "up", ![p].eng = e]
    /\ UNCHANGED <<adapter, fw, pref, panel, world, left, scarred>>

\* engine.up: an adapter of the same name is in the way.
Up(p) ==
    /\ At(p, "up")
    /\ \/ /\ adapter = NoAdapter /\ Smooth /\ Goes(p, "wait")
          /\ adapter' = [eng |-> job[p].eng, stale |-> FALSE, routes |-> {}, allowed |-> {}]
          /\ scarred' = FALSE
       \/ /\ IF adapter = NoAdapter THEN Fault ELSE Smooth
          /\ TearsDown(p, Failed(p)) /\ UNCHANGED <<adapter, scarred>>
    /\ UNCHANGED <<tun, fw, pref, panel, world>>

\* The wait for a handshake, or for the deadline; the server answers its peers only.
Wait(p) ==
    /\ At(p, "wait")
    /\ LET answered == online /\ node /\ Live(job[p].eng)
       IN  \/ answered /\ Smooth /\ Goes(p, "settle")
           \/ (IF answered THEN Fault ELSE Smooth) /\ TearsDown(p, Failed(p))
    /\ UNCHANGED <<tun, adapter, fw, pref, panel, world, scarred>>

\* A slip: the engine is not compared with the tunnel's.
SettleUnguarded(p) ==
    /\ At(p, "settle") /\ tun' = [tun EXCEPT !.state = "connected"] /\ Ends(p, Succeeded(p))
    /\ UNCHANGED <<adapter, fw, pref, panel, world, left, scarred>>

\* An attempt that was torn down or replaced gives up, without an error.
Settle(p) ==
    /\ At(p, "settle")
    /\ tun' = IF tun.eng = job[p].eng THEN [tun EXCEPT !.state = "connected"] ELSE tun
    /\ Ends(p, Succeeded(p))
    /\ UNCHANGED <<adapter, fw, pref, panel, world, left, scarred>>

-----------------------------------------------------------------------------
(* Tunnel.teardown: two critical sections and engine.close *)

TeardownForget(p) ==
    /\ At(p, "forget") /\ tun' = [tun EXCEPT !.wanted = {}, !.applied = {}] /\ Goes(p, "take")
    /\ UNCHANGED <<adapter, fw, pref, panel, world, left, scarred>>

\* A slip: the state is left as it is.
TeardownTakeStale(p) ==
    /\ At(p, "take") /\ tun' = [tun EXCEPT !.eng = NoEngine]
    /\ job' = [job EXCEPT ![p].pc = "close", ![p].eng = tun.eng]
    /\ UNCHANGED <<adapter, fw, pref, panel, world, left, scarred>>

\* It takes whatever engine the tunnel has, also one of a newer attempt.
TeardownTake(p) ==
    /\ At(p, "take") /\ tun' = [tun EXCEPT !.eng = NoEngine, !.state = "disconnected"]
    /\ job' = [job EXCEPT ![p].pc = "close", ![p].eng = tun.eng]
    /\ UNCHANGED <<adapter, fw, pref, panel, world, left, scarred>>

\* engine.close finds nothing to close while up is still at work.
TeardownClose(p) ==
    /\ At(p, "close")
    /\ adapter' = IF Live(job[p].eng) THEN NoAdapter ELSE adapter
    /\ Ends(p, job[p].then)
    /\ UNCHANGED <<tun, fw, pref, panel, world, left, scarred>>

-----------------------------------------------------------------------------
(* Consumer routes *)

\* SyncRoutes up to the fetched list; zones whose members cannot be looked up are missing in
\* it, and so are those another account is not in.
Fetch(p) ==
    /\ At(p, "fetch")
    /\ LET visible  == IF node THEN ann ELSE {}
           answered == session # "none" /\ online
       IN  \/ \E some \in SUBSET visible :
                 /\ answered /\ IF some = visible \/ session = "other" THEN Smooth ELSE Fault
                 /\ job' = [job EXCEPT ![p].pc = "apply", ![p].got = some]
           \/ (IF answered THEN Fault ELSE Smooth) /\ Goes(p, "idle")
    /\ UNCHANGED <<tun, adapter, fw, pref, panel, world, scarred>>

\* A slip: routes that are no longer wanted stay.
SetExtraRoutesForgotten(p) ==
    LET got == job[p].got IN
    /\ At(p, "apply") /\ Goes(p, "idle") /\ Smooth /\ UNCHANGED scarred
    /\ IF tun.state = "connected" /\ got # tun.wanted
       THEN /\ adapter' = [adapter EXCEPT !.routes = @ \cup got, !.allowed = got]
            /\ tun' = [tun EXCEPT !.wanted = got, !.applied = got]
       ELSE UNCHANGED <<adapter, tun>>
    /\ UNCHANGED <<fw, pref, panel, world>>

(***************************************************************************)
(* SetExtraRoutes holds the mutex throughout.  skip: blocks that overlap a *)
(* local network or whose route cannot be added; kept: routes whose        *)
(* deletion failed, which nobody notices; updated: the peer update worked, *)
(* without which the memory stays as it was.                               *)
(***************************************************************************)
SetExtraRoutes(p) ==
    /\ At(p, "apply") /\ Goes(p, "idle")
    /\ LET got == job[p].got IN
       IF \/ tun.state # "connected" \/ tun.eng = NoEngine
          \/ got = tun.wanted /\ Cardinality(tun.applied) = Cardinality(tun.wanted)
       THEN Smooth /\ UNCHANGED <<tun, adapter, scarred>>
       ELSE \E skip \in SUBSET got, kept \in SUBSET tun.applied, updated \in BOOLEAN :
              LET routed == got \ skip
                  del    == tun.applied \ routed
                  failed == kept # {} \/ ~ updated
              IN
              /\ kept \subseteq del
              /\ IF skip = {} /\ ~ failed THEN Smooth ELSE Fault
              /\ scarred' = (scarred \/ failed)
              /\ adapter' = [adapter EXCEPT !.routes  = (@ \ (del \ kept)) \cup (routed \ tun.applied),
                                            !.allowed = IF updated THEN routed ELSE @]
              /\ tun' = IF updated THEN [tun EXCEPT !.wanted = got, !.applied = routed] ELSE tun
    /\ UNCHANGED <<fw, pref, panel, world>>

\* A tick of routesLoop.
RoutesTick ==
    /\ At("sync", "idle") /\ alive.routes /\ tun.state = "connected" /\ Goes("sync", "fetch")
    /\ UNCHANGED <<tun, adapter, fw, pref, panel, world, left, scarred>>

-----------------------------------------------------------------------------
(* The firewall rule: ReconcileFirewall(true) and (false), whose errors are dropped *)

\* Allow deletes the rule and adds it; syncRoutesNow follows, if the tunnel is still up.
OpenRule(p) ==
    /\ At(p, "open rule") /\ Goes(p, IF tun.state = "connected" THEN "fetch" ELSE "idle")
    /\ \/ Smooth /\ fw' = pref
       \/ Fault /\ fw' \in {fw, fw /\ ~ pref}
    /\ UNCHANGED <<tun, adapter, pref, panel, world, scarred>>

CloseRule(p) ==
    /\ \/ At(p, "close rule") /\ Goes(p, "idle")
       \/ At(p, "drop rule") /\ Goes(p, "connect")
       \/ At(p, "clear rule") /\ Goes(p, "wipe")
    /\ \/ Smooth /\ fw' = FALSE
       \/ Fault /\ UNCHANGED fw
    /\ UNCHANGED <<tun, adapter, pref, panel, world, scarred>>

-----------------------------------------------------------------------------
(* onConnect after Connect *)

SetDesired(p) ==
    /\ At(p, "desire") /\ tun' = [tun EXCEPT !.desired = TRUE] /\ Goes(p, "open rule")
    /\ UNCHANGED <<adapter, fw, pref, panel, world, left, scarred>>

-----------------------------------------------------------------------------
(* healthTick *)

Stale == tun.eng # NoEngine /\ Live(tun.eng) /\ adapter.stale

HealthTick ==
    /\ At("health", "idle") /\ alive.health /\ tun.desired
    /\ ~ (tun.state = "connected" /\ ~ Stale)
    /\ Goes("health", "heal")
    /\ UNCHANGED <<tun, adapter, fw, pref, panel, world, left, scarred>>

\* A slip: Connect is called on the dead tunnel.
HealthDropNothing ==
    /\ At("health", "heal") /\ Goes("health", "connect")
    /\ UNCHANGED <<tun, adapter, fw, pref, panel, world, left, scarred>>

\* A tunnel that is not down is torn down first.
HealthDrop ==
    /\ At("health", "heal")
    /\ IF tun.state # "disconnected"
       THEN TearsDown("health", "drop rule") ELSE Goes("health", "connect")
    /\ UNCHANGED <<tun, adapter, fw, pref, panel, world, left, scarred>>

HealthVerdict ==
    /\ At("health", "verdict") /\ Goes("health", IF tun.desired THEN "open rule" ELSE "close rule")
    /\ UNCHANGED <<tun, adapter, fw, pref, panel, world, left, scarred>>

-----------------------------------------------------------------------------
(* The window *)

\* refreshConnection, from pollLoop and at the end of every attempt.
RefreshConnection ==
    /\ At("ui", "idle") /\ btn' = (tun.state # "connecting") /\ btn' # btn
    /\ UNCHANGED <<tun, adapter, fw, pref, alive, local, outcome, wish, world, job, left, scarred>>

Usable == At("ui", "idle") /\ local /\ outcome = "none"

OnConnect(c) ==
    /\ Usable /\ btn /\ Press /\ tun.state # "connected" /\ ~ tun.desired
    /\ At(c, "idle") /\ Goes(c, "connect") /\ btn' = FALSE /\ wish' = TRUE
    /\ UNCHANGED <<tun, adapter, fw, pref, alive, local, outcome, world, scarred>>

OnDisconnect ==
    /\ Usable /\ btn /\ Press /\ (tun.state = "connected" \/ tun.desired)
    /\ Goes("ui", "undesire") /\ wish' = FALSE
    /\ UNCHANGED <<tun, adapter, fw, pref, btn, alive, local, outcome, world, scarred>>

\* SetDesired(false), before Disconnect; a forced log-out wipes afterwards.
Undesire ==
    /\ At("ui", "undesire") /\ tun' = [tun EXCEPT !.desired = FALSE]
    /\ TearsDown("ui", CASE outcome = "none"   -> "close rule"
                         [] outcome = "forced" -> "clear"
                         [] OTHER              -> "idle")
    /\ UNCHANGED <<adapter, fw, pref, panel, world, left, scarred>>

\* SetFirewallAllowed keeps the new preference also when saving it fails; the switch then
\* shows the other one.
OnFirewallToggle ==
    /\ Usable /\ Press
    /\ \E on \in BOOLEAN :
          /\ pref' = on
          /\ \/ Goes("ui", IF on /\ tun.state = "connected" THEN "toggle on" ELSE "close rule")
             \/ UNCHANGED job
    /\ UNCHANGED <<tun, adapter, fw, panel, world, scarred>>

ToggleOn ==
    /\ At("ui", "toggle on") /\ Goes("ui", "idle")
    /\ \/ Smooth /\ fw' = TRUE
       \/ Fault /\ fw' \in {fw, FALSE}
    /\ UNCHANGED <<tun, adapter, pref, panel, world, scarred>>

-----------------------------------------------------------------------------
(* Logging out: removeRemoteNode first *)

RunLogout ==
    /\ Usable /\ Press /\ job' = [job EXCEPT !["ui"] = [Idle EXCEPT !.pc = "list", !.n = 1]]
    /\ UNCHANGED <<tun, adapter, fw, pref, panel, world, scarred>>

\* A slip: when the attempts are used up the node is taken for removed.
RetryOrDone ==
    IF job["ui"].n = MaxAttempts THEN Goes("ui", "clear") /\ outcome' = "done"
    ELSE job' = [job EXCEPT !["ui"].pc = "list", !["ui"].n = @ + 1] /\ UNCHANGED outcome

\* Unreachable: again, and blocked after the last attempt.
RetryOrBlock ==
    /\ job' = IF job["ui"].n = MaxAttempts THEN [job EXCEPT !["ui"].pc = "blocked"]
              ELSE [job EXCEPT !["ui"].pc = "list", !["ui"].n = @ + 1]
    /\ UNCHANGED outcome

Removed == Goes("ui", "clear") /\ outcome' = IF session = "own" THEN "done" ELSE "elsewhere"
Lingers == online /\ Fault /\ Goes("ui", "clear") /\ outcome' = "lingers"
Expired == online /\ session = "none" /\ Smooth /\ Goes("ui", "idle") /\ UNCHANGED outcome
Lost    == (IF online THEN Fault ELSE Smooth) /\ RetryOrBlock

\* thisMachineNodeID, in the list of whoever is signed in: absent is as good as removed.
RemoveList ==
    /\ At("ui", "list")
    /\ \/ online /\ session = "own" /\ node /\ Smooth /\ Goes("ui", "delete") /\ UNCHANGED outcome
       \/ online /\ session = "own" /\ ~ node /\ Smooth /\ Removed
       \/ online /\ session = "other" /\ Smooth /\ Removed
       \/ Expired \/ Lost \/ Lingers
    /\ UNCHANGED <<tun, adapter, fw, pref, btn, alive, local, wish, world, scarred>>

\* DeleteNode; its answer may be lost.
RemoveDelete ==
    /\ At("ui", "delete")
    /\ \/ online /\ session = "own" /\ Smooth /\ Removed /\ node' = FALSE
       \/ Expired /\ UNCHANGED node
       \/ Lost /\ node' \in {node, node /\ ~ (online /\ session = "own")}
       \/ Lingers /\ UNCHANGED node
    /\ UNCHANGED <<tun, adapter, fw, pref, btn, alive, local, wish, session, online, ann, scarred>>

\* The blocked prompt: cancel, or force.
Blocked ==
    /\ At("ui", "blocked")
    /\ \/ Goes("ui", "idle") /\ UNCHANGED outcome
       \/ Goes("ui", "stop") /\ outcome' = "forced"
    /\ UNCHANGED <<tun, adapter, fw, pref, btn, alive, local, wish, world, left, scarred>>

\* tearDownLocal: the refresh token first; the access token lasts a while.
RevokeToken ==
    /\ At("ui", "clear") /\ session' \in {session, "none"} /\ Goes("ui", "clear rule")
    /\ UNCHANGED <<tun, adapter, fw, pref, panel, node, online, ann, left, scarred>>

\* The end of tearDownLocal; a failing delete leaves something behind.
Wipe ==
    /\ At("ui", "wipe")
    /\ \/ Smooth /\ local' = FALSE
       \/ Fault /\ UNCHANGED local
    /\ Goes("ui", IF outcome = "forced" THEN "idle" ELSE "stop")
    /\ UNCHANGED <<tun, adapter, fw, pref, btn, alive, outcome, wish, world, scarred>>

\* stopHealth and stopRoutes; a forced log-out leaves the route loop running.
StopLoops ==
    /\ At("ui", "stop") /\ Goes("ui", "undesire") /\ wish' = FALSE
    /\ alive' = [health |-> FALSE, routes |-> alive.routes /\ outcome = "forced"]
    /\ UNCHANGED <<tun, adapter, fw, pref, btn, local, outcome, world, left, scarred>>

-----------------------------------------------------------------------------
(* The surroundings *)

LinkDies ==
    /\ Event /\ tun.state = "connected" /\ ~ adapter.stale
    /\ adapter' = [adapter EXCEPT !.stale = TRUE]
    /\ UNCHANGED <<tun, fw, pref, panel, world, job, scarred>>

OthersAnnounce(b) ==
    /\ Event /\ ann' = IF b \in ann THEN ann \ {b} ELSE ann \cup {b}
    /\ UNCHANGED <<tun, adapter, fw, pref, panel, node, session, online, job, scarred>>

\* The session ends, or the user signs in again, to whichever account; the device is removed
\* elsewhere; an outage.
ServerSide ==
    /\ Event
    /\ \/ session # "none" /\ session' = "none" /\ UNCHANGED <<node, online>>
       \/ session = "none" /\ Usable /\ session' \in {"own", "other"} /\ UNCHANGED <<node, online>>
       \/ node /\ node' = FALSE /\ UNCHANGED <<session, online>>
       \/ online' = ~ online /\ UNCHANGED <<node, session>>
    /\ UNCHANGED <<tun, adapter, fw, pref, panel, ann, job, scarred>>

-----------------------------------------------------------------------------

\* A panel that was just opened; when it began with a sign-in, the route loop is not started
\* and the account may be another one.
InitDesktop ==
    /\ tun = NewTunnel /\ adapter = NoAdapter /\ fw = FALSE /\ pref = TRUE
    /\ btn = TRUE /\ alive \in [health : {TRUE}, routes : BOOLEAN] /\ local = TRUE
    /\ node = TRUE /\ online = TRUE /\ ann \in SUBSET Blocks
    /\ session = "own" \/ (session = "other" /\ ~ alive.routes)
    /\ job = [p \in Procs |-> Idle]
    /\ left = [presses |-> MaxPresses, events |-> MaxEvents, faults |-> MaxFaults]
    /\ outcome = "none" /\ wish = FALSE /\ scarred = FALSE

TunnelStep(p) ==
    \/ Connect(p) \/ Up(p) \/ Wait(p) \/ Settle(p)
    \/ TeardownForget(p) \/ TeardownTake(p) \/ TeardownClose(p)
    \/ OpenRule(p) \/ CloseRule(p) \/ Fetch(p) \/ SetExtraRoutes(p)

ClickStep(c) == TunnelStep(c) \/ SetDesired(c)
HealthStep   == TunnelStep("health") \/ HealthTick \/ HealthDrop \/ HealthVerdict
SyncStep     == TunnelStep("sync") \/ RoutesTick
UiStep ==
    \/ TunnelStep("ui") \/ Undesire \/ ToggleOn
    \/ RemoveList \/ RemoveDelete \/ RevokeToken \/ Wipe \/ StopLoops
User ==
    \/ RefreshConnection \/ OnDisconnect \/ OnFirewallToggle \/ RunLogout \/ Blocked
    \/ \E c \in Clicks : OnConnect(c)
Surroundings == LinkDies \/ ServerSide \/ \E b \in Blocks : OthersAnnounce(b)

NextDesktop ==
    \/ (\E c \in Clicks : ClickStep(c)) \/ HealthStep \/ SyncStep \/ UiStep \/ User \/ Surroundings

\* Go runs every goroutine that can run, and the health ticker ticks; the user owes nothing.
Fairness ==
    /\ \A c \in Clicks : WF_vars(ClickStep(c))
    /\ WF_vars(HealthStep) /\ WF_vars(UiStep)

SpecDesktop == InitDesktop /\ [][NextDesktop]_vars /\ Fairness

-----------------------------------------------------------------------------
(* Properties *)

\* The tunnel has an engine exactly when it is not down, and goroutines hold distinct ones.
DesktopTypeOK ==
    /\ tun \in [state : {"disconnected", "connecting", "connected"}, eng : Engines \cup {NoEngine},
                desired : BOOLEAN, wanted : SUBSET Blocks, applied : SUBSET Blocks]
    /\ tun.state = "disconnected" <=> tun.eng = NoEngine
    /\ tun.applied \subseteq tun.wanted
    /\ adapter = NoAdapter \/ adapter \in [eng : Engines, stale : BOOLEAN, routes : SUBSET Blocks,
                                           allowed : SUBSET Blocks]
    /\ {fw, pref, btn, local, node, online, wish, scarred} \subseteq BOOLEAN
    /\ ann \subseteq Blocks /\ session \in {"none", "own", "other"}
    /\ outcome \in {"none", "done", "lingers", "forced", "elsewhere"}
    /\ DOMAIN job = Procs /\ \A p \in Procs : job[p].n \in 0 .. MaxAttempts

(***************************************************************************)
(* Connected means connected: the tunnel's engine is the one that owns the *)
(* adapter, whatever attempts were abandoned, replaced or timed out        *)
(* meanwhile (Connect's comparison of engines, teardown).                  *)
(***************************************************************************)
ConnectedIsLive == tun.state = "connected" => Live(tun.eng)

(***************************************************************************)
(* No route is forgotten: while nobody tears the tunnel down, what the     *)
(* adapter routes is in the tunnel's memory, from which alone it can be    *)
(* removed, and in the peer's AllowedIPs (SetExtraRoutes, teardown; unless *)
(* a call on this adapter failed halfway).                                 *)
(***************************************************************************)
NoForgottenRoute ==
    (tun.state = "connected" /\ ~ scarred /\ \A p \in Procs : ~ At(p, "take"))
        => adapter.routes \subseteq tun.applied \cap adapter.allowed

\* An adapter that no attempt and no tunnel knows of; it lasts as long as the process.
Leaked ==
    /\ adapter # NoAdapter /\ adapter.eng # tun.eng
    /\ \A p \in Procs : job[p].eng # adapter.eng

(***************************************************************************)
(* The tunnel heals itself: while the user wants it, it ends up connected  *)
(* on a live link, after lost links, failed attempts, and attempts that    *)
(* tear each other down (healthTick; unless an adapter was leaked, and as  *)
(* long as the server has the device: without its peer every attempt times *)
(* out and the loop tries for ever).                                       *)
(***************************************************************************)
SelfHeals ==
    <>[](tun.desired /\ alive.health /\ online /\ node /\ ~ Leaked)
        => <>[](tun.state = "connected" /\ ~ Stale)

(***************************************************************************)
(* No silent orphan: the keys of a device that is still registered are     *)
(* never wiped without a warning, however many answers were lost, unless   *)
(* the panel was signed in to an account that does not own the device,     *)
(* whose list does not show it: the code takes it for removed, and a       *)
(* log-out goes by that list alone (Logout, removeRemoteNode: "no orphan   *)
(* node is left behind").                                                  *)
(***************************************************************************)
NoSilentOrphan == ~ local => ~ node \/ outcome \in {"lingers", "forced", "elsewhere"}

(***************************************************************************)
(* The user wins: once everything started has ended, the tunnel is not up  *)
(* if the user's last word was to disconnect (healthTick: "so the user     *)
(* always wins").                                                          *)
(***************************************************************************)
UserWins ==
    (outcome = "none" /\ ~ wish /\ \A p \in Procs : At(p, "idle")) => tun.state # "connected"
=============================================================================
