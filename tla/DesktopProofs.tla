--------------------------- MODULE DesktopProofs ----------------------------
(***************************************************************************)
(* The invariants of Desktop, for any number of Connect presses in flight, *)
(* any announced blocks, and any number of failures and outside events.    *)
(***************************************************************************)
EXTENDS Desktop, FiniteSetTheorems, TLAPS

\* The control points at which a goroutine holds an engine of its own, has one it took from
\* the tunnel, or may have either.
Attempting == {"up", "wait", "settle"}
Holding    == Attempting \cup {"forget", "take", "close"}
Clearing   == {"clear", "clear rule", "wipe"}
Thens      == {"idle", "close rule", "drop rule", "clear"}
Pcs        == Holding \cup Clearing \cup Thens \cup
              {"connect", "desire", "open rule", "fetch", "apply", "heal", "verdict", "undesire",
               "toggle on", "list", "delete", "blocked", "stop"}
Jobs       == [pc : Pcs, eng : Engines \cup {NoEngine}, then : Thens, got : SUBSET Blocks,
               n : 0 .. MaxAttempts]

\* A goroutine has an engine during an attempt, and none outside attempts and teardowns.
Sound(j) ==
    /\ j \in Jobs
    /\ j.eng # NoEngine => j.pc \in Holding
    /\ j.pc \in Attempting => j.eng # NoEngine

JobsOK == DOMAIN job = Procs /\ \A p \in Procs : Sound(job[p])

\* An attempt that is still the tunnel's own has the adapter, from engine.up on.
AttemptOwns(p) == (job[p].pc \in {"wait", "settle"} /\ tun.eng = job[p].eng) => adapter.eng = tun.eng

\* The engine a teardown is about to close is not the tunnel's any more.
CloseTaken(p) == (At(p, "close") /\ job[p].eng # NoEngine) => job[p].eng # tun.eng

EnginesOK == \A p \in Procs : AttemptOwns(p) /\ CloseTaken(p)

\* Before the tunnel is connected its adapter has no routes.
FreshIsBare == (tun.state = "connecting" /\ Live(tun.eng)) => adapter.routes = {}

\* A goroutine that wipes, or will once its teardown has ended.
Wiping(j) == j.pc \in Clearing \/ (j.pc \in {"forget", "take", "close"} /\ j.then = "clear")

\* Nothing is wiped before the log-out was decided, and it is only done when the node is gone.
LogoutDecided ==
    /\ outcome = "done" => ~ node
    /\ ~ local => outcome # "none"
    /\ \A p \in Procs : Wiping(job[p]) => outcome # "none"

TunOK ==
    /\ tun \in [state : {"disconnected", "connecting", "connected"}, eng : Engines \cup {NoEngine},
                desired : BOOLEAN, wanted : SUBSET Blocks, applied : SUBSET Blocks]
    /\ tun.state = "disconnected" <=> tun.eng = NoEngine
    /\ tun.applied \subseteq tun.wanted

Adapters  == [eng : Engines, stale : BOOLEAN, routes : SUBSET Blocks, allowed : SUBSET Blocks]
AdapterOK == adapter = NoAdapter \/ adapter \in Adapters

Sessions == {"none", "own", "other"}
Outcomes == {"none", "done", "lingers", "forced", "elsewhere"}

PanelOK ==
    /\ fw \in BOOLEAN /\ pref \in BOOLEAN /\ btn \in BOOLEAN /\ local \in BOOLEAN /\ wish \in BOOLEAN
    /\ node \in BOOLEAN /\ session \in Sessions /\ online \in BOOLEAN /\ scarred \in BOOLEAN
    /\ ann \subseteq Blocks /\ outcome \in Outcomes

TypeInv    == TunOK /\ AdapterOK /\ PanelOK /\ JobsOK
LinkInv    == EnginesOK /\ ConnectedIsLive /\ FreshIsBare /\ NoForgottenRoute
DesktopInv == TypeInv /\ LinkInv /\ LogoutDecided

-----------------------------------------------------------------------------
(* An engine nobody holds *)

\* One more element makes a set larger by at most one.
LEMMA AtMostOneMore ==
    ASSUME NEW S, NEW x, IsFiniteSet(S)
    PROVE  /\ IsFiniteSet(S \cup {x})
           /\ Cardinality(S) \in Nat /\ Cardinality(S \cup {x}) \in Nat
           /\ Cardinality(S \cup {x}) <= Cardinality(S) + 1
<1>1. Cardinality(S) \in Nat
  BY FS_CardinalityType
<1>2. IsFiniteSet(S \cup {x})
  BY FS_AddElement
<1>3. Cardinality(S \cup {x}) = IF x \in S THEN Cardinality(S) ELSE Cardinality(S) + 1
  BY FS_AddElement
<1> QED
  BY <1>1, <1>2, <1>3

\* There are more engines than goroutines, so that one who holds none finds an unused one.
LEMMA FreshEngine ==
    ASSUME JobsOK, NEW p \in Procs, job[p].eng = NoEngine
    PROVE  \E x \in Engines : x # adapter.eng /\ \A q \in Procs : x # job[q].eng
<1> SUFFICES ASSUME \A x \in Engines : x = adapter.eng \/ \E q \in Procs : x = job[q].eng
             PROVE  FALSE
  OBVIOUS
<1> DEFINE n    == Cardinality(Clicks)
           Held == {job[q].eng : q \in Procs}
           f    == [q \in Procs |-> job[q].eng]
           Pool == 0 .. n + 4
<1>1. IsFiniteSet(Clicks) /\ n \in Nat
  BY DesktopAssumption, FS_CardinalityType
<1>2. IsFiniteSet(Procs) /\ Cardinality(Procs) <= n + 3
  <2> DEFINE One == Clicks \cup {"health"}
             Two == One \cup {"sync"}
             All == Two \cup {"ui"}
  <2>1. IsFiniteSet(One) /\ Cardinality(One) \in Nat /\ Cardinality(One) <= n + 1
    BY <1>1, AtMostOneMore
  <2>2. IsFiniteSet(Two) /\ Cardinality(Two) \in Nat /\ Cardinality(Two) <= Cardinality(One) + 1
    <3> HIDE DEF One
    <3> QED BY <2>1, AtMostOneMore
  <2>3. IsFiniteSet(All) /\ Cardinality(All) \in Nat /\ Cardinality(All) <= Cardinality(Two) + 1
    <3> HIDE DEF Two
    <3> QED BY <2>2, AtMostOneMore
  <2>4. Procs = All
    BY DEF Procs
  <2> QED
    <3> HIDE DEF n, One, Two, All
    <3> QED BY <1>1, <2>1, <2>2, <2>3, <2>4
<1>3. IsFiniteSet(Held) /\ Cardinality(Held) <= n + 3
  <2>1. f \in Surjection(Procs, Held)
    BY DEF Surjection
  <2>2. IsFiniteSet(Held) /\ Cardinality(Held) <= Cardinality(Procs)
    BY <1>2, <2>1, FS_Surjection
  <2>3. Cardinality(Held) \in Nat /\ Cardinality(Procs) \in Nat
    BY <1>2, <2>2, FS_CardinalityType
  <2> QED
    <3> HIDE DEF n, Held
    <3> QED BY <1>1, <1>2, <2>2, <2>3
<1> HIDE DEF n, Held
<1>4. IsFiniteSet(Held \cup {adapter.eng}) /\ Cardinality(Held \cup {adapter.eng}) <= n + 4
  <2>1. /\ IsFiniteSet(Held \cup {adapter.eng}) /\ Cardinality(Held) \in Nat
        /\ Cardinality(Held \cup {adapter.eng}) \in Nat
        /\ Cardinality(Held \cup {adapter.eng}) <= Cardinality(Held) + 1
    BY <1>3, AtMostOneMore
  <2> QED
    BY <1>1, <1>3, <2>1
<1>5. Pool \subseteq Held \cup {adapter.eng}
  <2>1. Pool = Engines \cup {NoEngine}
    BY <1>1 DEF Engines, NoEngine, n
  <2> QED
    BY <2>1 DEF Held
<1>6. Cardinality(Pool) = n + 5 /\ IsFiniteSet(Pool)
  BY <1>1, FS_Interval
<1>7. Cardinality(Pool) <= Cardinality(Held \cup {adapter.eng})
  BY <1>4, <1>5, FS_Subset
<1>8. Cardinality(Held \cup {adapter.eng}) \in Nat
  BY <1>4, FS_CardinalityType
<1> QED
  BY <1>1, <1>4, <1>6, <1>7, <1>8

-----------------------------------------------------------------------------
(* What a step of one goroutine does to the others *)

Others(p) == \A q \in Procs : q # p => job'[q] = job[q]

\* The jobs stay sound when one goroutine's new job is.
LEMMA JobStep ==
    ASSUME JobsOK, NEW p \in Procs, NEW j, Sound(j), job' = [job EXCEPT ![p] = j]
    PROVE  JobsOK' /\ job'[p] = j /\ Others(p)
  BY DEF JobsOK, Others

\* A goroutine that holds no engine moves on to a point outside attempts.
LEMMA GoesStep ==
    ASSUME JobsOK, NEW p \in Procs, NEW pc \in Pcs \ Attempting, job[p].pc \notin Attempting,
           pc \in Holding \/ job[p].pc \notin Holding, Goes(p, pc)
    PROVE  /\ JobsOK' /\ Others(p)
           /\ job'[p].pc = pc
           /\ job'[p].then \in {"idle", job[p].then}
<1> DEFINE j == IF pc = "idle" THEN Idle ELSE [job[p] EXCEPT !.pc = pc]
<1>1. Sound(job[p])
  BY DEF JobsOK
<1>2. Sound(j) /\ j.pc = pc /\ j.then \in {"idle", job[p].then}
  <2>1. CASE pc = "idle"
    BY <2>1 DEF Sound, Jobs, Idle, NoEngine, Pcs, Thens, Attempting, MaxAttempts
  <2>2. CASE pc # "idle"
    BY <1>1, <2>2 DEF Sound, Jobs, Holding
  <2> QED
    BY <2>1, <2>2
<1>3. job' = [job EXCEPT ![p] = j]
  BY DEF Goes
<1> HIDE DEF j
<1> QED
  BY <1>2, <1>3, JobStep

\* A goroutine at rest.
LEMMA IdleSound == Sound(Idle) /\ Idle.pc = "idle" /\ Idle.eng = NoEngine /\ ~ Wiping(Idle)
<1>1. 0 \in 0 .. MaxAttempts /\ "idle" \in Pcs \ Attempting
  BY DEF MaxAttempts, Pcs, Thens, Attempting
<1> QED
  BY <1>1 DEF Sound, Jobs, Idle, Thens, Wiping, Clearing

\* A goroutine drops what it has.
LEMMA EndsStep ==
    ASSUME JobsOK, NEW p \in Procs, NEW pc \in Pcs \ Attempting, Ends(p, pc)
    PROVE  JobsOK' /\ Others(p) /\ job'[p].pc = pc /\ job'[p].then = "idle"
<1> DEFINE j == [Idle EXCEPT !.pc = pc]
<1>1. Sound(j) /\ j.pc = pc /\ j.then = "idle"
  <2>1. j = [pc |-> pc, eng |-> NoEngine, then |-> "idle", got |-> {}, n |-> 0]
    BY DEF Idle
  <2>2. 0 \in 0 .. MaxAttempts
    BY DEF MaxAttempts
  <2> QED
    BY <2>1, <2>2 DEF Sound, Jobs, Thens
<1>2. job' = [job EXCEPT ![p] = j]
  BY DEF Ends
<1> HIDE DEF j
<1> QED
  BY <1>1, <1>2, JobStep

\* A goroutine starts a teardown, with or without an engine.
LEMMA TearsDownStep ==
    ASSUME JobsOK, NEW p \in Procs, NEW then \in Thens, TearsDown(p, then)
    PROVE  JobsOK' /\ Others(p) /\ job'[p].pc = "forget" /\ job'[p].then = then
<1> DEFINE j == [job[p] EXCEPT !.pc = "forget", !.then = then]
<1>1. Sound(job[p])
  BY DEF JobsOK
<1>2. Sound(j) /\ j.pc = "forget" /\ j.then = then
  BY <1>1 DEF Sound, Jobs, Pcs, Holding, Attempting
<1>3. job' = [job EXCEPT ![p] = j]
  BY <1>1 DEF TearsDown, JobsOK
<1> HIDE DEF j
<1> QED
  BY <1>2, <1>3, JobStep

\* A step that leaves the tunnel's engine, the adapter and its routes alone, and that is no step into
\* an attempt and no end of a teardown, disturbs nothing about the link.
LEMMA QuietStep ==
    ASSUME LinkInv, NEW p \in Procs, Others(p), UNCHANGED <<tun.state, tun.eng, tun.applied, adapter, scarred>>,
           job'[p].pc \notin {"wait", "settle", "close"}, job[p].pc # "take"
    PROVE  LinkInv'
<1>1. EnginesOK'
  BY DEF LinkInv, EnginesOK, AttemptOwns, CloseTaken, At, Others
<1>2. ConnectedIsLive' /\ FreshIsBare'
  BY DEF LinkInv, ConnectedIsLive, FreshIsBare, Live
<1>3. NoForgottenRoute'
  BY DEF LinkInv, NoForgottenRoute, At, Others
<1> QED
  BY <1>1, <1>2, <1>3 DEF LinkInv

\* Steps without a job.
LEMMA StillStep ==
    ASSUME LinkInv, UNCHANGED <<tun, adapter, scarred, job>>
    PROVE  LinkInv'
  BY DEF LinkInv, EnginesOK, AttemptOwns, CloseTaken, ConnectedIsLive, FreshIsBare,
         NoForgottenRoute, At, Live

\* The log-out stays decided when no goroutine starts to wipe.
LEMMA DecidedStep ==
    ASSUME LogoutDecided, NEW p \in Procs, Others(p), UNCHANGED <<outcome, local, node>>,
           Wiping(job'[p]) => Wiping(job[p]) \/ outcome # "none"
    PROVE  LogoutDecided'
  BY DEF LogoutDecided, Others

-----------------------------------------------------------------------------
(* Tunnel.Connect *)

\* Connect leaves alone what is not the tunnel's.
LEMMA ConnectKeeps ==
    ASSUME DesktopInv, NEW p \in Procs, Connect(p)
    PROVE  DesktopInv'
<1>1. Sound(job[p]) /\ job[p].pc = "connect" /\ job[p].eng = NoEngine
  BY DEF DesktopInv, TypeInv, JobsOK, Connect, At, Sound, Holding, Attempting
<1>2. AdapterOK' /\ PanelOK' /\ UNCHANGED <<adapter, scarred, outcome, local, node>>
  BY DEF DesktopInv, TypeInv, AdapterOK, PanelOK, Connect, panel, world
<1>3. CASE tun.state # "disconnected"
  <2>1. UNCHANGED tun /\ Goes(p, Succeeded(p))
    BY <1>3 DEF Connect
  <2>2. Succeeded(p) \in Pcs \ Holding /\ Succeeded(p) \notin Clearing
    BY DEF Succeeded, Pcs, Holding, Attempting, Clearing
  <2>3. JobsOK' /\ Others(p) /\ job'[p].pc = Succeeded(p)
    BY <1>1, <2>1, <2>2, GoesStep DEF Holding, Attempting, DesktopInv, TypeInv
  <2>4. TypeInv'
    BY <1>2, <2>1, <2>3 DEF DesktopInv, TypeInv, TunOK
  <2>5. LinkInv'
    BY <1>1, <1>2, <2>1, <2>2, <2>3, QuietStep DEF DesktopInv, Holding, Attempting
  <2>6. LogoutDecided'
    BY <1>2, <2>2, <2>3, DecidedStep DEF DesktopInv, Wiping, Holding
  <2> QED
    BY <2>4, <2>5, <2>6 DEF DesktopInv
<1>4. CASE tun.state = "disconnected"
  <2> DEFINE Unused(x) == x # adapter.eng /\ \A q \in Procs : x # job[q].eng
             e == CHOOSE x \in Engines : Unused(x)
             j == [job[p] EXCEPT !.pc = "up", !.eng = e]
  <2>1. e \in Engines /\ Unused(e) /\ e # NoEngine
    <3>1. \E x \in Engines : Unused(x)
      BY <1>1, FreshEngine DEF DesktopInv, TypeInv
    <3> QED
      BY <1>1, <3>1
  <2>2. /\ tun' = [tun EXCEPT !.state = "connecting", !.eng = e]
        /\ job' = [job EXCEPT ![p].pc = "up", ![p].eng = e]
    BY <1>4 DEF Connect
  <2> HIDE DEF e
  <2>3. Sound(j) /\ j.pc = "up"
    BY <1>1, <2>1 DEF Sound, Jobs, Holding, Attempting, Pcs
  <2>4. job' = [job EXCEPT ![p] = j]
    BY <2>2 DEF DesktopInv, TypeInv, JobsOK
  <2> HIDE DEF j
  <2>5. JobsOK' /\ job'[p] = j /\ Others(p)
    BY <2>3, <2>4, JobStep DEF DesktopInv, TypeInv
  <2>6. TunOK' /\ tun'.eng = e /\ tun'.state = "connecting"
    BY <2>1, <2>2 DEF DesktopInv, TypeInv, TunOK
  <2>7. EnginesOK'
    BY <2>1, <2>3, <2>5, <2>6 DEF EnginesOK, AttemptOwns, CloseTaken, At, Others
  <2>8. ConnectedIsLive' /\ FreshIsBare' /\ NoForgottenRoute'
    BY <1>2, <2>1, <2>6 DEF ConnectedIsLive, FreshIsBare, NoForgottenRoute, Live
  <2>9. LogoutDecided'
    BY <1>2, <2>3, <2>5, DecidedStep DEF DesktopInv, Wiping, Clearing
  <2> QED
    BY <1>2, <2>5, <2>6, <2>7, <2>8, <2>9 DEF DesktopInv, TypeInv, LinkInv
<1> QED
  BY <1>3, <1>4

\* engine.up: a new adapter belongs to the attempt that made it.
LEMMA UpKeeps ==
    ASSUME DesktopInv, NEW p \in Procs, Up(p)
    PROVE  DesktopInv'
<1>1. Sound(job[p]) /\ job[p].pc = "up" /\ job[p].eng \in Engines
  BY DEF DesktopInv, TypeInv, JobsOK, Up, At, Sound, Jobs, Attempting
<1>2. UNCHANGED <<tun, outcome, local, node>> /\ TunOK'
  BY DEF DesktopInv, TypeInv, TunOK, Up, panel, world
<1>3. CASE adapter = NoAdapter /\ Goes(p, "wait") /\ scarred' = FALSE
           /\ adapter' = [eng |-> job[p].eng, stale |-> FALSE, routes |-> {}, allowed |-> {}]
  <2> DEFINE j == [job[p] EXCEPT !.pc = "wait"]
  <2>1. Sound(j) /\ j.pc = "wait" /\ j.eng = job[p].eng
    BY <1>1 DEF Sound, Jobs, Holding, Attempting, Pcs
  <2>2. job' = [job EXCEPT ![p] = j]
    BY <1>3 DEF Goes
  <2> HIDE DEF j
  <2>3. JobsOK' /\ job'[p] = j /\ Others(p)
    BY <2>1, <2>2, JobStep DEF DesktopInv, TypeInv
  <2>4. AdapterOK' /\ adapter'.eng = job[p].eng /\ adapter'.routes = {} /\ adapter.eng = NoEngine
    BY <1>1, <1>3 DEF AdapterOK, Adapters, NoAdapter
  <2>5. PanelOK'
    BY <1>3 DEF DesktopInv, TypeInv, PanelOK, Up, panel, world
  <2>6. EnginesOK'
    <3>1. \A q \in Procs : (q # p /\ job[q].pc \in {"wait", "settle"}) => job[q].eng # NoEngine
      BY DEF DesktopInv, TypeInv, JobsOK, Sound, Attempting
    <3> QED
      BY <1>2, <2>1, <2>3, <2>4, <3>1
      DEF DesktopInv, LinkInv, EnginesOK, AttemptOwns, CloseTaken, At, Others
  <2>7. ConnectedIsLive' /\ FreshIsBare' /\ NoForgottenRoute'
    BY <1>2, <2>4 DEF DesktopInv, LinkInv, ConnectedIsLive, FreshIsBare, NoForgottenRoute, Live
  <2>8. LogoutDecided'
    BY <1>2, <2>1, <2>3, DecidedStep DEF DesktopInv, Wiping, Clearing
  <2> QED
    BY <1>2, <2>3, <2>4, <2>5, <2>6, <2>7, <2>8 DEF DesktopInv, TypeInv, LinkInv
<1>4. CASE TearsDown(p, Failed(p)) /\ UNCHANGED <<adapter, scarred>>
  <2>1. Failed(p) \in Thens /\ Failed(p) # "clear"
    BY DEF Failed, Thens
  <2>2. JobsOK' /\ Others(p) /\ job'[p].pc = "forget" /\ job'[p].then = Failed(p)
    BY <1>4, <2>1, TearsDownStep DEF DesktopInv, TypeInv
  <2>3. AdapterOK' /\ PanelOK'
    BY <1>4 DEF DesktopInv, TypeInv, AdapterOK, PanelOK, Up, panel, world
  <2>4. LinkInv'
    BY <1>1, <1>2, <1>4, <2>2, QuietStep DEF DesktopInv
  <2>5. LogoutDecided'
    BY <1>2, <2>1, <2>2, DecidedStep DEF DesktopInv, Wiping, Clearing
  <2> QED
    BY <1>2, <2>2, <2>3, <2>4, <2>5 DEF DesktopInv, TypeInv
<1> QED
  BY <1>3, <1>4 DEF Up

\* The wait ends, one way or the other.
LEMMA WaitKeeps ==
    ASSUME DesktopInv, NEW p \in Procs, Wait(p)
    PROVE  DesktopInv'
<1>1. Sound(job[p]) /\ job[p].pc = "wait" /\ job[p].eng \in Engines
  BY DEF DesktopInv, TypeInv, JobsOK, Wait, At, Sound, Jobs, Attempting
<1>2. UNCHANGED <<tun, adapter, scarred, outcome, local, node>> /\ TunOK' /\ AdapterOK' /\ PanelOK'
  BY DEF DesktopInv, TypeInv, TunOK, AdapterOK, PanelOK, Wait, panel, world
<1>3. CASE Goes(p, "settle")
  <2> DEFINE j == [job[p] EXCEPT !.pc = "settle"]
  <2>1. Sound(j) /\ j.pc = "settle" /\ j.eng = job[p].eng
    BY <1>1 DEF Sound, Jobs, Holding, Attempting, Pcs
  <2>2. job' = [job EXCEPT ![p] = j]
    BY <1>3 DEF Goes
  <2> HIDE DEF j
  <2>3. JobsOK' /\ job'[p] = j /\ Others(p)
    BY <2>1, <2>2, JobStep DEF DesktopInv, TypeInv
  <2>4. EnginesOK'
    BY <1>1, <1>2, <2>1, <2>3
    DEF DesktopInv, LinkInv, EnginesOK, AttemptOwns, CloseTaken, At, Others
  <2>5. ConnectedIsLive' /\ FreshIsBare' /\ NoForgottenRoute'
    BY <1>1, <1>2, <2>3
    DEF DesktopInv, LinkInv, ConnectedIsLive, FreshIsBare, NoForgottenRoute, Live, At, Others
  <2>6. LogoutDecided'
    BY <1>2, <2>1, <2>3, DecidedStep DEF DesktopInv, Wiping, Clearing
  <2> QED
    BY <1>2, <2>3, <2>4, <2>5, <2>6 DEF DesktopInv, TypeInv, LinkInv
<1>4. CASE TearsDown(p, Failed(p))
  <2>1. Failed(p) \in Thens /\ Failed(p) # "clear"
    BY DEF Failed, Thens
  <2>2. JobsOK' /\ Others(p) /\ job'[p].pc = "forget" /\ job'[p].then = Failed(p)
    BY <1>4, <2>1, TearsDownStep DEF DesktopInv, TypeInv
  <2>3. LinkInv'
    BY <1>1, <1>2, <2>2, QuietStep DEF DesktopInv
  <2>4. LogoutDecided'
    BY <1>2, <2>1, <2>2, DecidedStep DEF DesktopInv, Wiping, Clearing
  <2> QED
    BY <1>2, <2>2, <2>3, <2>4 DEF DesktopInv, TypeInv
<1> QED
  BY <1>3, <1>4 DEF Wait

\* The comparison of engines: only the attempt that owns the adapter connects the tunnel.
LEMMA SettleKeeps ==
    ASSUME DesktopInv, NEW p \in Procs, Settle(p)
    PROVE  DesktopInv'
<1>1. Sound(job[p]) /\ job[p].pc = "settle" /\ job[p].eng \in Engines /\ job[p].eng # NoEngine
  BY DEF DesktopInv, TypeInv, JobsOK, Settle, At, Sound, Jobs, Attempting
<1>2. UNCHANGED <<adapter, scarred, outcome, local, node>> /\ AdapterOK' /\ PanelOK'
  BY DEF DesktopInv, TypeInv, AdapterOK, PanelOK, Settle, panel, world
<1>3. Succeeded(p) \in Pcs \ Holding /\ Succeeded(p) \notin Clearing
  BY DEF Succeeded, Pcs, Holding, Attempting, Clearing
<1>4. JobsOK' /\ Others(p) /\ job'[p].pc = Succeeded(p)
  BY <1>3, EndsStep DEF Settle, DesktopInv, TypeInv, Holding
<1>5. LogoutDecided'
  BY <1>2, <1>3, <1>4, DecidedStep DEF DesktopInv, Wiping, Holding
<1>6. CASE tun.eng # job[p].eng
  <2>1. UNCHANGED tun /\ TunOK'
    BY <1>6 DEF Settle, DesktopInv, TypeInv, TunOK
  <2>2. LinkInv'
    BY <1>1, <1>2, <1>3, <1>4, <2>1, QuietStep DEF DesktopInv, Holding, Attempting
  <2> QED
    BY <1>2, <1>4, <1>5, <2>1, <2>2 DEF DesktopInv, TypeInv
<1>7. CASE tun.eng = job[p].eng
  <2>1. /\ TunOK' /\ tun.state \in {"connecting", "connected"} /\ tun'.state = "connected"
        /\ tun'.eng = tun.eng /\ tun'.applied = tun.applied
    BY <1>1, <1>7 DEF Settle, DesktopInv, TypeInv, TunOK
  <2>2. Live(tun.eng)
    BY <1>1, <1>7 DEF DesktopInv, LinkInv, EnginesOK, AttemptOwns, Live
  <2>3. EnginesOK'
    BY <1>2, <1>3, <1>4, <2>1
    DEF DesktopInv, LinkInv, EnginesOK, AttemptOwns, CloseTaken, At, Others, Holding, Attempting
  <2>4. ConnectedIsLive' /\ FreshIsBare'
    BY <1>2, <2>1, <2>2 DEF ConnectedIsLive, FreshIsBare, Live
  <2>5. NoForgottenRoute'
    <3>1. CASE tun.state = "connecting"
      BY <1>2, <2>1, <2>2, <3>1 DEF DesktopInv, LinkInv, FreshIsBare, NoForgottenRoute
    <3>2. CASE tun.state = "connected"
      BY <1>1, <1>2, <1>4, <2>1, <3>2 DEF DesktopInv, LinkInv, NoForgottenRoute, At, Others
    <3> QED
      BY <2>1, <3>1, <3>2
  <2> QED
    BY <1>2, <1>4, <1>5, <2>1, <2>3, <2>4, <2>5 DEF DesktopInv, TypeInv, LinkInv
<1> QED
  BY <1>6, <1>7

-----------------------------------------------------------------------------
(* Tunnel.teardown *)

\* The memory is dropped before the state: from here to the next step the routes are unaccounted.
LEMMA ForgetKeeps ==
    ASSUME DesktopInv, NEW p \in Procs, TeardownForget(p)
    PROVE  DesktopInv'
<1>1. Sound(job[p]) /\ job[p].pc = "forget"
  BY DEF DesktopInv, TypeInv, JobsOK, TeardownForget, At
<1>2. UNCHANGED <<adapter, scarred, outcome, local, node>> /\ AdapterOK' /\ PanelOK'
  BY DEF DesktopInv, TypeInv, AdapterOK, PanelOK, TeardownForget, panel, world
<1>3. TunOK' /\ tun'.eng = tun.eng /\ tun'.state = tun.state
  BY DEF DesktopInv, TypeInv, TunOK, TeardownForget
<1>4. JobsOK' /\ Others(p) /\ job'[p].pc = "take" /\ job'[p].then \in {"idle", job[p].then}
  BY <1>1, GoesStep DEF TeardownForget, DesktopInv, TypeInv, Pcs, Holding, Attempting
<1>5. EnginesOK'
  BY <1>2, <1>3, <1>4
  DEF DesktopInv, LinkInv, EnginesOK, AttemptOwns, CloseTaken, At, Others
<1>6. ConnectedIsLive' /\ FreshIsBare' /\ NoForgottenRoute'
  BY <1>2, <1>3, <1>4
  DEF DesktopInv, LinkInv, ConnectedIsLive, FreshIsBare, NoForgottenRoute, Live, At
<1>7. LogoutDecided'
  BY <1>1, <1>2, <1>4, DecidedStep DEF DesktopInv, Wiping, Clearing
<1> QED
  BY <1>2, <1>3, <1>4, <1>5, <1>6, <1>7 DEF DesktopInv, TypeInv, LinkInv

\* The engine changes hands: it is the teardown's and no longer the tunnel's.
LEMMA TakeKeeps ==
    ASSUME DesktopInv, NEW p \in Procs, TeardownTake(p)
    PROVE  DesktopInv'
<1>1. Sound(job[p]) /\ job[p].pc = "take"
  BY DEF DesktopInv, TypeInv, JobsOK, TeardownTake, At
<1>2. UNCHANGED <<adapter, scarred, outcome, local, node>> /\ AdapterOK' /\ PanelOK'
  BY DEF DesktopInv, TypeInv, AdapterOK, PanelOK, TeardownTake, panel, world
<1>3. TunOK' /\ tun'.eng = NoEngine /\ tun'.state = "disconnected" /\ tun.eng \in Engines \cup {NoEngine}
  BY DEF DesktopInv, TypeInv, TunOK, TeardownTake
<1> DEFINE j == [job[p] EXCEPT !.pc = "close", !.eng = tun.eng]
<1>4. Sound(j) /\ j.pc = "close" /\ j.then = job[p].then
  BY <1>1, <1>3 DEF Sound, Jobs, Holding, Attempting, Pcs
<1>5. job' = [job EXCEPT ![p] = j]
  BY DEF TeardownTake, DesktopInv, TypeInv, JobsOK
<1> HIDE DEF j
<1>6. JobsOK' /\ job'[p] = j /\ Others(p)
  BY <1>4, <1>5, JobStep DEF DesktopInv, TypeInv
<1>7. EnginesOK'
  <2>1. \A q \in Procs : q # p /\ job[q].pc \in {"wait", "settle"} => job[q].eng # NoEngine
    BY DEF DesktopInv, TypeInv, JobsOK, Sound, Attempting
  <2> QED
    BY <1>2, <1>3, <1>4, <1>6, <2>1 DEF EnginesOK, AttemptOwns, CloseTaken, At, Others
<1>8. ConnectedIsLive' /\ FreshIsBare' /\ NoForgottenRoute'
  BY <1>3 DEF ConnectedIsLive, FreshIsBare, NoForgottenRoute
<1>9. LogoutDecided'
  BY <1>1, <1>2, <1>4, <1>6, DecidedStep DEF DesktopInv, Wiping, Clearing
<1> QED
  BY <1>2, <1>3, <1>6, <1>7, <1>8, <1>9 DEF DesktopInv, TypeInv, LinkInv

\* What is closed is never the adapter of the tunnel's own engine.
LEMMA CloseKeeps ==
    ASSUME DesktopInv, NEW p \in Procs, TeardownClose(p)
    PROVE  DesktopInv'
<1>1. Sound(job[p]) /\ job[p].pc = "close" /\ job[p].then \in Thens
  BY DEF DesktopInv, TypeInv, JobsOK, TeardownClose, At, Sound, Jobs
<1>2. UNCHANGED <<tun, scarred, outcome, local, node>> /\ TunOK' /\ PanelOK'
  BY DEF DesktopInv, TypeInv, TunOK, PanelOK, TeardownClose, panel, world
<1>3. /\ job[p].then \in Pcs \ Attempting /\ job[p].then \notin Holding
      /\ job[p].then \in Clearing => job[p].then = "clear"
  BY <1>1 DEF Thens, Pcs, Holding, Attempting, Clearing
<1>4. JobsOK' /\ Others(p) /\ job'[p].pc = job[p].then
  BY <1>3, EndsStep DEF TeardownClose, DesktopInv, TypeInv
<1>5. AdapterOK' /\ (adapter' = adapter \/ (adapter.eng # NoEngine /\ adapter.eng # tun.eng))
  <2>1. CASE Live(job[p].eng)
    <3>1. adapter.eng # NoEngine /\ adapter.eng # tun.eng
      BY <1>1, <2>1 DEF DesktopInv, LinkInv, EnginesOK, CloseTaken, Live, At
    <3>2. adapter' = NoAdapter
      BY <2>1 DEF TeardownClose
    <3> QED
      BY <3>1, <3>2 DEF AdapterOK
  <2>2. CASE ~ Live(job[p].eng)
    BY <2>2 DEF TeardownClose, DesktopInv, TypeInv, AdapterOK
  <2> QED
    BY <2>1, <2>2
<1>6. CASE adapter' = adapter
  <2>1. LinkInv'
    BY <1>1, <1>2, <1>3, <1>4, <1>6, QuietStep DEF DesktopInv, Holding, Attempting
  <2>2. LogoutDecided'
    BY <1>1, <1>2, <1>3, <1>4, DecidedStep DEF DesktopInv, Wiping, Holding
  <2> QED
    BY <1>2, <1>4, <1>5, <2>1, <2>2 DEF DesktopInv, TypeInv
<1>7. CASE adapter' # adapter
  <2>1. adapter.eng # NoEngine /\ adapter.eng # tun.eng /\ adapter'.eng = NoEngine
    BY <1>5, <1>7 DEF TeardownClose, NoAdapter
  <2>2. EnginesOK'
    BY <1>2, <1>3, <1>4, <2>1
    DEF DesktopInv, LinkInv, EnginesOK, AttemptOwns, CloseTaken, At, Others, Holding, Attempting
  <2>3. ConnectedIsLive' /\ FreshIsBare' /\ NoForgottenRoute'
    BY <1>2, <2>1
    DEF DesktopInv, LinkInv, ConnectedIsLive, FreshIsBare, NoForgottenRoute, Live
  <2>4. LogoutDecided'
    BY <1>1, <1>2, <1>3, <1>4, DecidedStep DEF DesktopInv, Wiping, Holding
  <2> QED
    BY <1>2, <1>4, <1>5, <2>2, <2>3, <2>4 DEF DesktopInv, TypeInv, LinkInv
<1> QED
  BY <1>6, <1>7

-----------------------------------------------------------------------------
(* Tunnel.SetExtraRoutes *)

\* The routes of a connected tunnel change together with its memory, unless a call fails.
LEMMA SetExtraRoutesKeeps ==
    ASSUME DesktopInv, NEW p \in Procs, SetExtraRoutes(p)
    PROVE  DesktopInv'
<1>1. Sound(job[p]) /\ job[p].pc = "apply" /\ job[p].got \subseteq Blocks
  BY DEF DesktopInv, TypeInv, JobsOK, SetExtraRoutes, At, Sound, Jobs
<1>2. UNCHANGED <<fw, pref, btn, local, outcome, wish, node, session, online, ann>>
  BY DEF SetExtraRoutes, panel, world
<1>3. JobsOK' /\ Others(p) /\ job'[p].pc = "idle"
  BY <1>1, GoesStep DEF SetExtraRoutes, DesktopInv, TypeInv, Pcs, Thens, Holding, Attempting
<1>4. LogoutDecided'
  BY <1>2, <1>3, DecidedStep DEF DesktopInv, Wiping, Clearing
<1>5. CASE UNCHANGED <<tun, adapter, scarred>>
  <2>1. TunOK' /\ AdapterOK' /\ PanelOK'
    BY <1>2, <1>5 DEF DesktopInv, TypeInv, TunOK, AdapterOK, PanelOK
  <2>2. LinkInv'
    BY <1>1, <1>3, <1>5, QuietStep DEF DesktopInv
  <2> QED
    BY <1>3, <1>4, <2>1, <2>2 DEF DesktopInv, TypeInv
<1>6. CASE ~ UNCHANGED <<tun, adapter, scarred>>
  <2> DEFINE got == job[p].got
  <2>1. PICK skip \in SUBSET got, kept \in SUBSET tun.applied, updated \in BOOLEAN :
          LET routed == got \ skip
              del    == tun.applied \ routed
              failed == kept # {} \/ ~ updated
          IN  /\ tun.state = "connected"
              /\ scarred' = (scarred \/ failed)
              /\ adapter' = [adapter EXCEPT !.routes  = (@ \ (del \ kept)) \cup (routed \ tun.applied),
                                            !.allowed = IF updated THEN routed ELSE @]
              /\ tun' = IF updated THEN [tun EXCEPT !.wanted = got, !.applied = routed] ELSE tun
    BY <1>6 DEF SetExtraRoutes
  <2>2. Live(tun.eng) /\ tun.eng # NoEngine
    BY <2>1 DEF DesktopInv, LinkInv, ConnectedIsLive, Live
  <2>3. adapter \in Adapters
    BY <2>2 DEF DesktopInv, TypeInv, AdapterOK, NoAdapter, Live
  <2>4. adapter' \in Adapters /\ adapter'.eng = adapter.eng
    BY <1>1, <2>1, <2>3 DEF Adapters
  <2>5. TunOK' /\ tun'.eng = tun.eng /\ tun'.state = tun.state
    BY <1>1, <2>1 DEF DesktopInv, TypeInv, TunOK
  <2>6. PanelOK'
    BY <1>2, <2>1 DEF DesktopInv, TypeInv, PanelOK
  <2>7. EnginesOK'
    BY <1>3, <2>4, <2>5
    DEF DesktopInv, LinkInv, EnginesOK, AttemptOwns, CloseTaken, At, Others
  <2>8. ConnectedIsLive' /\ FreshIsBare'
    BY <2>1, <2>2, <2>4, <2>5 DEF ConnectedIsLive, FreshIsBare, Live
  <2>9. NoForgottenRoute'
    <3>1. CASE kept = {} /\ updated /\ ~ scarred
      <4>1. \A q \in Procs : ~ At(q, "take")' => ~ At(q, "take")
        BY <1>1, <1>3 DEF At, Others
      <4>2. /\ adapter'.routes = (adapter.routes \ (tun.applied \ (got \ skip)))
                                   \cup ((got \ skip) \ tun.applied)
            /\ adapter'.allowed = got \ skip
        BY <2>1, <2>3, <3>1 DEF Adapters
      <4>3. tun'.applied = got \ skip
        BY <2>1, <3>1 DEF DesktopInv, TypeInv, TunOK
      <4> QED
        BY <2>1, <3>1, <4>1, <4>2, <4>3 DEF DesktopInv, LinkInv, NoForgottenRoute
    <3>2. CASE ~ (kept = {} /\ updated /\ ~ scarred)
      BY <2>1, <3>2 DEF NoForgottenRoute, DesktopInv, TypeInv, PanelOK
    <3> QED
      BY <3>1, <3>2
  <2> QED
    BY <1>3, <1>4, <2>4, <2>5, <2>6, <2>7, <2>8, <2>9 DEF DesktopInv, TypeInv, LinkInv, AdapterOK
<1> QED
  BY <1>5, <1>6

-----------------------------------------------------------------------------
(* Steps that leave the tunnel and its adapter alone *)

\* A goroutine that is in no attempt and no teardown moves to another such point, or starts a
\* teardown; nothing of the link and of the log-out changes.
LEMMA CalmStep ==
    ASSUME DesktopInv, NEW p \in Procs, TunOK', JobsOK', Others(p), PanelOK',
           UNCHANGED <<tun.state, tun.eng, tun.applied, adapter, scarred, outcome, local, node>>,
           job'[p].pc \notin {"wait", "settle", "close"}, job[p].pc # "take",
           Wiping(job'[p]) => Wiping(job[p]) \/ outcome # "none"
    PROVE  DesktopInv'
<1>1. AdapterOK'
  BY DEF DesktopInv, TypeInv, AdapterOK
<1>2. LinkInv'
  BY QuietStep DEF DesktopInv
<1>3. LogoutDecided'
  BY DecidedStep DEF DesktopInv
<1> QED
  BY <1>1, <1>2, <1>3 DEF DesktopInv, TypeInv

\* The same, with one of the moves Goes makes.
LEMMA CalmGoes ==
    ASSUME DesktopInv, NEW p \in Procs, NEW pc \in Pcs \ Holding, Goes(p, pc), PanelOK',
           UNCHANGED <<tun, adapter, scarred, outcome, local, node>>,
           job[p].pc \notin Holding, pc \in Clearing => job[p].pc \in Clearing
    PROVE  DesktopInv'
<1>1. JobsOK' /\ Others(p) /\ job'[p].pc = pc
  BY GoesStep DEF DesktopInv, TypeInv, Holding
<1>2. Wiping(job'[p]) => Wiping(job[p])
  BY <1>1 DEF Wiping, Holding
<1>3. TunOK'
  BY DEF DesktopInv, TypeInv, TunOK
<1> QED
  BY <1>1, <1>2, <1>3, CalmStep DEF Holding, Attempting

\* The rules and the fetches, of any goroutine.
LEMMA RulesKeep ==
    ASSUME DesktopInv, NEW p \in Procs, OpenRule(p) \/ CloseRule(p)
    PROVE  DesktopInv'
<1>1. UNCHANGED <<tun, adapter, scarred, outcome, local, node>>
  BY DEF OpenRule, CloseRule, panel, world
<1>2. fw' \in BOOLEAN
  BY DEF OpenRule, CloseRule, DesktopInv, TypeInv, PanelOK
<1>3. UNCHANGED <<pref, btn, wish, session, online, ann>>
  BY DEF OpenRule, CloseRule, panel, world
<1>4. PanelOK'
  BY <1>1, <1>2, <1>3 DEF DesktopInv, TypeInv, PanelOK
<1>5. PICK pc \in {"fetch", "idle", "connect", "wipe"} :
        Goes(p, pc) /\ job[p].pc \in {"open rule", "close rule", "drop rule", "clear rule"}
                    /\ (pc = "wipe" => job[p].pc = "clear rule")
  BY DEF OpenRule, CloseRule, At
<1>6. /\ pc \in Pcs \ Holding /\ job[p].pc \notin Holding
      /\ pc \in Clearing => job[p].pc \in Clearing
  BY <1>5 DEF Pcs, Thens, Holding, Attempting, Clearing
<1> QED
  BY <1>1, <1>4, <1>5, <1>6, CalmGoes

\* A list was fetched, whole or in part, or it was not.
LEMMA FetchKeeps ==
    ASSUME DesktopInv, NEW p \in Procs, Fetch(p)
    PROVE  DesktopInv'
<1>1. UNCHANGED <<tun, adapter, scarred, outcome, local, node>> /\ PanelOK' /\ TunOK'
  BY DEF Fetch, DesktopInv, TypeInv, PanelOK, TunOK, panel, world
<1>2. Sound(job[p]) /\ job[p].pc = "fetch"
  BY DEF Fetch, At, DesktopInv, TypeInv, JobsOK
<1>3. CASE Goes(p, "idle")
  BY <1>1, <1>2, <1>3, CalmGoes DEF Pcs, Thens, Holding, Attempting, Clearing
<1>4. CASE \E some \in SUBSET (IF node THEN ann ELSE {}) :
             job' = [job EXCEPT ![p].pc = "apply", ![p].got = some]
  <2>1. PICK some \in SUBSET Blocks : job' = [job EXCEPT ![p].pc = "apply", ![p].got = some]
    BY <1>4 DEF DesktopInv, TypeInv, PanelOK
  <2> DEFINE j == [job[p] EXCEPT !.pc = "apply", !.got = some]
  <2>2. Sound(j) /\ j.pc = "apply"
    BY <1>2 DEF Sound, Jobs, Holding, Attempting, Pcs
  <2>3. job' = [job EXCEPT ![p] = j]
    BY <2>1 DEF DesktopInv, TypeInv, JobsOK
  <2> HIDE DEF j
  <2>4. JobsOK' /\ job'[p] = j /\ Others(p)
    BY <2>2, <2>3, JobStep DEF DesktopInv, TypeInv
  <2> QED
    BY <1>1, <1>2, <2>2, <2>4, CalmStep DEF Wiping, Clearing
<1> QED
  BY <1>3, <1>4 DEF Fetch

\* The health loop and the route loop.
LEMMA LoopsKeep ==
    ASSUME DesktopInv, RoutesTick \/ HealthTick \/ HealthDrop \/ HealthVerdict
    PROVE  DesktopInv'
<1>1. UNCHANGED <<tun, adapter, scarred, outcome, local, node>> /\ PanelOK' /\ TunOK'
  <2>1. UNCHANGED <<tun, adapter, scarred, fw, pref, panel, world>>
    BY DEF RoutesTick, HealthTick, HealthDrop, HealthVerdict
  <2> QED
    BY <2>1 DEF DesktopInv, TypeInv, PanelOK, TunOK, panel, world
<1>2. {"sync", "health"} \subseteq Procs
  BY DEF Procs
<1>3. CASE TearsDown("health", "drop rule") /\ job["health"].pc = "heal"
  <2>1. JobsOK' /\ Others("health") /\ job'["health"].pc = "forget" /\ job'["health"].then = "drop rule"
    BY <1>2, <1>3, TearsDownStep DEF DesktopInv, TypeInv, Thens
  <2> QED
    BY <1>1, <1>2, <1>3, <2>1, CalmStep DEF Wiping, Clearing
<1>4. CASE ~ (TearsDown("health", "drop rule") /\ job["health"].pc = "heal")
  <2>1. PICK p \in {"sync", "health"}, pc \in {"fetch", "heal", "connect", "open rule", "close rule"} :
          Goes(p, pc) /\ job[p].pc \in {"idle", "heal", "verdict"}
    BY <1>4 DEF RoutesTick, HealthTick, HealthDrop, HealthVerdict, At
  <2>2. pc \in Pcs \ Holding /\ job[p].pc \notin Holding /\ pc \notin Clearing
    BY <2>1 DEF Pcs, Thens, Holding, Attempting, Clearing
  <2> QED
    BY <1>1, <1>2, <2>1, <2>2, CalmGoes
<1> QED
  BY <1>3, <1>4

\* SetDesired after a press of Connect.
LEMMA SetDesiredKeeps ==
    ASSUME DesktopInv, NEW p \in Procs, SetDesired(p)
    PROVE  DesktopInv'
<1>1. UNCHANGED <<tun.state, tun.eng, tun.applied, adapter, scarred, outcome, local, node>> /\ TunOK'
  BY DEF SetDesired, DesktopInv, TypeInv, TunOK, panel, world
<1>2. PanelOK'
  BY DEF SetDesired, DesktopInv, TypeInv, PanelOK, panel, world
<1>3. JobsOK' /\ Others(p) /\ job'[p].pc = "open rule" /\ job[p].pc = "desire"
  BY GoesStep DEF SetDesired, At, DesktopInv, TypeInv, Pcs, Holding, Attempting
<1> QED
  BY <1>1, <1>2, <1>3, CalmStep DEF Wiping, Clearing

-----------------------------------------------------------------------------
(* The window *)

\* Presses of the button and of the switch.
LEMMA ButtonsKeep ==
    ASSUME DesktopInv,
           RefreshConnection \/ OnDisconnect \/ OnFirewallToggle \/ \E c \in Clicks : OnConnect(c)
    PROVE  DesktopInv'
<1>1. UNCHANGED <<tun, adapter, scarred, outcome, local, node>> /\ TunOK'
  BY DEF RefreshConnection, OnDisconnect, OnFirewallToggle, OnConnect, DesktopInv, TypeInv, TunOK,
         panel, world
<1>2. PanelOK'
  <2>1. btn' \in BOOLEAN /\ pref' \in BOOLEAN /\ wish' \in BOOLEAN
    BY DEF RefreshConnection, OnDisconnect, OnFirewallToggle, OnConnect, DesktopInv, TypeInv,
           PanelOK, panel
  <2>2. UNCHANGED <<fw, session, online, ann>>
    BY DEF RefreshConnection, OnDisconnect, OnFirewallToggle, OnConnect, world
  <2> QED
    BY <1>1, <2>1, <2>2 DEF DesktopInv, TypeInv, PanelOK
<1>3. CASE UNCHANGED job
  <2>1. AdapterOK' /\ JobsOK' /\ LogoutDecided'
    BY <1>1, <1>3 DEF DesktopInv, TypeInv, AdapterOK, JobsOK, LogoutDecided
  <2>2. LinkInv'
    BY <1>1, <1>3, StillStep DEF DesktopInv
  <2> QED
    BY <1>1, <1>2, <2>1, <2>2 DEF DesktopInv, TypeInv
<1>4. CASE ~ UNCHANGED job
  <2>1. PICK p \in Clicks \cup {"ui"}, pc \in {"connect", "undesire", "toggle on", "close rule"} :
          Goes(p, pc) /\ job[p].pc = "idle"
    BY <1>4 DEF RefreshConnection, OnDisconnect, OnFirewallToggle, OnConnect, Usable, At
  <2>2. pc \in Pcs \ Holding /\ job[p].pc \notin Holding /\ pc \notin Clearing /\ p \in Procs
    BY <2>1 DEF Pcs, Thens, Holding, Attempting, Clearing, Procs
  <2> QED
    BY <1>1, <1>2, <2>1, <2>2, CalmGoes
<1> QED
  BY <1>3, <1>4

\* The switch was turned on.
LEMMA ToggleOnKeeps ==
    ASSUME DesktopInv, ToggleOn
    PROVE  DesktopInv'
<1>1. UNCHANGED <<tun, adapter, scarred, outcome, local, node, pref, btn, wish, session, online, ann>>
  BY DEF ToggleOn, panel, world
<1>2. fw' \in BOOLEAN
  BY DEF ToggleOn, DesktopInv, TypeInv, PanelOK
<1>3. PanelOK'
  BY <1>1, <1>2 DEF DesktopInv, TypeInv, PanelOK
<1>4. Goes("ui", "idle") /\ job["ui"].pc = "toggle on" /\ "ui" \in Procs
  BY DEF ToggleOn, At, Procs
<1> QED
  BY <1>1, <1>3, <1>4, CalmGoes DEF Pcs, Thens, Holding, Attempting, Clearing

\* SetDesired(false) and the teardown that follows; only a decided log-out wipes after it.
LEMMA UndesireKeeps ==
    ASSUME DesktopInv, Undesire
    PROVE  DesktopInv'
<1>1. UNCHANGED <<tun.state, tun.eng, tun.applied, adapter, scarred, outcome, local, node>> /\ TunOK'
  BY DEF Undesire, DesktopInv, TypeInv, TunOK, panel, world
<1>2. PanelOK'
  BY DEF Undesire, DesktopInv, TypeInv, PanelOK, panel, world
<1>3. PICK then \in Thens : TearsDown("ui", then) /\ (then = "clear" => outcome # "none")
  <2>1. CASE outcome = "none"
    BY <2>1 DEF Undesire, Thens
  <2>2. CASE outcome = "forced"
    BY <2>2 DEF Undesire, Thens
  <2>3. CASE outcome \notin {"none", "forced"}
    BY <2>3 DEF Undesire, Thens
  <2> QED
    BY <2>1, <2>2, <2>3
<1>4. "ui" \in Procs /\ job["ui"].pc = "undesire"
  BY DEF Undesire, At, Procs
<1>5. JobsOK' /\ Others("ui") /\ job'["ui"].pc = "forget" /\ job'["ui"].then = then
  BY <1>3, <1>4, TearsDownStep DEF DesktopInv, TypeInv
<1> QED
  BY <1>1, <1>2, <1>3, <1>4, <1>5, CalmStep DEF Wiping, Clearing

-----------------------------------------------------------------------------
(* Logging out *)

\* What the log-out changes besides its own job: nothing of the link.
LogoutKeepsLink == UNCHANGED <<tun, adapter, scarred, fw, pref, btn, wish>>

\* A step of the log-out keeps the invariant when it starts no wipe undecided.
LEMMA LogoutStep ==
    ASSUME DesktopInv, LogoutKeepsLink, JobsOK', Others("ui"),
           job'["ui"].pc \notin Holding, job["ui"].pc # "take",
           local' \in BOOLEAN, node' \in BOOLEAN, session' \in Sessions, online' \in BOOLEAN,
           ann' \subseteq Blocks, outcome' \in Outcomes,
           node' => node,
           outcome' = "done" => outcome = "done" \/ ~ node',
           outcome # "none" => outcome' # "none",
           ~ local' => ~ local \/ outcome' # "none",
           job'["ui"].pc \in Clearing => outcome' # "none"
    PROVE  DesktopInv'
<1>1. TunOK' /\ AdapterOK' /\ PanelOK'
  BY DEF LogoutKeepsLink, DesktopInv, TypeInv, TunOK, AdapterOK, PanelOK
<1>2. LinkInv'
  BY QuietStep DEF LogoutKeepsLink, DesktopInv, Holding, Attempting, Procs
<1>3. LogoutDecided'
  BY DEF DesktopInv, LogoutDecided, Others, Wiping, Holding
<1> QED
  BY <1>1, <1>2, <1>3 DEF DesktopInv, TypeInv

\* A log-out begins.
LEMMA RunLogoutKeeps ==
    ASSUME DesktopInv, RunLogout
    PROVE  DesktopInv'
<1> DEFINE j == [Idle EXCEPT !.pc = "list", !.n = 1]
<1>1. Sound(j) /\ j.pc = "list"
  <2>1. 1 \in 0 .. MaxAttempts
    BY DEF MaxAttempts
  <2>2. "list" \in Pcs \ Attempting
    BY DEF Pcs, Attempting
  <2> QED
    BY IdleSound, <2>1, <2>2 DEF Sound, Jobs
<1>2. job' = [job EXCEPT !["ui"] = j] /\ "ui" \in Procs /\ job["ui"].pc = "idle"
  BY DEF RunLogout, Usable, At, Procs
<1> HIDE DEF j
<1>3. JobsOK' /\ job'["ui"].pc = "list" /\ Others("ui")
  BY <1>1, <1>2, JobStep DEF DesktopInv, TypeInv
<1>4. LogoutKeepsLink /\ UNCHANGED <<outcome, local, node, session, online, ann>>
  BY DEF RunLogout, LogoutKeepsLink, panel, world
<1> QED
  BY <1>2, <1>3, <1>4, LogoutStep
  DEF DesktopInv, TypeInv, PanelOK, Outcomes, Holding, Attempting, Clearing

\* Another attempt at removing the node, or the prompt after the last one.
LEMMA RetryStep ==
    ASSUME JobsOK, RetryOrBlock, job["ui"].pc \in {"list", "delete"}
    PROVE  JobsOK' /\ Others("ui") /\ job'["ui"].pc \in {"list", "blocked"}
<1> DEFINE j == IF job["ui"].n = MaxAttempts THEN [job["ui"] EXCEPT !.pc = "blocked"]
                ELSE [job["ui"] EXCEPT !.pc = "list", !.n = job["ui"].n + 1]
<1>1. Sound(job["ui"]) /\ "ui" \in Procs
  BY DEF JobsOK, Procs
<1>2. Sound(j) /\ j.pc \in {"list", "blocked"}
  <2>1. CASE job["ui"].n = MaxAttempts
    BY <1>1, <2>1 DEF Sound, Jobs, Pcs, Attempting, Holding
  <2>2. CASE job["ui"].n # MaxAttempts
    <3>1. job["ui"].n + 1 \in 0 .. MaxAttempts
      BY <1>1, <2>2 DEF Sound, Jobs, MaxAttempts
    <3> QED
      BY <1>1, <2>2, <3>1 DEF Sound, Jobs, Pcs, Attempting, Holding
  <2> QED
    BY <2>1, <2>2
<1>3. job' = [job EXCEPT !["ui"] = j]
  BY <1>1 DEF RetryOrBlock, JobsOK
<1> HIDE DEF j
<1> QED
  BY <1>1, <1>2, <1>3, JobStep

\* The steps of removeRemoteNode: the log-out is done only when the node is gone.
LEMMA RemoveKeeps ==
    ASSUME DesktopInv, RemoveList \/ RemoveDelete
    PROVE  DesktopInv'
<1>1. LogoutKeepsLink /\ UNCHANGED <<local, session, online, ann>>
  BY DEF RemoveList, RemoveDelete, LogoutKeepsLink, world
<1>2. job["ui"].pc \in {"list", "delete"} /\ "ui" \in Procs
  BY DEF RemoveList, RemoveDelete, At, Procs
<1>3. node' \in BOOLEAN /\ (node' => node)
  <2>1. node' \in BOOLEAN
    BY DEF RemoveList, RemoveDelete, DesktopInv, TypeInv, PanelOK, world
  <2>2. node' => node
    BY DEF RemoveList, RemoveDelete, world
  <2> QED
    BY <2>1, <2>2
<1>4. JobsOK' /\ Others("ui") /\ job'["ui"].pc \in {"delete", "clear", "idle", "list", "blocked"}
  <2>1. CASE RetryOrBlock
    BY <1>2, <2>1, RetryStep DEF DesktopInv, TypeInv
  <2>2. CASE ~ RetryOrBlock
    <3>1. PICK pc \in {"delete", "clear", "idle"} : Goes("ui", pc)
      BY <2>2 DEF RemoveList, RemoveDelete, Removed, Lingers, Expired, Lost
    <3>2. pc \in Pcs \ Holding /\ job["ui"].pc \notin Holding
      BY <1>2 DEF Pcs, Thens, Clearing, Holding, Attempting
    <3> QED
      BY <1>2, <3>1, <3>2, GoesStep DEF DesktopInv, TypeInv, Holding
  <2> QED
    BY <2>1, <2>2
<1>5. \/ UNCHANGED outcome /\ job'["ui"].pc # "clear"
      \/ outcome' = "done" /\ ~ node'
      \/ outcome' \in {"lingers", "elsewhere"}
  <2>1. CASE RetryOrBlock
    BY <1>2, <2>1, RetryStep DEF RetryOrBlock, DesktopInv, TypeInv
  <2>2. CASE Goes("ui", "delete") /\ UNCHANGED outcome
    BY <1>2, <2>2 DEF Goes, DesktopInv, TypeInv, JobsOK, Sound, Jobs
  <2>3. CASE Expired
    BY <1>2, <2>3 DEF Expired, Goes, Idle, DesktopInv, TypeInv, JobsOK
  <2>4. CASE (outcome' = "done" /\ ~ node') \/ outcome' \in {"lingers", "elsewhere"}
    BY <2>4
  <2>5. CASE RemoveList
    BY <2>1, <2>2, <2>3, <2>4, <2>5 DEF RemoveList, Removed, Lingers, Lost, world
  <2>6. CASE RemoveDelete
    BY <2>1, <2>2, <2>3, <2>4, <2>6 DEF RemoveDelete, Removed, Lingers, Lost
  <2> QED
    BY <2>5, <2>6
<1> QED
  BY <1>1, <1>2, <1>3, <1>4, <1>5, LogoutStep
  DEF DesktopInv, TypeInv, PanelOK, Outcomes, Holding, Attempting, Clearing

\* The prompt: a forced log-out is decided.
LEMMA BlockedKeeps ==
    ASSUME DesktopInv, Blocked
    PROVE  DesktopInv'
<1>1. LogoutKeepsLink /\ UNCHANGED <<local, node, session, online, ann>>
  BY DEF Blocked, LogoutKeepsLink, world
<1>2. job["ui"].pc = "blocked" /\ "ui" \in Procs
  BY DEF Blocked, At, Procs
<1>3. PICK pc \in {"idle", "stop"} : Goes("ui", pc)
  BY DEF Blocked
<1>4. JobsOK' /\ Others("ui") /\ job'["ui"].pc = pc
  BY <1>2, <1>3, GoesStep DEF DesktopInv, TypeInv, Pcs, Thens, Holding, Attempting
<1>5. outcome' \in {outcome, "forced"}
  BY DEF Blocked
<1> QED
  BY <1>1, <1>2, <1>4, <1>5, LogoutStep
  DEF DesktopInv, TypeInv, PanelOK, Outcomes, Holding, Attempting, Clearing

\* tearDownLocal and the end of the log-out.
LEMMA WipeKeeps ==
    ASSUME DesktopInv, RevokeToken \/ Wipe
    PROVE  DesktopInv'
<1>1. LogoutKeepsLink /\ UNCHANGED <<outcome, node, online, ann>>
  BY DEF RevokeToken, Wipe, LogoutKeepsLink, panel, world
<1>2. local' \in BOOLEAN /\ session' \in Sessions
  BY DEF RevokeToken, Wipe, DesktopInv, TypeInv, PanelOK, Sessions, panel, world
<1>3. job["ui"].pc \in {"clear", "wipe"} /\ "ui" \in Procs
  BY DEF RevokeToken, Wipe, At, Procs
<1>4. outcome # "none"
  BY <1>3 DEF DesktopInv, LogoutDecided, Wiping, Clearing
<1>5. PICK pc \in {"clear rule", "idle", "stop"} : Goes("ui", pc)
  BY DEF RevokeToken, Wipe
<1>6. JobsOK' /\ Others("ui") /\ job'["ui"].pc = pc
  BY <1>3, <1>5, GoesStep DEF DesktopInv, TypeInv, Pcs, Thens, Clearing, Holding, Attempting
<1> QED
  BY <1>1, <1>2, <1>3, <1>4, <1>6, LogoutStep
  DEF DesktopInv, TypeInv, PanelOK, Outcomes, Holding, Attempting

\* The loops are stopped.
LEMMA StopLoopsKeeps ==
    ASSUME DesktopInv, StopLoops
    PROVE  DesktopInv'
<1>1. UNCHANGED <<tun, adapter, scarred, outcome, local, node>> /\ job["ui"].pc = "stop"
  BY DEF StopLoops, At, world
<1>2. PanelOK'
  BY DEF StopLoops, DesktopInv, TypeInv, PanelOK, world
<1>3. "ui" \in Procs /\ Goes("ui", "undesire")
  BY DEF StopLoops, Procs
<1> QED
  BY <1>1, <1>2, <1>3, CalmGoes DEF Pcs, Holding, Attempting, Clearing

-----------------------------------------------------------------------------
(* The surroundings *)

\* A dead link is still the tunnel's.
LEMMA LinkDiesKeeps ==
    ASSUME DesktopInv, LinkDies
    PROVE  DesktopInv'
<1>1. UNCHANGED <<tun, fw, pref, panel, world, job, scarred>> /\ tun.state = "connected"
  BY DEF LinkDies
<1>2. adapter \in Adapters
  <2>1. adapter.eng # NoEngine
    BY <1>1 DEF DesktopInv, LinkInv, ConnectedIsLive, Live
  <2> QED
    BY <2>1 DEF DesktopInv, TypeInv, AdapterOK, NoAdapter
<1>3. /\ adapter' \in Adapters /\ adapter'.eng = adapter.eng
      /\ adapter'.routes = adapter.routes /\ adapter'.allowed = adapter.allowed
  BY <1>2 DEF LinkDies, Adapters
<1>4. TypeInv' /\ LogoutDecided'
  BY <1>1, <1>3 DEF DesktopInv, TypeInv, TunOK, AdapterOK, PanelOK, JobsOK, LogoutDecided, panel, world
<1>5. LinkInv'
  BY <1>1, <1>3 DEF DesktopInv, LinkInv, EnginesOK, AttemptOwns, CloseTaken, ConnectedIsLive,
                    FreshIsBare, NoForgottenRoute, At, Live
<1> QED
  BY <1>4, <1>5 DEF DesktopInv

\* What happens at the server never registers a node that was removed.
LEMMA ServerKeeps ==
    ASSUME DesktopInv, ServerSide \/ \E b \in Blocks : OthersAnnounce(b)
    PROVE  DesktopInv'
<1>1. UNCHANGED <<tun, adapter, fw, pref, panel, job, scarred>>
  BY DEF ServerSide, OthersAnnounce
<1>2. node' \in BOOLEAN /\ (node' => node)
  <2>1. node' \in BOOLEAN
    BY DEF ServerSide, OthersAnnounce, DesktopInv, TypeInv, PanelOK
  <2>2. node' => node
    BY DEF ServerSide, OthersAnnounce
  <2> QED
    BY <2>1, <2>2
<1>3. session' \in Sessions /\ online' \in BOOLEAN
  BY DEF ServerSide, OthersAnnounce, DesktopInv, TypeInv, PanelOK, Sessions
<1>4. ann' \subseteq Blocks
  BY DEF ServerSide, OthersAnnounce, DesktopInv, TypeInv, PanelOK
<1>5. TypeInv' /\ LogoutDecided'
  BY <1>1, <1>2, <1>3, <1>4
  DEF DesktopInv, TypeInv, TunOK, AdapterOK, PanelOK, JobsOK, LogoutDecided, panel
<1>6. LinkInv'
  BY <1>1, StillStep DEF DesktopInv
<1> QED
  BY <1>5, <1>6 DEF DesktopInv

-----------------------------------------------------------------------------

\* The invariant holds when the panel opens.
LEMMA InitHolds == InitDesktop => DesktopInv
<1> SUFFICES ASSUME InitDesktop PROVE DesktopInv
  OBVIOUS
<1>1. JobsOK /\ \A p \in Procs : job[p] = Idle
  BY IdleSound DEF InitDesktop, JobsOK
<1>2. TunOK /\ AdapterOK /\ PanelOK
  BY DEF InitDesktop, NewTunnel, TunOK, AdapterOK, PanelOK, Sessions, Outcomes
<1>3. EnginesOK
  BY IdleSound, <1>1 DEF EnginesOK, AttemptOwns, CloseTaken, At
<1>4. ConnectedIsLive /\ FreshIsBare /\ NoForgottenRoute
  BY DEF InitDesktop, NewTunnel, ConnectedIsLive, FreshIsBare, NoForgottenRoute
<1>5. LogoutDecided
  BY IdleSound, <1>1 DEF InitDesktop, LogoutDecided
<1> QED
  BY <1>1, <1>2, <1>3, <1>4, <1>5 DEF DesktopInv, TypeInv, LinkInv

\* A step of Tunnel's methods, by whichever goroutine.
LEMMA TunnelKeeps ==
    ASSUME DesktopInv, NEW p \in Procs, TunnelStep(p)
    PROVE  DesktopInv'
  BY ConnectKeeps, UpKeeps, WaitKeeps, SettleKeeps, ForgetKeeps, TakeKeeps, CloseKeeps,
     RulesKeep, FetchKeeps, SetExtraRoutesKeeps DEF TunnelStep

\* Every step keeps the invariant.
LEMMA NextKeeps == DesktopInv /\ [NextDesktop]_vars => DesktopInv'
<1> SUFFICES ASSUME DesktopInv, [NextDesktop]_vars PROVE DesktopInv'
  OBVIOUS
<1>1. ASSUME NEW c \in Clicks, ClickStep(c) PROVE DesktopInv'
  BY <1>1, TunnelKeeps, SetDesiredKeeps DEF ClickStep, Procs
<1>2. CASE HealthStep
  BY <1>2, TunnelKeeps, LoopsKeep DEF HealthStep, Procs
<1>3. CASE SyncStep
  BY <1>3, TunnelKeeps, LoopsKeep DEF SyncStep, Procs
<1>4. CASE UiStep
  BY <1>4, TunnelKeeps, UndesireKeeps, ToggleOnKeeps, RemoveKeeps, WipeKeeps, StopLoopsKeeps
  DEF UiStep, Procs
<1>5. CASE User
  BY <1>5, ButtonsKeep, RunLogoutKeeps, BlockedKeeps DEF User
<1>6. CASE Surroundings
  BY <1>6, LinkDiesKeeps, ServerKeeps DEF Surroundings
<1>7. CASE UNCHANGED vars
  <2>1. LinkInv'
    BY <1>7, StillStep DEF DesktopInv, vars
  <2> QED
    BY <1>7, <2>1 DEF vars, panel, world, DesktopInv, TypeInv, TunOK, AdapterOK, PanelOK, JobsOK,
                      LogoutDecided
<1> QED
  BY <1>1, <1>2, <1>3, <1>4, <1>5, <1>6, <1>7 DEF NextDesktop

\* The invariant of the desktop client.
THEOREM DesktopInvariant == SpecDesktop => []DesktopInv
  BY InitHolds, NextKeeps, PTL DEF SpecDesktop

\* DesktopTypeOK: the tunnel has an engine exactly when it is not down.
THEOREM DesktopTypeCorrect == SpecDesktop => []DesktopTypeOK
<1>1. DesktopInv => DesktopTypeOK
  BY DEF DesktopInv, TypeInv, TunOK, AdapterOK, Adapters, PanelOK, Sessions, Outcomes, JobsOK,
         Sound, Jobs, DesktopTypeOK
<1> QED
  BY <1>1, DesktopInvariant, PTL

\* ConnectedIsLive: a tunnel that says connected owns the adapter, whatever attempts and
\* teardowns overlapped (Connect's comparison of engines).
THEOREM ConnectedAlwaysLive == SpecDesktop => []ConnectedIsLive
<1>1. DesktopInv => ConnectedIsLive
  BY DEF DesktopInv, LinkInv
<1> QED
  BY <1>1, DesktopInvariant, PTL

\* NoForgottenRoute: what the adapter routes is in the memory it can be removed from, on an
\* adapter on which no route call failed halfway (SetExtraRoutes, teardown).
THEOREM RoutesNeverForgotten == SpecDesktop => []NoForgottenRoute
<1>1. DesktopInv => NoForgottenRoute
  BY DEF DesktopInv, LinkInv
<1> QED
  BY <1>1, DesktopInvariant, PTL

\* NoSilentOrphan: keys of a registered device are not wiped without a warning, unless the
\* panel was signed in to an account that does not own it (removeRemoteNode, Logout).
THEOREM OrphansNeverSilent == SpecDesktop => []NoSilentOrphan
<1>1. DesktopInv => NoSilentOrphan
  BY DEF DesktopInv, TypeInv, PanelOK, Outcomes, LogoutDecided, NoSilentOrphan
<1> QED
  BY <1>1, DesktopInvariant, PTL
=============================================================================
