------------------------------ MODULE Session ------------------------------
(***************************************************************************)
(* Identity and session of one client machine: the device key and the two  *)
(* tokens in the secure store (client/keyring), the setup record           *)
(* (client/state), and the code that creates, uses and removes them: the   *)
(* REST client's silent refresh (client/apiclient), onboarding             *)
(* (client/onboard, the wizard of client/ui), the panel's session and      *)
(* log-out (client/panel) on the desktop; the commands and the daemon's    *)
(* cycle of cmd/lanweave-routerd on the router.                            *)
(*                                                                         *)
(* A call of the server, the secure store or the state file is one step of *)
(* the process that makes it: "fg" is the wizard or panel goroutine, or a  *)
(* router command; "bg" is the panel's poll loop or the daemon's cycle.    *)
(* The server is what the clients see of it (Relay and Accounts model it). *)
(***************************************************************************)
EXTENDS Naturals, Sequences, FiniteSets

CONSTANTS
    Kinds,        \* the machines considered: "desktop", "router"
    Users,        \* accounts, or usernames to create one under
    Names,        \* device names
    FaultKinds,   \* what may go wrong, see Fault
    Bound         \* for each kind: how many faults, events of the surroundings, of both together,
                  \* sign-ins, and keys (attempts to register the device)

ASSUME SessionAssumption ==
    /\ Kinds \subseteq {"desktop", "router"}
    /\ Bound \in [Kinds -> [faults : Nat, events : Nat, both : Nat, logins : Nat, keys : Nat]]

VARIABLES
    kind,         \* the machine is a desktop or a router
    ring,         \* secure store: [key, acc, ref]
    rec,          \* setup record: [key, name, ip] of the registered node, or NoRecord
    screen,       \* desktop: what the window shows; router: "shell"
    loops,        \* the panel polls, or the daemon runs
    client,       \* the tokens each apiclient.Client holds in memory
    job,          \* what the two processes do
    keys,         \* key pairs generated so far
    acct, node, live, owner,   \* server: accounts, nodes, accepted refresh tokens and whose they are
    epoch,        \* access tokens issued before this epoch have expired
    online,       \* the server can be reached
    faults, events,
    told,         \* how often the user was told, or agreed, that a node may stay behind
    unsaid,       \* how often one may and nothing is said: the machine stopped in a registration, see
                  \* Unfinished, or the panel was signed in to an account that does not own the device
    cracked,      \* a write or delete of the secure store or the state file has failed
    stranger,     \* the panel has been signed in to an account that does not own the device
    straggler,    \* the daemon was in a cycle while a log-out removed the tokens
    out           \* how the last log-out ended, and the device it was of

local   == <<ring, rec>>
ui      == <<screen, loops>>
server  == <<acct, node, live, owner>>
world   == <<epoch, online, events>>
marks   == <<unsaid, cracked, stranger, straggler, out>>
history == <<told, marks>>
vars    == <<kind, local, ui, client, job, keys, server, world, faults, history>>

-----------------------------------------------------------------------------

\* A refresh token is the number of the login that issued it, an access token also tells
\* when it was issued.  A node is named by its public key.
NoToken   == [l |-> 0, e |-> 0]
NoRecord  == [key |-> 0, name |-> "none", ip |-> 0]
EmptyRing == [key |-> 0, acc |-> NoToken, ref |-> 0]
NoTokens  == [acc |-> NoToken, ref |-> 0]
NoOut     == [how |-> "none", key |-> 0]
Idle      == [pc |-> "idle", flow |-> "none", u |-> "none", name |-> "none", key |-> 0, ip |-> 0,
              back |-> "none", sent |-> 0, again |-> FALSE, tries |-> 0, todo |-> <<>>]

MaxAttempts == 3     \* removeRemoteNode, cmdLogout

\* One step of several goes wrong: "net" an answer is lost, "server" a 5xx, "save" the state
\* file cannot be written, "cache" the secure store cannot, "delete" an entry stays, "power"
\* the machine stops.
InBudget == faults + events < Bound[kind].both
Fault(k) == k \in FaultKinds /\ faults < Bound[kind].faults /\ InBudget /\ faults' = faults + 1
Smooth   == UNCHANGED faults

At(p, pc)   == job[p].pc = pc
Flow(p, fs) == job[p].flow \in fs
Goes(p, pc) == job' = [job EXCEPT ![p].pc = pc, ![p].again = FALSE]
Ends(p)     == job' = [job EXCEPT ![p] = Idle]
Begins(p, pc, flow) == job' = [job EXCEPT ![p] = [Idle EXCEPT !.pc = pc, !.flow = flow]]

\* The panel and its loops share one Client; a router command and the daemon have their own.
Cl(p)   == IF kind = "desktop" THEN "fg" ELSE p
Mine(p) == client[Cl(p)]
Holds(p, tokens) == client' = [client EXCEPT ![Cl(p)] = tokens]
CachedTokens == [acc |-> ring.acc, ref |-> ring.ref]

Accepted(p) == Mine(p).acc.l # 0 /\ Mine(p).acc.e = epoch
UserOf(p)   == owner[Mine(p).acc.l]

-----------------------------------------------------------------------------
(* What the code around a call does with its error *)

\* Provision: back to a step of the wizard.  promptSignInThen: the form again.
FormAgain(p) ==
    /\ Flow(p, {"provision", "signin", "signin then log out", "cmdLogin", "cmdRegister"})
    /\ Ends(p) /\ UNCHANGED ui

\* LoadSession: an expired session asks for a sign-in, another error is shown and start goes on.
LoadFails(p, e) ==
    /\ Flow(p, {"load"}) /\ Ends(p)
    /\ screen' = IF e = "expired" THEN "prompt" ELSE "panel"
    /\ loops' = (e # "expired")

\* removeRemoteNode and classifyRemoveErr.
LogoutFails(p, e) ==
    /\ Flow(p, {"logout"})
    /\ \/ /\ e = "unreachable" /\ job[p].tries + 1 < MaxAttempts
          /\ job' = [job EXCEPT ![p].pc = "list", ![p].again = FALSE, ![p].tries = @ + 1]
          /\ UNCHANGED ui
       \/ /\ e = "unreachable" /\ job[p].tries + 1 = MaxAttempts
          /\ Ends(p) /\ screen' = "blocked" /\ UNCHANGED loops
       \/ e = "expired" /\ Ends(p) /\ screen' = "prompt to log out" /\ UNCHANGED loops
       \/ /\ e = "server" /\ UNCHANGED ui
          /\ job' = [job EXCEPT ![p].pc = "revoke", ![p].flow = "lingering logout"]

\* cmdLogout tries again whatever the error.
CmdLogoutFails(p) ==
    /\ Flow(p, {"cmdLogout"}) /\ UNCHANGED ui
    /\ \/ job[p].tries + 1 < MaxAttempts
          /\ job' = [job EXCEPT ![p].again = FALSE, ![p].tries = @ + 1, ![p].pc = "delete"]
       \/ job[p].tries + 1 = MaxAttempts /\ Ends(p)

\* The daemon's cycle and the zone commands cache their tokens also when a call failed.
BackgroundFails(p) ==
    /\ UNCHANGED ui
    /\ \/ Flow(p, {"poll"}) /\ Ends(p)
       \/ Flow(p, {"cycle"}) /\ Goes(p, "setAcc")

Fails(p, e) ==
    FormAgain(p) \/ LoadFails(p, e) \/ LogoutFails(p, e) \/ CmdLogoutFails(p) \/ BackgroundFails(p)

-----------------------------------------------------------------------------
(* What every step of a process does besides *)

\* The Client of a router command or cycle ends with it.
KeepsClient == client' = [q \in {"fg", "bg"} |->
                  IF kind = "router" /\ job'[q] = Idle THEN NoTokens ELSE client[q]]

\* An error is shown for a registration that may have reached the server.
Abandons(p) ==
    /\ Flow(p, {"provision", "cmdRegister"}) /\ job'[p] = Idle
    /\ \/ (IF At(p, "refresh") THEN job[p].back ELSE job[p].pc) \in {"node", "info", "save", "setAcc"}
       \/ At(p, "setRef") /\ faults' # faults

\* The server has the node of a registration and the setup record does not; or it does, and the
\* session beside it is still an earlier one, which a failed delete has left behind.
Unfinished(p) ==
    \/ /\ Flow(p, {"provision", "cmdRegister"})
       /\ (IF At(p, "refresh") THEN job[p].back ELSE job[p].pc) \in {"info", "save"}
    \/ Flow(p, {"provision"}) /\ job[p].pc \in {"setAcc", "setRef"} /\ cracked

\* ErrRemoteMayLinger.
Warns(p) == Flow(p, {"logout"}) /\ job'[p].flow = "lingering logout"

Settles(p) ==
    /\ KeepsClient
    /\ told' = told + (IF Abandons(p) \/ Warns(p) THEN 1 ELSE 0)

-----------------------------------------------------------------------------
(* apiclient: do, attempt, Refresh *)

AuthCalls == {"node", "info", "me", "list", "delete"}
Calls     == AuthCalls \cup {"register", "login"}

Unreachable(p) ==
    /\ job[p].pc \in Calls /\ ~ online /\ Fails(p, "unreachable")
    /\ Settles(p) /\ UNCHANGED <<kind, local, keys, server, world, faults, marks>>

ServerError(p) ==
    /\ job[p].pc \in Calls /\ online /\ Fault("server") /\ Fails(p, "server")
    /\ Settles(p) /\ UNCHANGED <<kind, local, keys, server, world, marks>>

\* A 401 on an authenticated call: one silent refresh, if there is a refresh token.
Rejected(p) ==
    /\ job[p].pc \in AuthCalls /\ online /\ ~ Accepted(p)
    /\ IF Mine(p).ref # 0 /\ ~ job[p].again
       THEN /\ job' = [job EXCEPT ![p].pc = "refresh", ![p].back = job[p].pc, ![p].sent = Mine(p).ref]
            /\ UNCHANGED ui
       ELSE Fails(p, "expired")
    /\ Settles(p) /\ UNCHANGED <<kind, local, keys, server, world, faults, marks>>

\* A slip: a refresh token is taken from an answer that has none.
RefreshRotates(p) ==
    /\ At(p, "refresh") /\ online /\ job[p].sent \in live
    /\ Holds(p, [acc |-> [l |-> job[p].sent, e |-> epoch], ref |-> job[p].sent + 1])
    /\ job' = [job EXCEPT ![p].pc = job[p].back, ![p].again = TRUE]
    /\ UNCHANGED <<kind, local, ui, keys, server, world, faults, history>>

\* Whatever fails in it, the caller sees the first call's 401.
Refresh(p) ==
    LET j == job[p] IN
    /\ At(p, "refresh")
    /\ \/ /\ online /\ j.sent \in live
          /\ Holds(p, [Mine(p) EXCEPT !.acc = [l |-> j.sent, e |-> epoch]])
          /\ job' = [job EXCEPT ![p].pc = j.back, ![p].again = TRUE]
          /\ Smooth /\ UNCHANGED <<ui, told>>
       \/ /\ ~ (online /\ j.sent \in live) /\ Smooth
          /\ Fails(p, "expired") /\ Settles(p)
       \/ /\ online /\ j.sent \in live /\ (Fault("net") \/ Fault("server"))
          /\ Fails(p, "expired") /\ Settles(p)
    /\ UNCHANGED <<kind, local, keys, server, world, marks>>

Answered(p) == online /\ Accepted(p)

-----------------------------------------------------------------------------
(* The calls *)

\* Register: an account, for an invite; a taken name is an error.
CreateAccount(p) ==
    LET u == job[p].u IN
    /\ At(p, "register") /\ online
    /\ \/ u \notin acct /\ acct' = acct \cup {u} /\ Goes(p, "login") /\ Smooth /\ UNCHANGED ui
       \/ u \notin acct /\ acct' = acct \cup {u} /\ Fault("net") /\ Fails(p, "unreachable")
       \/ u \in acct /\ Fails(p, "taken") /\ Smooth /\ UNCHANGED acct
    /\ Settles(p) /\ UNCHANGED <<kind, local, keys, node, live, owner, world, marks>>

AfterLogin(p) == IF Flow(p, {"provision"}) THEN "key" ELSE "setAcc"

\* The panel's user may sign in to any account, also to one that does not own the device.
Foreign(p) ==
    /\ Flow(p, {"signin", "signin then log out"})
    /\ rec.key \in DOMAIN node /\ node[rec.key].user # job[p].u

Login(p) ==
    LET u == job[p].u
        l == Len(owner) + 1
    IN
    /\ At(p, "login") /\ online
    /\ \/ /\ u \in acct
          /\ owner' = Append(owner, u) /\ live' = live \cup {l}
          /\ \/ /\ Smooth /\ Holds(p, [acc |-> [l |-> l, e |-> epoch], ref |-> l])
                /\ Goes(p, AfterLogin(p)) /\ UNCHANGED ui
                /\ stranger' = (stranger \/ Foreign(p)) /\ UNCHANGED told
                /\ unsaid' = unsaid + (IF Foreign(p) THEN 1 ELSE 0)
             \/ Fault("net") /\ Fails(p, "unreachable") /\ Settles(p) /\ UNCHANGED <<unsaid, stranger>>
       \/ /\ u \notin acct /\ Fails(p, "auth") /\ Smooth /\ Settles(p)
          /\ UNCHANGED <<live, owner, unsaid, stranger>>
    /\ UNCHANGED <<kind, local, keys, acct, node, world, cracked, straggler, out>>

\* What the server records of a node.  Its address is the lowest free one.
FreeIp  == CHOOSE i \in 1 .. Cardinality(DOMAIN node) + 1 :
              /\ \A k \in DOMAIN node : node[k].ip # i
              /\ \A j \in 1 .. i - 1 : \E k \in DOMAIN node : node[k].ip = j
Taken(nm, u) == \E k \in DOMAIN node : node[k].name = nm /\ node[k].user = u
Registered(k, nm, u) ==
    [x \in DOMAIN node \cup {k} |-> IF x = k THEN [name |-> nm, user |-> u, ip |-> FreeIp] ELSE node[x]]
Without(k) == [x \in DOMAIN node \ {k} |-> node[x]]

\* registerDevice.  Its recovery from pubkey_taken is not reached: every attempt has a new key.
RegisterNode(p) ==
    LET j == job[p] IN
    /\ At(p, "node") /\ Answered(p)
    /\ \/ /\ ~ Taken(j.name, UserOf(p)) /\ node' = Registered(j.key, j.name, UserOf(p))
          /\ \/ /\ Smooth /\ UNCHANGED ui
                /\ job' = [job EXCEPT ![p].pc = "info", ![p].again = FALSE, ![p].ip = FreeIp]
             \/ Fault("net") /\ Fails(p, "unreachable")
       \/ Taken(j.name, UserOf(p)) /\ Fails(p, "taken") /\ Smooth /\ UNCHANGED node
    /\ Settles(p) /\ UNCHANGED <<kind, local, keys, acct, live, owner, world, marks>>

\* Reads: ServerInfo, Me, and the daemon's and the poll loop's lists.
ServerInfo(p) ==
    /\ At(p, "info") /\ Answered(p) /\ Goes(p, "save")
    /\ Settles(p) /\ UNCHANGED <<kind, local, ui, keys, server, world, faults, marks>>

Me(p) ==
    /\ At(p, "me") /\ Answered(p) /\ Ends(p) /\ screen' = "panel" /\ loops' = TRUE
    /\ Settles(p) /\ UNCHANGED <<kind, local, keys, server, world, faults, marks>>

ListInBackground(p) ==
    /\ At(p, "list") /\ Flow(p, {"poll", "cycle"}) /\ Answered(p)
    /\ IF Flow(p, {"poll"}) THEN Ends(p) ELSE Goes(p, "setAcc")
    /\ Settles(p) /\ UNCHANGED <<kind, local, ui, keys, server, world, faults, marks>>

\* isThisMachine, by name or by address.
ThisMachine(p) ==
    {k \in DOMAIN node : node[k].user = UserOf(p) /\ (node[k].name = rec.name \/ node[k].ip = rec.ip)}

\* A slip: the device is looked up and not deleted.
ListNodesOnly(p) ==
    /\ At(p, "list") /\ Flow(p, {"logout"}) /\ Answered(p) /\ Goes(p, "revoke")
    /\ Settles(p) /\ UNCHANGED <<kind, local, ui, keys, server, world, faults, marks>>

\* thisMachineNodeID: a device that is not in the list counts as removed.
ListNodes(p) ==
    /\ At(p, "list") /\ Flow(p, {"logout"}) /\ Answered(p)
    /\ \/ \E k \in ThisMachine(p) :
             job' = [job EXCEPT ![p].pc = "delete", ![p].again = FALSE, ![p].key = k]
       \/ ThisMachine(p) = {} /\ Goes(p, "revoke")
    /\ Settles(p) /\ UNCHANGED <<kind, local, ui, keys, server, world, faults, marks>>

\* DeleteNode: the desktop takes a 404 for "already gone", the router for an error.
DeleteNode(p) ==
    LET k    == job[p].key
        mine == k \in DOMAIN node /\ node[k].user = UserOf(p)
    IN
    /\ At(p, "delete") /\ Answered(p)
    /\ \/ /\ mine /\ node' = Without(k)
          /\ \/ Smooth /\ Goes(p, "revoke") /\ UNCHANGED ui
             \/ Fault("net") /\ Fails(p, "unreachable")
       \/ /\ ~ mine /\ Smooth /\ UNCHANGED node
          /\ IF kind = "desktop" THEN Goes(p, "revoke") /\ UNCHANGED ui ELSE Fails(p, "gone")
    /\ Settles(p) /\ UNCHANGED <<kind, local, keys, acct, live, owner, world, marks>>

\* A slip: the refresh token is forgotten.
WipeOrderShort == IF kind = "desktop" THEN <<"acc", "key", "rec">> ELSE <<"key", "acc", "rec">>

\* tearDownLocal; cmdLogout.
WipeOrder == IF kind = "desktop" THEN <<"acc", "ref", "key", "rec">> ELSE <<"key", "acc", "ref", "rec">>

\* Client.Logout, best effort.
Revoke(p) ==
    /\ At(p, "revoke")
    /\ job' = [job EXCEPT ![p].pc = "wipe", ![p].todo = WipeOrder]
    /\ \/ live' = (IF online THEN live \ {Mine(p).ref} ELSE live) /\ Smooth
       \/ online /\ Mine(p).ref # 0 /\ Fault("server") /\ UNCHANGED live
    /\ Settles(p) /\ UNCHANGED <<kind, local, ui, keys, acct, node, owner, world, marks>>

-----------------------------------------------------------------------------
(* Secure store and state file *)

\* ProvisionDevice: a new key pair, stored before it is registered.
StoreKey(p) ==
    /\ At(p, "key") /\ keys' = keys + 1
    /\ \/ /\ Smooth /\ ring' = [ring EXCEPT !.key = keys + 1]
          /\ job' = [job EXCEPT ![p].pc = "node", ![p].key = keys + 1]
          /\ UNCHANGED <<ui, cracked>>
       \/ Fault("cache") /\ Fails(p, "local") /\ cracked' = TRUE /\ UNCHANGED ring
    /\ Settles(p) /\ UNCHANGED <<kind, rec, server, world, unsaid, stranger, straggler, out>>

SaveRecord(p) ==
    /\ At(p, "save")
    /\ \/ /\ Smooth /\ rec' = [key |-> job[p].key, name |-> job[p].name, ip |-> job[p].ip]
          /\ Goes(p, "setAcc") /\ UNCHANGED ui
       \/ Fault("save") /\ Fails(p, "local") /\ UNCHANGED rec
    /\ Settles(p) /\ UNCHANGED <<kind, ring, keys, server, world, marks>>

\* persistTokens writes no empty token and ignores errors; the others stop at an error.
Persists(p) == Flow(p, {"cycle", "cmdLogin"})

CacheAccess(p) ==
    /\ At(p, "setAcc")
    /\ \/ /\ Smooth /\ Goes(p, "setRef") /\ UNCHANGED <<ui, cracked>>
          /\ ring' = IF Mine(p).acc = NoToken THEN ring ELSE [ring EXCEPT !.acc = Mine(p).acc]
       \/ /\ Fault("cache") /\ cracked' = TRUE /\ UNCHANGED ring
          /\ IF Persists(p) THEN Goes(p, "setRef") /\ UNCHANGED ui ELSE Fails(p, "local")
    /\ Settles(p) /\ UNCHANGED <<kind, rec, keys, server, world, unsaid, stranger, straggler, out>>

\* Where a process goes once its tokens are cached.
Finished(p) ==
    \/ Flow(p, {"cycle", "cmdLogin", "cmdRegister"}) /\ Ends(p) /\ UNCHANGED ui
    \/ /\ Flow(p, {"provision"}) /\ Ends(p) /\ UNCHANGED loops
       /\ screen' = IF kind = "desktop" THEN "opening" ELSE "shell"
    \/ Flow(p, {"signin"}) /\ Ends(p) /\ screen' = "panel" /\ loops' = TRUE
    \/ Flow(p, {"signin then log out"}) /\ Begins(p, "list", "logout") /\ screen' = "panel" /\ UNCHANGED loops

CacheRefresh(p) ==
    /\ At(p, "setRef")
    /\ \/ /\ Smooth /\ Finished(p) /\ UNCHANGED cracked
          /\ ring' = IF Mine(p).ref = 0 THEN ring ELSE [ring EXCEPT !.ref = Mine(p).ref]
       \/ /\ Fault("cache") /\ cracked' = TRUE /\ UNCHANGED ring
          /\ IF Persists(p) THEN Finished(p) ELSE Fails(p, "local")
    /\ Settles(p) /\ UNCHANGED <<kind, rec, keys, server, world, unsaid, stranger, straggler, out>>

\* Where a process goes once everything is deleted.  The poll of a panel that is left keeps a
\* Client nothing else uses.
Wiped(p) ==
    /\ job' = [q \in {"fg", "bg"} |-> IF q = p \/ kind = "desktop" THEN Idle ELSE job[q]]
    /\ screen' = IF kind = "desktop" THEN "wizard" ELSE "shell"
    /\ loops' = (loops /\ kind = "router")
    /\ out' = [how |-> job[p].flow, key |-> rec.key]

\* Cleanup, tearDownLocal, cmdLogout's wipe: every delete is made, whatever fails before it.
Wipe(p) ==
    LET x == Head(job[p].todo) IN
    /\ At(p, "wipe")
    /\ \/ /\ Smooth /\ UNCHANGED cracked
          /\ ring' = IF x = "rec" THEN ring ELSE [ring EXCEPT ![x] = EmptyRing[x]]
          /\ rec' = IF x = "rec" THEN NoRecord ELSE rec
       \/ Fault("delete") /\ cracked' = TRUE /\ UNCHANGED local
    /\ IF Len(job[p].todo) = 1 THEN Wiped(p)
       ELSE job' = [job EXCEPT ![p].todo = Tail(@)] /\ UNCHANGED <<ui, out>>
    /\ straggler' = (straggler \/ job["bg"] # Idle)
    /\ Settles(p) /\ UNCHANGED <<kind, keys, server, world, unsaid, stranger>>

-----------------------------------------------------------------------------
(* The desktop user *)

Free     == job["fg"] = Idle
Prompts  == {"prompt", "prompt to log out"}
Starts(flow, pc, u, nm) ==
    job' = [job EXCEPT !["fg"] = [Idle EXCEPT !.flow = flow, !.pc = pc, !.u = u, !.name = nm]]
Forget   == out' = NoOut /\ straggler' = FALSE
MayLogin == Len(owner) < Bound[kind].logins
MayRegister == keys < Bound[kind].keys

\* runProvision: a new Client, with no tokens.
StartProvision(u, nm, create) ==
    /\ kind = "desktop" /\ screen = "wizard" /\ Free /\ MayLogin /\ MayRegister
    /\ Starts("provision", IF create THEN "register" ELSE "login", u, nm)
    /\ Holds("fg", NoTokens) /\ Forget /\ stranger' = FALSE
    /\ UNCHANGED <<kind, local, ui, keys, server, world, faults, told, unsaid, cracked>>

\* Wizard.cancel: Cleanup.
Cancel ==
    /\ kind = "desktop" /\ screen = "wizard" /\ Free /\ <<ring, rec>> # <<EmptyRing, NoRecord>>
    /\ job' = [job EXCEPT !["fg"] = [Idle EXCEPT !.flow = "cancel", !.pc = "wipe",
                                                 !.todo = <<"key", "acc", "ref", "rec">>]]
    /\ UNCHANGED <<kind, local, ui, client, keys, server, world, faults, history>>

\* A slip: the refresh token is not restored.
OpenPanelShort ==
    /\ kind = "desktop" /\ screen = "opening" /\ Free
    /\ IF ring.acc = NoToken
       THEN Holds("fg", NoTokens) /\ screen' = "prompt" /\ UNCHANGED job
       ELSE Holds("fg", [CachedTokens EXCEPT !.ref = 0]) /\ Begins("fg", "me", "load") /\ UNCHANGED screen
    /\ UNCHANGED <<kind, local, loops, keys, server, world, faults, history>>

\* NewPanel, start, LoadSession: a new Client, with the cached tokens.
OpenPanel ==
    /\ kind = "desktop" /\ screen = "opening" /\ Free
    /\ IF ring.acc = NoToken
       THEN Holds("fg", NoTokens) /\ screen' = "prompt" /\ UNCHANGED job
       ELSE Holds("fg", CachedTokens) /\ Begins("fg", "me", "load") /\ UNCHANGED screen
    /\ UNCHANGED <<kind, local, loops, keys, server, world, faults, history>>

\* Controller.SignIn.
SignIn(u) ==
    /\ kind = "desktop" /\ screen \in Prompts /\ Free /\ MayLogin
    /\ Starts(IF screen = "prompt" THEN "signin" ELSE "signin then log out", "login", u, "none")
    /\ UNCHANGED <<kind, local, ui, client, keys, server, world, faults, history>>

\* The dialogs dismissed; the panel stays.
Dismiss ==
    /\ kind = "desktop" /\ screen \in Prompts \cup {"blocked"} /\ Free /\ screen' = "panel"
    /\ UNCHANGED <<kind, local, loops, client, job, keys, server, world, faults, history>>

Logout ==
    /\ kind = "desktop" /\ screen = "panel" /\ Free /\ Begins("fg", "list", "logout")
    /\ UNCHANGED <<kind, local, ui, client, keys, server, world, faults, history>>

ForceLogout ==
    /\ kind = "desktop" /\ screen = "blocked" /\ Free /\ Begins("fg", "revoke", "forced logout")
    /\ told' = told + 1
    /\ UNCHANGED <<kind, local, ui, client, keys, server, world, faults, unsaid, cracked, stranger, straggler, out>>

Poll ==
    /\ kind = "desktop" /\ loops /\ job["bg"] = Idle /\ Begins("bg", "list", "poll")
    /\ UNCHANGED <<kind, local, ui, client, keys, server, world, faults, history>>

-----------------------------------------------------------------------------
(* The router's commands and daemon; newClient loads the cached tokens *)

CmdLogin(u, create) ==
    /\ kind = "router" /\ Free /\ MayLogin
    /\ Starts("cmdLogin", IF create THEN "register" ELSE "login", u, "none")
    /\ Holds("fg", CachedTokens) /\ Forget
    /\ UNCHANGED <<kind, local, ui, keys, server, world, faults, told, unsaid, cracked, stranger>>

\* A slip: a device that is already registered is registered again.
CmdRegisterAgain(nm) ==
    /\ kind = "router" /\ Free /\ MayRegister /\ CachedTokens # NoTokens
    /\ Starts("cmdRegister", "key", "none", nm)
    /\ Holds("fg", CachedTokens) /\ Forget
    /\ UNCHANGED <<kind, local, ui, keys, server, world, faults, told, unsaid, cracked, stranger>>

CmdRegister(nm) ==
    /\ kind = "router" /\ Free /\ MayRegister /\ rec = NoRecord /\ CachedTokens # NoTokens
    /\ Starts("cmdRegister", "key", "none", nm)
    /\ Holds("fg", CachedTokens) /\ Forget
    /\ UNCHANGED <<kind, local, ui, keys, server, world, faults, told, unsaid, cracked, stranger>>

\* zone and status: one call, then persistTokens.
CmdZone ==
    /\ kind = "router" /\ Free /\ rec # NoRecord
    /\ Begins("fg", "list", "cycle") /\ Holds("fg", CachedTokens)
    /\ UNCHANGED <<kind, local, ui, keys, server, world, faults, history>>

CmdLogout ==
    /\ kind = "router" /\ Free /\ rec # NoRecord
    /\ job' = [job EXCEPT !["fg"] = [Idle EXCEPT !.flow = "cmdLogout", !.pc = "delete", !.key = rec.key]]
    /\ Holds("fg", CachedTokens)
    /\ UNCHANGED <<kind, local, ui, keys, server, world, faults, history>>

\* logout --force: no call of the server, not even to revoke the refresh token.
CmdLogoutForce ==
    /\ kind = "router" /\ Free /\ <<ring, rec>> # <<EmptyRing, NoRecord>>
    /\ job' = [job EXCEPT !["fg"] = [Idle EXCEPT !.flow = "forced logout", !.pc = "wipe", !.todo = WipeOrder]]
    /\ told' = told + (IF rec = NoRecord THEN 0 ELSE 1)
    /\ UNCHANGED <<kind, local, ui, client, keys, server, world, faults, unsaid, cracked, stranger, straggler, out>>

StartDaemon ==
    /\ kind = "router" /\ ~ loops /\ rec # NoRecord /\ ring.key # 0 /\ loops' = TRUE
    /\ UNCHANGED <<kind, local, screen, client, job, keys, server, world, faults, history>>

StopDaemon ==
    /\ kind = "router" /\ loops /\ loops' = FALSE
    /\ job' = [job EXCEPT !["bg"] = Idle] /\ client' = [client EXCEPT !["bg"] = NoTokens]
    /\ UNCHANGED <<kind, local, screen, keys, server, world, faults, history>>

\* reconcileAll; one at a time (reconcileBusy).
Cycle ==
    /\ kind = "router" /\ loops /\ job["bg"] = Idle
    /\ Begins("bg", "list", "cycle") /\ Holds("bg", CachedTokens)
    /\ straggler' = (straggler \/ At("fg", "wipe"))
    /\ UNCHANGED <<kind, local, ui, keys, server, world, faults, told, unsaid, cracked, stranger, out>>

-----------------------------------------------------------------------------
(* The surroundings *)

Event == events < Bound[kind].events /\ InBudget /\ events' = events + 1

\* Access tokens expire; never between the refresh and the request it was made for.
Expire ==
    /\ Event /\ epoch' = epoch + 1 /\ \A p \in {"fg", "bg"} : ~ job[p].again
    /\ UNCHANGED <<kind, local, ui, client, job, keys, server, online, faults, history>>

RevokeElsewhere(l) ==
    /\ Event /\ l \in live /\ live' = live \ {l}
    /\ UNCHANGED <<kind, local, ui, client, job, keys, acct, node, owner, epoch, online, faults, history>>

\* Another device of the account, or the operator, deletes a node.
NodeGone(k) ==
    /\ Event /\ k \in DOMAIN node /\ node' = Without(k)
    /\ UNCHANGED <<kind, local, ui, client, job, keys, acct, live, owner, epoch, online, faults, history>>

\* Another machine registers a device.
OtherDevice(u, nm) ==
    /\ Event /\ u \in acct /\ ~ Taken(nm, u)
    /\ node' = Registered(Bound[kind].keys + events', nm, u)
    /\ UNCHANGED <<kind, local, ui, client, job, keys, acct, live, owner, epoch, online, faults, history>>

GoOffline ==
    /\ Event /\ online /\ online' = FALSE
    /\ UNCHANGED <<kind, local, ui, client, job, keys, server, epoch, faults, history>>

GoOnline ==
    /\ ~ online /\ online' = TRUE
    /\ UNCHANGED <<kind, local, ui, client, job, keys, server, epoch, events, faults, history>>

\* StartupTarget decides where the next launch begins: the wizard if there is no record, which
\* says nothing of a registration that was cut short.
Power ==
    /\ Fault("power")
    /\ job' = [p \in {"fg", "bg"} |-> Idle] /\ client' = [p \in {"fg", "bg"} |-> NoTokens]
    /\ loops' = FALSE
    /\ screen' = IF kind = "router" THEN "shell" ELSE IF rec = NoRecord THEN "wizard" ELSE "opening"
    /\ unsaid' = unsaid + (IF \E p \in {"fg", "bg"} : Unfinished(p) THEN 1 ELSE 0)
    /\ UNCHANGED <<kind, local, keys, server, world, told, cracked, stranger, straggler, out>>

-----------------------------------------------------------------------------

Init ==
    /\ kind \in Kinds
    /\ ring = EmptyRing /\ rec = NoRecord
    /\ screen = (IF kind = "desktop" THEN "wizard" ELSE "shell") /\ loops = FALSE
    /\ client = [p \in {"fg", "bg"} |-> NoTokens] /\ job = [p \in {"fg", "bg"} |-> Idle]
    /\ keys = 0 /\ acct \in {{u} : u \in Users} /\ node = <<>> /\ live = {} /\ owner = <<>>
    /\ epoch = 1 /\ online = TRUE /\ faults = 0 /\ events = 0 /\ told = 0 /\ unsaid = 0
    /\ cracked = FALSE /\ stranger = FALSE /\ straggler = FALSE /\ out = NoOut

Step(p) ==
    \/ Unreachable(p) \/ ServerError(p) \/ Rejected(p) \/ Refresh(p)
    \/ CreateAccount(p) \/ Login(p) \/ RegisterNode(p) \/ ServerInfo(p) \/ Me(p)
    \/ ListInBackground(p) \/ ListNodes(p) \/ DeleteNode(p) \/ Revoke(p)
    \/ StoreKey(p) \/ SaveRecord(p) \/ CacheAccess(p) \/ CacheRefresh(p) \/ Wipe(p)

Desktop ==
    \/ \E u \in Users, nm \in Names, create \in BOOLEAN : StartProvision(u, nm, create)
    \/ Cancel \/ OpenPanel \/ Dismiss \/ Logout \/ ForceLogout \/ Poll
    \/ \E u \in Users : SignIn(u)

Router ==
    \/ \E u \in Users, create \in BOOLEAN : CmdLogin(u, create)
    \/ \E nm \in Names : CmdRegister(nm)
    \/ CmdZone \/ CmdLogout \/ CmdLogoutForce \/ StartDaemon \/ StopDaemon \/ Cycle

Surroundings ==
    \/ Expire \/ GoOffline \/ GoOnline \/ Power
    \/ \E l \in live : RevokeElsewhere(l)
    \/ \E k \in DOMAIN node : NodeGone(k)
    \/ \E u \in Users, nm \in Names : OtherDevice(u, nm)

Next == (\E p \in {"fg", "bg"} : Step(p)) \/ Desktop \/ Router \/ Surroundings

Spec == Init /\ [][Next]_vars

-----------------------------------------------------------------------------
(* Properties *)

Tokens == [l : 0 .. Bound[kind].logins, e : Nat]

\* The variables stay in their types; every token names a login the server has seen.
SessionTypeOK ==
    /\ kind \in Kinds /\ loops \in BOOLEAN /\ online \in BOOLEAN
    /\ ring \in [key : 0 .. Bound[kind].keys, acc : Tokens, ref : 0 .. Bound[kind].logins]
    /\ rec \in [key : 0 .. Bound[kind].keys, name : Names \cup {"none"}, ip : Nat]
    /\ screen \in {"wizard", "shell", "opening", "panel", "blocked"} \cup Prompts
    /\ client \in [{"fg", "bg"} -> [acc : Tokens, ref : 0 .. Bound[kind].logins]]
    /\ keys \in 0 .. Bound[kind].keys /\ acct \subseteq Users
    /\ owner \in Seq(Users) /\ Len(owner) <= Bound[kind].logins /\ live \subseteq 1 .. Len(owner)
    /\ \A k \in DOMAIN node : node[k] \in [name : Names, user : Users, ip : Nat \ {0}]
    /\ \A t \in {ring.ref, ring.acc.l} \cup {client[p].ref : p \in {"fg", "bg"}} : t <= Len(owner)

\* The private key in the secure store is the key of the node the setup record names: a tunnel
\* built from the two is the device the server knows (engineFromState, tunnel.New).  On the
\* desktop, unless a write of the secure store or the state file has failed.
IdentityIntact ==
    /\ kind = "router" \/ ~ cracked
    /\ rec # NoRecord /\ ring.key # 0 /\ rec.key \in DOMAIN node
    => ring.key = rec.key

\* Nodes this machine has registered and no longer knows of: the record does not name them, and
\* no registration is on its way to the record.
Orphans == {k \in DOMAIN node \cap 1 .. keys :
              /\ rec.key # k
              /\ ~ \E p \in {"fg", "bg"} : job[p].key = k /\ job[p].pc \in {"info", "save", "refresh"}}

\* "no orphan node is left behind" (main.go, cmdLogout; 025): for every node left behind the user
\* has seen an error of the set-up or the linger warning, or has forced a log-out; except for the
\* two ways in which nothing is said, one node each time: the machine stops in a registration the
\* server has made, and the next launch is a plain wizard; the panel is signed in to an account
\* that does not own the device, and its log-out reports success.
NoSilentLeftover == Cardinality(Orphans) <= told + unsaid

\* A log-out that reports success has left nothing: no key, no token, no record, and the device it
\* was of is not registered (025 FR-001).  Unless a delete failed, the user had signed in to an
\* account that does not own the device, a failed write had left the panel with the token of an
\* earlier account (the router deletes by id and needs neither), or the daemon was in a cycle
\* meanwhile.
LoggedOutIsClean ==
    /\ out.how # "none" /\ ~ cracked /\ (kind = "desktop" \/ ~ straggler)
       => ring = EmptyRing /\ rec = NoRecord
    /\ out.how = "cmdLogout" \/ (out.how = "logout" /\ ~ stranger /\ ~ cracked)
       => out.key \notin DOMAIN node

\* The user is asked for a password only when nothing else can help: no session is cached, or the
\* server does not accept the cached refresh token (022: silent renewal); or a request failed on
\* the way, which the client cannot tell from a rejection.
PromptJustified ==
    [][ screen \notin Prompts /\ screen' \in Prompts
        => \/ ring.acc = NoToken \/ ring.ref \notin live \/ cracked
           \/ ~ online \/ faults' # faults ]_vars

\* Log-out deletes "this device's own node" (panel.go, removeRemoteNode), never another device.
OwnNodeOnly ==
    [][ \A p \in {"fg", "bg"} : At(p, "delete") /\ Flow(p, {"logout"}) /\ node' # node /\ job'[p] # job[p]
        => job[p].key = rec.key ]_vars
=============================================================================
