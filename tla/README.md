# A TLA+ verification project for lanweave

lanweave is a self-hosted mesh VPN.  A relay (`cmd/lanweaved`, `internal/server`)
keeps users, nodes, zones and announced subnets in SQLite and derives from them the
peers of a WireGuard device and an nftables table that isolates zones from each
other.  A desktop client (`internal/client`) and a router client
(`cmd/lanweave-routerd`, `internal/router`) register nodes, join zones and route
announced subnets through the tunnel.

The design rests on one sentence of the repository's README: the database is the
single source of truth, and the WireGuard peers and the firewall rules are derived
from it.  Nothing makes a database change and the kernel change that follows it one
step: each handler does the first, then the second, and undoes or ignores what
fails, while other requests run.  Whether that adds up to a kernel that agrees with
the database is what this project is about.

## Inventory

| Component | State | Operations | What makes it correct |
|---|---|---|---|
| Allocation (`server/ipam`, `lowestFree`, `AllocateBlock`) | none (pure) | pool range, lowest free address, first-fit aligned block | least free address; aligned, inside the pool, disjoint; refuses only when full |
| Relay database (`server/store`) | six tables, `sqlite_sequence`, plus invites and refresh tokens | one transaction per repository method; SQL cascades | foreign keys, unique addresses and keys, disjoint blocks, caps, an administrator, no orphaned block |
| WireGuard device (`server/wg`) | public key → AllowedIPs | AddPeer, SetPeerRoutes, RemovePeer, replace all at startup | equals what the database records |
| nftables table (`server/netfw`) | per zone: member addresses, routes | AddZone, DeleteZone, Add/RemoveMember, Add/RemoveZoneRoute, Rebuild | equals what the database records |
| Handlers (`server/api`) | the locals of each request in flight | node, zone, announcement and user requests | compensate a failing call; do not undo each other; end |
| Startup (`server/app`) | progress of the rebuild | adopt interface, restore peers, clear and rebuild table | the kernel is what the database says before serving |
| Accounts (`server/auth`, invites, refresh tokens) | users, invites, refresh tokens, access tokens in circulation | login, refresh, logout, register, invite, delete, bootstrap | an invite admits one account; an idle, revoked or deleted user's session is over; no identity is inherited |
| Status tracker (`server/status`) | last snapshot | poll, query | readers see one whole snapshot |
| Router client (`router/engine`, `daemon`, `reconcile`, `natctl`, `routerd`) | tunnel, memory of applied routes, NAT table, files | Up, Down, SetRoutes, rebuild, announce add/remove, zone, down, logout | no route is forgotten; tunnel, routes and NAT table converge to what the server says |
| Desktop tunnel and panel (`client/tunnel`, `client/panel`, `client/ui/panel.go`, `client/firewall`) | engine, intent, route memory, adapter, firewall rule, loops | Connect, Disconnect, health loop, route loop, firewall switch, log out | connected means live; a wanted tunnel heals; the user's word is last; keys are not wiped before the device is gone |
| Client session (`client/apiclient`, `onboard`, `state`, `keyring`, the wizard and panel, `routerd`'s commands) | device key, tokens and setup record on disk; tokens in memory; what the window shows | provision, sign in, restore, silent refresh, poll or cycle, log out, force | the key is the registered device's; nothing is left behind without a word; a password is asked for only when needed |
| Subnet checks (`netutil`) | none (pure) | canonical prefixes, local overlap | agree with set arithmetic |

Interactions.  A handler calls repositories (each its own SQLite transaction) and
the two kernel controllers; nothing locks across those calls, and `net/http` runs
requests concurrently.  The controllers' own mutexes make single kernel calls
atomic, nothing more.  At startup the relay reads the database and rebuilds both
kernel states before it listens.  Clients reach the relay by HTTP only, and poll.
On the router a daemon runs the tunnel in one goroutine and the reconciliation in
another, and every command is a further process that shares the files, the interface
and the NAT table with it.  On the desktop each press of Connect, the health loop
and the route loop are goroutines that share one tunnel with the UI thread.

The hard behaviours, each a `hazards` entry of `PROJECT.json` with its line: a list
read from the database and written to the kernel after another request changed it;
two transactions of one handler with a request of somebody else, or a restart,
between them; compensation that fails or undoes somebody else's work; address reuse
after deletion; a read outside the inserting statement; cascades that must reclaim
blocks; the arithmetic of the allocators at the ends of a pool; tokens that outlive
what they were issued for; a memory of applied routes that outlives the interface; an
intent read before a teardown and used after it; answers lost in the middle of a
registration or a log-out; one session used by two goroutines or processes; a set-up
that stops between two of its writes; a device recognised by a name or an address the
server hands out again.

## Modules

| Module | Models | Composition |
|---|---|---|
| `Ipam` | `ipam.PoolRange`, `Overlaps`, `AllocateBlock`, `store.lowestFree` | operators only |
| `Store` | `internal/server/store` with the schema's constraints and cascades | extends `Ipam` |
| `Kernel` | `internal/server/wg`, `internal/server/netfw` | extends `Ipam` |
| `Relay` | `internal/server/api` (writing handlers), `internal/server/app` | extends `Store` and `Kernel`; instantiates `Mirror` |
| `Mirror` | what a state derived from another one promises | abstract; `Relay` gives its variables by a refinement mapping |
| `Accounts` | `internal/server/auth`, refresh tokens, invites, the account handlers | on its own: its tables are other tables |
| `Router` | `internal/router`, `cmd/lanweave-routerd`, `client/routesync` | on its own, over what the server answers |
| `Desktop` | `client/tunnel`, `client/panel`, the connection part of `client/ui/panel.go` | on its own, over what the server answers |
| `Session` | `client/apiclient`, `onboard`, `state`, the wizard, the panel's session and log-out, `cmd/lanweave-routerd`'s commands | on its own, over what the server answers |
| `IpamProofs`, `MCIpamProofs`, `StoreProofs`, `RelayProofs`, `AccountsProofs`, `RouterProofs`, `DesktopProofs`, `SessionProofs` | theorems | extend the module they are about |
| `MCIpam`, `MCStore`, `MCRelay`, `MCAccounts`, `MCRouter`, `MCDesktop`, `MCSession` | instances for TLC | extend the module they instantiate |

`Store` is also the abstract specification of the relay: `SpecStore` says that the
database starts with one administrator and changes by whole transactions.  `Relay`
implements it with the identity as refinement mapping, since it uses the same
tables.

`Mirror` is the abstract specification of the other half, the derived state.  It has
a set of facts that are wanted and a set of facts that are shown.  The wanted facts
change freely; the shown ones only move towards them: a step may show a wanted fact
or drop an unwanted one, never the reverse; while the owner is down anything goes,
and it serves again only when both agree.  `Relay`'s mapping (`Facts`) takes for
`want` the peers, AllowedIPs, zones, members and routes the database implies and for
`have` those in the kernel.  `MirrorsDatabase` is that `Relay` implements it.  It
holds while requests do not overlap, whatever call fails: a handler never shows the
kernel something the database has not committed, nor takes away what it still
records.  With two requests it is false (findings 1 and 5, and a failed registration
that is undone under another request's automatic join).

**Ipam.**  An address has `AddrBits` bits (32 in the code); a block is a base and a
prefix length.  `LowestFree` keeps the shape of the SQL: candidates are the first
address and the successors of taken ones, and the least free candidate is the
answer.  `AllocateBlock` is the first naturally aligned slot that overlaps nothing.

**Store.**  A table is a function from live ids to rows; membership and attachment
are sets of pairs.  An action is a transaction with its cascades: `DeleteUser` is
`DeleteCascade` with the reclaiming of orphans, `DeleteZone` is `ZoneRepo.Delete`,
which reclaims nothing.  SQLite is opened with `_txlock=immediate` and foreign keys
on, which is why a transaction, and a statement outside one, is one step.  The read
of the free address precedes the insert in another step, so `InsertNode` takes any
address of the pool; which one a request saw is `Relay`'s matter.

**Kernel.**  `peers` maps a key to its AllowedIPs; giving a prefix to one peer takes
it from the others, as the kernel's cryptokey routing does.  `nft` maps a zone to
its two sets.  Adding to a set that does not exist fails, and so does adding an
interval that overlaps one already in the set; the guards say so.  Removing from a
missing set fails too, but its callers only log that, so it is a step that changes
nothing.

**Relay.**  A request is a process.  `job[p].pc` names the call it makes next and
the other fields are the locals it still needs.  Each database call and each kernel
call is one step, with three kinds of outcome: it succeeds, it is refused for a
reason in the state, or it fails (`Fault`: a cancelled request context, a disk or
netlink error).  The best-effort tail of a handler is a list of calls (`todo`), each
made in order, its error logged and dropped.  A request refused by a check before
its first write changes nothing and is not a step; checks of rows whose fields never
change are merged into the handler's first step.  `Crash` keeps the database and the
kernel and drops the requests in flight; `Boot` is `app.Run` up to listening:
the interface is configured (which empties the peer list), the peers are restored,
the old table is deleted, the new one is built.

**Accounts.**  The tables `users`, `invites` and `refresh_tokens`, the access tokens
in circulation (a JWT needs no table, so it lives until it expires), and a clock that
ticks up to a bound.  A request is a process; each statement or transaction is a step
that reads the clock when the code does, so two refreshes of one token may slide its
expiry in either order.  `refresh` is four steps: the two statements of `Validate`, the
lookup of the account, and the signing, which reads its own clock (`RefreshMint`); the
account may be deleted before each.  Only the check of a password and a login's signing
are the step of the read that precedes them: a login's token leaves the server only if
the `INSERT` of its session succeeds, which the foreign key refuses for an account that
is gone.  `gone` remembers of a deleted account when it went and which refreshes had
already found it.  `Restart` is the bootstrap of the administrator.

**Router.**  `d` is the daemon's loop (`Daemon.Run`), `job["reconcile"]` the
reconciliation it starts, and `job["cli"]` a command in a process of its own.
`kern` is the interface with its routes and AllowedIPs, `eng` the engine's memory of
them, `nat` the translation table.  The engine's two mutexes are what the code's are:
`SetRoutes` holds the routes' one over several netlink calls, `Down` takes it only to
forget.  A call fails by `Fault`, the answer to a changing request may be lost after
the server acted, and a crash ends the daemon and leaves the kernel.  `scarred` is a
history flag: a netlink call on this interface failed halfway, which the code does
not repair.  `eng.fooled` is another: the memory describes an interface that is gone,
because `SetRoutes` was at work while it was deleted, or the `down` command deleted
it from another process.

**Desktop.**  A goroutine's `pc` names the critical section of `Tunnel.mu`, the
engine call, the firewall call or the API call it makes next.  `teardown` is three
steps, as in the code: it forgets the routes, takes the engine, closes it.  The UI
thread is one process because its handlers run to the end before the next event;
a log-out blocks the window with its progress dialog.  Engines are numbers and are
used again once nobody holds them, which keeps the model finite and identities
distinct where the code compares them.  `wish` is a history variable: the last thing
the user asked for.  `Leaked` is an adapter that neither the tunnel nor an attempt
knows of.  The three reads at the head of `healthTick` are one step; the reads that
follow are steps of their own.  `session` says whose list the panel sees: nobody's, that
of the device's account, or another account's, since the sign-in takes any; in the last
case a log-out does not find the device and counts it as removed (`outcome` is
"elsewhere").  `node` is the device at the server: no handshake succeeds without it,
and the health loop does not notice but tries for ever.  The firewall rule `fw` and the
stored preference `pref` are here for the calls the handlers make and their failures;
no property beyond the type invariant is about them, because the one the code's comment
states is broken (finding 11).  Leaving the program is not modelled: it ends everything
this module describes.

**Session.**  One machine, a desktop or a router, with what it keeps (`ring`, the
secure store; `rec`, the setup record), what its processes hold in memory (`client`)
and what the server has of it.  Two processes: the wizard, panel or router command,
and the panel's poll or the daemon's cycle.  On the desktop both use one `Client`,
whose fields no lock protects; on the router each has its own and the secure store is
what they share.  A call of the server, a write of the secure store and a write of
the state file is a step each; `do`'s retry is a step that is rejected, a refresh with
the token read at that moment, and the repeated call.  What the code around a call
does with its error is `Fails`, one disjunct per flow.  A refresh token is the number
of its login; an access token also has the epoch it was issued in, and `Expire` ends
an epoch.  A node is named by its key, since every attempt to register has a new one;
its address is the lowest free one, so addresses and names come back after a deletion.
The history variables say what the properties must know: how often the user was told,
or agreed, that a device may stay behind (`told`), how often one may and nothing is said
(`unsaid`: the machine stops in a registration that is at the server, or the panel is
signed in to an account that does not own the device), whether a local write or delete failed
(`cracked`), whether the panel was signed in to an account that does not own the
device (`stranger`), whether the daemon was in a cycle while a log-out deleted the
tokens (`straggler`).  Left out: the server's address and the pinned certificate,
which are set before anything here begins, and the wording of errors.

Abstractions: passwords and their hashes are opaque values; names, keys and
platforms are members of small sets; times are left out, since no modelled row
expires; the read-only handlers change nothing and are left out; link, MTU, address
and forwarding set-up happen once at startup.  `DeleteZoneSets` is one step where
the code flushes rules and then sets: once its rules are gone a zone's sets match
nothing.

`A slip: ...` comments mark definitions that are deliberately wrong variants.  No
specification uses them; each is what one property must reject (`mutants` in
`PROJECT.json`).

## Runs

`tlc -workers 2 -config <cfg> <module>`; every run ends within a few minutes on two
cores.

| Run | Configuration | States | What it shows |
|---|---|---|---|
| `ipam` | `MCIpam.cfg` | 21,664 | Allocation and release in any order over an eight-address pool: in every fragmentation the allocators return what a declarative definition says, so that blocks share no address, and for every pool in the four-bit space only usable client addresses are given out. |
| `store` | `MCStore.cfg` | 205,266 | Any order of transactions keeps foreign keys, unique addresses and keys, disjoint blocks, caps and an administrator; only `ZoneRepo.Delete` orphans an announcement. |
| `relay_seq` | `MCRelaySeq.cfg` | 1,266,639 | All twelve handlers, one request at a time, any one database or kernel call failing: without a failure kernel and database agree (`DriftFree`); with one nothing recorded is missing from the kernel (`NothingMissing`); no block leaks; the handlers implement `SpecStore`, and the kernel follows as `Mirror` says. |
| `relay_grow` | `MCRelayGrow.cfg` | 106,687 | Concurrent registrations, zone creations and joins, with a failing kernel call and a restart anywhere: nothing recorded is missing at rest, and every request is answered (`HandlersFinish`). |
| `relay_conc` | `MCRelayConc.cfg` | 444,957 | Two concurrent requests of seven handlers that add and remove, from a relay in use, and a restart anywhere: an attachment never outlives its membership without a request about to remove it, and a restart restores the kernel. |
| `accounts` | `MCAccounts.cfg` | 4,120,454 | Two concurrent requests of the account handlers, deletions, restarts and a clock: an invite admits one account, ever; idle, revoked and deleted sessions are over; a deleted account gets a new access token only from a refresh that had already found it; no token of a live account carries somebody else's name or rights. |
| `router` | `MCRouter.cfg` | 321,571 | Daemon, reconciliation and one command at a time, one failing call, lost answer or crash: every route of the interface is in the engine's memory, withdrawn routes go and announced ones come, and tunnel and translation table converge. |
| `desktop` | `MCDesktop.cfg` | 979,346 | A connect or any other press, both loops and a log-out, with an event of the surroundings and a failing call: connected means a live adapter, no route is forgotten, a wanted tunnel heals itself while the server has the device, and keys are never wiped silently while the device is registered, unless the user had signed in to an account that does not own it. |
| `session` | `MCSession.cfg` | 1,943,824 | A desktop and a router, each set up, used and logged out in any order, with lost answers, failing writes, a power cut, expired and revoked sessions, outages and other devices of the account: the key is the registered device's, no more devices are left behind than were announced or than `unsaid` counts, a successful log-out leaves nothing, and a password is asked for only when the session cannot be renewed. |
| `relay_drift` | `MCRelayDrift.cfg` | violated | `DriftFree` with two concurrent announcements (finding 1). |
| `desktop_user_wins` | `MCDesktopWins.cfg` | violated | `UserWins` with a disconnect inside `healthTick` (finding 10). |
| `session_own` | `MCSessionOwn.cfg` | violated | `OwnNodeOnly`: log-out after the device was deleted elsewhere and its name or address given to another (finding 16). |

Where the properties stop, because the code does.  `DriftFree` is checked and proved without
overlap: with two requests it is false (findings 1 and 5; also a registration
against a deletion of the same node).  `NothingMissing` allows what is left over in
the kernel after a failed best-effort removal, which the next restart clears; with
overlap it is checked for kernel failures, since a database failure in a
compensation can leave a row without its kernel entry.  `OnlyMembersAnnounce` is
stated for a relay that has not been restarted (finding 3), and checked and proved
without failing calls (a re-join whose `AddMember` fails removes a membership it did
not create) and without `createZone` (finding 23).  `MirrorsDatabase` is checked and proved
without overlap; with a restart added it holds too (3,688,136 states, not kept because of its
length).  `NoLeakedBlock` is checked and proved without overlap (finding 2).
`RoutesAccounted` and `NoForgottenRoute` leave out an interface on which a call
failed halfway (`scarred`).  `TunnelConverges` leaves out an interface that the
`down` command removed under a running daemon (`Severed`): that is not stale, and the
daemon does not rebuild it.  `RoutesConverge` leaves out an engine whose memory was
fooled (finding 6).  `DeletedAccountDies` leaves out the refreshes that had found the
account before it was deleted: they may still sign for it, at any later time (finding 24);
without that exception TLC finds the property violated.  `SelfHeals` leaves out a leaked
adapter (finding 13), which blocks every later attempt, and a device the server no longer
has, without whose peer every attempt times out.  `NoSilentOrphan` leaves out a log-out of
a panel that was signed in to an account that does not own the device, which wipes the
keys and says nothing (finding 19).  `NoSilentLeftover` does not claim a message in the
two cases in which the code gives none; it counts them (`unsaid`), one device each: that
log-out, and a machine that stops in a registration (finding 25).  `IdentityIntact` leaves out a desktop on which a
local write failed (finding 18); `LoggedOutIsClean` a panel signed in to a strange
account (findings 19 and 21), a daemon that was in a cycle (finding 8), and a panel
that a failed write left with an earlier account's token;
`PromptJustified` a request that failed on the way (finding 22).

### Bounds and why they are enough

* Addresses have four bits.  The allocators look at order, alignment and overlap
  only, and every pattern of gaps and of mixed block sizes in an eight-address pool
  is reached.  What has to hold at any width is proved.
* `MaxRows` bounds the rows ever inserted, requests in flight included.  Two nodes
  compete for an address, two zones are needed for an announcement to survive
  losing one, two announcements compete for the synthetic pool, two users for
  ownership and for the administrator check.  `relay_grow` has three nodes and two
  addresses, so the pool is exhausted and addresses and keys come back.
* Two concurrent requests: every interference described in the code's comments is
  between two.  Finding 23 needs three: it turned up when a proof that has no such
  bound failed.
* `MaxFaults = 1`: a compensation is checked for each call whose failure starts it.
  `MaxCrashes = 1`: the rebuild depends on the database alone.
* `MaxAllocRetries = 2` where the code has a larger constant: one retry that
  succeeds and one that gives up.
* The caps are 1 in `store` and off in the `relay` runs, where they would only stop
  requests early.
* `accounts` has lifetimes of one and two ticks, so that a token expires before, at
  and after each boundary within the clock's bound.
* `router` has one zone, one block of its own and one of others, two events of the
  surroundings and one fault, crash or lost answer, which is what each retry and
  compensation is for.
* `desktop` has one press of Connect in flight, which with the health loop makes two
  attempts that meet; two presses (connect, then disconnect, switch or log out), one
  event of the surroundings and one failing call.
* `session` has two accounts, one device name, three sign-ins and two registrations on
  the desktop with a fault and two events of the surroundings, two sign-ins on the
  router with one of either; that is a set-up that fails, one that succeeds, an
  expiry during a poll and a log-out with a retry.  The router alone with a fault and
  an event together has 6,334,023 states and passes too.
* `relay_conc` and the violation of `Relay` start from `InitInUse`, a state that
  handlers of `Relay` reach; this spends the bound on interleavings instead of on
  the set-up.
* Symmetry permutes keys, zone names (compared for equality only) and, in
  `relay_conc`, processes; the run with a liveness property uses none; in `session` it permutes the accounts.
* Deadlock is not checked where rows are bounded: a full small database with
  nobody requesting anything is allowed to stop.  So is a machine in `session` whose
  user has used up the sign-ins the bound allows.

### Fairness

`FairRelay` is weak fairness of each request's steps and of `Boot`: the Go scheduler
runs every goroutine that can run, and each database and kernel call returns (SQLite
has a busy timeout, netlink answers).  No fairness is assumed of arriving requests,
of failures or of restarts.

`Router`: weak fairness of the daemon's steps, the reconciliation and a running
command, for the same reason, and strong fairness of `Down`'s critical section, since
Go's mutexes do not starve a waiter.  `Desktop`: weak fairness of each goroutine and
of the UI thread once it has begun a handler; the route loop needs none.  Nothing is
assumed of the user, of the server's state, of failures or of crashes.

## Proofs

`tlapm <module>` checks each proof module; the theorems hold for every value of the
constants that satisfies the assumptions of the module they are about:
`AddrBitsAssumption`, `StoreAssumption` and `RelayAssumption` (bounds are naturals,
pools and subnets are blocks, at least one user and one request fit), `PoolsApart` (no
address of the VPN pool lies in the announce pool: `config.Validate` refuses an
`announce.pool` that overlaps `wireguard.network`, `config.go:332-345`),
`PoolAssumption` of `MCIpam` (a pool is parsed from a CIDR and masked, so it is aligned
to its size), `AccountsAssumption` (lifetimes
and bounds are naturals), `RouterAssumption` (bounds are naturals, one's own blocks
are not others'), `DesktopAssumption` (bounds are naturals, the goroutines of presses
are finitely many), `SessionAssumption` (bounds are naturals, a machine is a
desktop or a router).

* `IpamProofs`: `LowestFreeCorrect`, that the few candidates of the SQL suffice.
  If an address of the range is free, the least free one is either the first of the
  range or follows a taken one, so it is a candidate.  `AllocatedIsFree`, that an
  allocated block is well formed and overlaps no used one, is the lemma the
  disjointness proofs use.
* `MCIpamProofs`: both allocators against what they are meant to compute, for every
  pool, every width and every history of allocations and releases.
  `PoolRangeExactAlways`: registration gives out the least address of the pool that is
  free and is neither the network, the server nor the broadcast address, and none only
  when all are taken, although `PoolRange` computes modulo the address width.  `FirstFitAlignedAlways`:
  `AllocateBlock` returns the least aligned block of the pool that is free, and nothing
  only when there is none.  Both rest on the arithmetic of powers of two, which cannot
  be had by induction here: a set of m + n elements has as many subsets as there are
  pairs of subsets of its two parts, so `2^(m + n) = 2^m * 2^n` (`PowerSum`) follows
  from the library's facts about cardinality, and alignment from that.
* `StoreProofs`: the inductive invariant `IInv` is `StoreTypeOK`,
  `ReferentialIntegrity`, `AnnouncementsDisjoint` (as its two parts) and
  `NodesDistinct` together.  Separately they are not inductive: an inserted row must have a fresh
  id, which is the type invariant's bound by `lastId`; a cascade is described by
  following references, so it needs them to be live; disjointness of a new block
  needs the used ones to be blocks.  One lemma per transaction shows that it keeps
  `IInv`.  From it follow `StoreTypeCorrect`, `StoreIntegrity`,
  `PoolNeverDoubleAllocated`, `AddressesUnique`, `AdminRemains`,
  `OrphansOnlyFromZones` and, with cardinalities of rows per user, `CapsHold`.
* `RelayProofs`: `RelayImplementsStore` (`SpecRelay => SpecStore`), for any number
  of concurrent requests, failures and restarts.  The invariant `JobInv` says that
  a request in flight carries well-typed locals, above all that an address chosen
  by `lowestFree` is in the pool until it is inserted; then each step is a
  transaction or a stutter.  `RelayKeepsDatabase` transfers the store's invariants
  to the relay.  `RestartAlwaysHeals` uses the invariant `Starting`: until the
  relay serves, no request is in flight, and from the restoring of the peers on
  they are the database's.

  `RelayTypeCorrect` needs `TypeInv`, which says for each call a request may make next
  what it carries: rows that were inserted at some time, addresses of the pool,
  blocks, and a list of well-typed calls.  It is stated relative to the ids handed
  out, which only grow (`StoreGrows`), so that a step of one request keeps it for the
  others (`RequestGrows`).

  `NoBlockLeaks` is for one request at a time, since with overlap it is false (finding
  2), but for any failing calls and restarts.  Its invariant adds `DeletesEmptied`: a
  request that may still delete a zone has found, or made, that zone without
  attachments.

  `MembersAnnounce` is for any number of concurrent requests, from any state of rest
  (`AtRest`; `InitInUse` is one) rather than from an empty database, since the theorem
  excludes `createZone`.  Its invariant `Members`: a live zone has its sets;
  a request is `Careful`, that is, it deletes the sets only of zones that are gone
  and undoes a join only when the zone is gone, which is why an undone join never
  removes a membership; and each attachment is a member's or on some request's list
  of things to detach.  One lemma (`TxKeepsMembers`) covers all transactions but
  `Leave`, and one (`TailMoves`) the lists.  Without the two hypotheses it is false.

  `NeverDrifts`, `NothingIsLost` and `RelayIsMirror` are the three promises of the
  derived state, for one request at a time (`OneAtATime`; with two they are false,
  findings 1 and 5), any rows, any number of restarts.  `NeverDrifts` is about
  executions without a failing call, as `DriftFree` is.  The other two assume
  `SingleFault`: one call fails at most, or any number of kernel calls and no database
  call.  A failure starts a compensation, and should the compensation's own
  transaction fail as well (a cancelled request fails an announcement's calls and then
  its rollback, `announce_handlers.go:174`), the database keeps a row the kernel does
  not have; the code does not cover that until the next restart.

  The invariant is `MirrorInv`.  Agreement between requests is not inductive, so it
  says how the two may differ inside one (`Tracks`): what the database records is in
  the kernel or is what this request will bring next (`Late`), and, unless a call
  failed, what the kernel shows is recorded or is what this request has yet to clear
  away (`Left`).  Both are defined from the request's next call and its locals; for the
  best-effort tail, `Left` is what the calls on the list clear (`Clears`).  Three things
  make it inductive.  `Accurate`: what the only request read is still so, the routes
  in its hands are the node's, and none of the calls on its list takes away what the
  database records (`Safe`).  `Keyed`: a key, an address or a block belongs to one
  row, and no block is an address, so that removing one row's facts removes nobody
  else's; this is where `PoolsApart` and the store's `IInv` are needed.
  `KernelShape`: equal facts mean equal kernel states.  The proof computes what each
  kind of transaction adds to or takes from the wanted facts (`Addition`, `Removal`
  and their instances, `Rows` being the facts each row asks for), what each kernel call
  does to the shown ones (`SetPeerEffect` and its like), and then goes through the
  handlers, one lemma per group of steps, each of which also yields the step of
  `Mirror` (`Follows`).

* `AccountsProofs`: the inductive invariant `AInv` is the type invariant,
  `InviteLog` (an invite that is not marked used has admitted nobody), `TokensOK` (an
  access token carries its account's name and rights and, if the account is gone,
  expires within a lifetime of that unless a refresh had already found it), `OvertakenOK`
(only such a refresh is still about to sign for an account that is gone), `SessionsOK` (a session has a live account and
  expires within a lifetime of its last use) and `RequestsOK` (what a request in
  flight has read).  The last part is why the others are
  inductive: ids are never reused, so what a request read about an account stays
  true or the account is gone.  From it follow `AccountsTypeCorrect`,
  `InvitesAdmitOne`, `IdleSessionsDie`, `DeletedAccountsDie`,
  `IdentitiesNotInherited` and `RevocationsPermanent`, for any number of requests.

* `RouterProofs`: the inductive invariant is the type invariant (what the server
  answers, the host, the interface, the engine, the daemon and the two jobs) with four
  parts about routes: an interface that is not configured yet has none (`NewIsBare`);
  nor has one that replaced another behind a `SetRoutes` that is still at work
  (`ReplacedIsBare`); a cycle that has added its routes keeps those it still wants
  (`CycleKeeps`); and `Accounted`, which says for each point between `SetRoutes`'
  netlink calls where a route of the interface must be known: in the memory, or in
  what the cycle has routed.  From it follow `RouterTypeCorrect` and
  `RoutesAlwaysAccounted`.
* `DesktopProofs`: the invariant is the type invariant, `ConnectedIsLive`,
  `NoForgottenRoute` and what ties engines to goroutines: an attempt that is still the
  tunnel's own has the adapter (`AttemptOwns`), a teardown closes an engine that is no
  longer the tunnel's (`CloseTaken`), an adapter has no routes before the tunnel is
  connected (`FreshIsBare`), and nothing is wiped before the log-out was decided
  (`LogoutDecided`).  Engines are numbers that are used again, so a pigeonhole lemma
  (`FreshEngine`) shows that a free one exists.  `OrphansNeverSilent` has the exception of
its property: a log-out while signed in to an account that does not own the device.  From it follow `DesktopTypeCorrect`,
  `ConnectedAlwaysLive`, `RoutesNeverForgotten` and `OrphansNeverSilent`, for any
  number of presses, events, faults and overlapping attempts.
* `SessionProofs`: seven parts that need each other.  `TypeInv`; `ScreenOK` (which flow
  runs behind which window); `IdentityInv` (the record and the registration under way
  have the name and address the server knows, and the secure store the recorded
  device's key); `CreditInv` (the devices left behind are at most as many as the times
  the user was told or, as `unsaid` counts, was not, counting the recorded one as soon as a
flow may drop it);
  `OneUser` (on a desktop that was never signed in elsewhere every token is one of the
  device's owner); `ClientInv` (the panel's refresh token is the cached one);
  `LogoutInv` (what a log-out has deleted so far is gone and stays gone).  From them
  follow `SessionTypeCorrect`, `IdentityKept`, `NothingLeftSilently`, `LogOutClean` and
  the action property `PromptsJustified`.  Working on `LogOutClean` showed that the
  property was too strong as first stated: two failing writes can leave the token of
  an earlier account in the secure store, so that the log-out asks about the wrong
  account; it now leaves that out, as it does a panel signed in to a strange account.

Only model-checked: `HandlersFinish`, `NatConverges`, `RoutesConverge`,
`TunnelConverges` and `SelfHeals`, since liveness is out of the prover's reach.  Every
invariant, action property and refinement the runs check is stated by a theorem; four of
the relay's (`NoBlockLeaks` and the three just named) for one request at a time and
`MembersAnnounce` without `createZone`.  What overlapping requests do to the derived
state is left to the runs: `relay_drift` shows that `DriftFree` fails, `relay_grow`
checks `NothingMissing` for handlers that only add.

## Findings

1. **Two announcements of one node at once** (`announce_handlers.go:118`).  Each
   request reads the node's routes and writes them to the peer; if the writes swap,
   the older list stays and one block is not routed although both requests
   succeeded.  The comments say the derived state can never drift.
2. **An announcement while its zone is deleted** (`zone_handlers.go:397`).  It falls
   between the detach and the delete, loses its attachment to the cascade and keeps
   its synthetic block, which the detach is there to prevent.  `MCRelayDrift.cfg` with
   `Ops = {"createAnnouncement", "deleteZone"}` and `NoLeakedBlock` shows it.
3. **A restart while a node leaves** (`zone_handlers.go:421`).  Between removing the
   membership and detaching, a restart leaves the attachment, and the startup rebuild,
   said to reconcile any gap, restores the route.
4. **A restart drops live peers** (`wg/iface.go:64`).  The interface is adopted "so a
   routine restart does not drop live client tunnels", but configured with an empty
   peer list first.
5. **A join while its node is deleted** (`node_handlers.go:184`).  The node's address
   can be added to the zone after the deletion cleared it, and the next node to get
   that address inherits it.  `MCRelayDrift.cfg` with
   `Ops = {"deleteNode", "joinZone"}` shows it as a violation of `DriftFree`.

6. **Routes recorded for a dying interface** (`engine.go:144`).  `Down` forgets the
   routes, and a `SetRoutes` of the reconciliation records them again before the
   interface is deleted; the rebuilt tunnel never gets them, until the list changes.  The `down` command of
   another process, and an interface a crashed daemon left, have the same effect.
7. **A failing lookup is not frozen** (`routesync.go:115`).  `MemberZones` skips the
   zone and reports no error, so the rebuild drops that zone's rules.
8. **Log-out against a reconcile cycle** (`routerd/main.go:482`).  The cycle writes
   the tokens back and rebuilds the table after both were removed.
9. **Compensating an old announcement** (`announce.go:100`).  A failed rebuild
   withdraws also an announcement that existed before.
10. **The user does not always win** (`ui/panel.go:711`).  `healthTick` reads the
    intent, tears down, closes the rule and connects; a disconnect in between is
    overridden, and nothing takes the tunnel down again.
11. **The firewall rule outlives the tunnel** (`ui/panel.go:713`).  The rule is opened
    after a check that a disconnect can overtake.
12. **An old attempt's deadline** (`tunnel.go:222`) tears down a newer attempt.
13. **A leaked adapter** (`tunnel.go:246`).  A disconnect while `engine.up` is at work
    finds nothing to close; the adapter then stays and blocks later attempts.
14. **Routes recorded for a dying adapter** (`tunnel.go:236`), as finding 6.
15. **No route loop after a sign-in** (`ui/panel.go:723`).
16. **Log-out can delete another device** (`panel/panel.go:478`).  The desktop looks
    its device up by name or address; after a deletion elsewhere both may belong to
    another device of the account.  The record has had the id since 031.
17. **A retried set-up is not idempotent** (`onboard.go:112`).  Every attempt has a new
    key, so the recovery from `pubkey_taken` is never reached: the retry is refused
    for its name, or registers a second device.
18. **A half-configured desktop** (`onboard.go:149`).  When caching a token fails the
    record is already saved, and a retry that stops early leaves the key of one device
    with the record of another.  The router refuses to register over a record.
19. **Log-out as somebody else** (`panel/panel.go:384`).  Signed in to another account,
    the panel does not find its device, takes it for gone and wipes the key.
    `NoSilentOrphan` and `LoggedOutIsClean` except it.
20. **The router's log-out is not idempotent** (`routerd/main.go:688`).  After a lost
    answer the retries get 404 and fail, where the desktop takes it for success.
21. **Mixed tokens** (`apiclient/client.go:203`).  A poll's refresh that ends after a
    sign-in stores the old account's access token beside the new refresh token.
22. **Unreachable looks expired** (`apiclient/client.go:371`).  A refresh that fails
    for the network asks for a password.
23. **An undone join keeps its announcements** (`zone_handlers.go:168`).  A join into a
    zone whose sets `createZone` has not made yet fails and is undone; what the node
    announced into the zone meanwhile stays attached, and the zone routes the block of
    a node that is no member.  `MCRelayConc.cfg` with three processes, room for a third zone
    and `Ops = {"createZone", "joinZone", "createAnnouncement"}` shows it as a violation of
    `OnlyMembersAnnounce`.
24. **A token for a ghost account** (`auth_handlers.go:143`).  An account deleted between
    `GetByID` and `Issue` still gets an access token, for a whole lifetime from the
    signing, although the comment above the check promises the opposite.
25. **A machine that stops in mid-registration** (`onboard.go:207`).  The server has the
    device; the next launch finds no record and opens a plain wizard that says nothing of
    it, although the specification promises that nothing is left behind.

## Not modelled

Not modelled: configuration, logging, certificates, rate limiting (loaded once or
stateless); the user interface's layout, translations, elevation and the secure
store's back ends (wrappers over services of the operating system); the online
documentation and packaging.  The status tracker publishes whole snapshots through one
atomic pointer and nothing is decided from them.  `netutil` is arithmetic of
`net/netip` over prefixes; `Router` uses its verdict, and the arithmetic that the
system's own properties rest on is `Ipam`'s.

Not proved, and why: the liveness properties, as said; that a best-effort call which
fails leaves only what the next restart removes, which follows from
`RestartAlwaysHeals` but is no property of its own; and any bound on how far the kernel
drifts while requests overlap, since the code gives none.
