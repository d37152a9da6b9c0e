------------------------------- MODULE Kernel -------------------------------
(***************************************************************************)
(* The two pieces of kernel state the relay derives from its database: the *)
(* WireGuard device's peers (internal/server/wg) and the nftables sets of  *)
(* each zone (internal/server/netfw).  One action per call; each call ends *)
(* in one ConfigureDevice or Flush, which the kernel applies atomically.   *)
(* An action's guard is what makes the kernel accept the call; calls that  *)
(* fail change nothing.                                                    *)
(***************************************************************************)
EXTENDS Ipam

VARIABLES
    peers,    \* public key -> AllowedIPs, a set of blocks (an address is a /32)
    nft       \* zone id -> [members : set of addresses, routes : set of blocks]

kvars == <<peers, nft>>

Host(ip) == [base |-> ip, len |-> AddrBits]

-----------------------------------------------------------------------------
(* WireGuard *)

\* Adds or updates the peer; an allowed prefix belongs to the peer it was last
\* given to (WireGuard's cryptokey routing table).
SetPeerRoutes(k, ip, routes) ==
    LET allowed == {Host(ip)} \cup routes IN
    /\ peers' = [x \in DOMAIN peers \cup {k} |->
                    IF x = k THEN allowed ELSE peers[x] \ allowed]
    /\ UNCHANGED nft

AddPeer(k, ip) == SetPeerRoutes(k, ip, {})

RemovePeer(k) ==
    /\ peers' = [x \in DOMAIN peers \ {k} |-> peers[x]]
    /\ UNCHANGED nft

ReplacePeers(all) == peers' = all /\ UNCHANGED nft

-----------------------------------------------------------------------------
(* nftables *)

AddZone(z) ==
    /\ nft' = [y \in DOMAIN nft \cup {z} |->
                  IF y = z THEN [members |-> {}, routes |-> {}] ELSE nft[y]]
    /\ UNCHANGED peers

\* The zone's set must exist; re-adding an element is accepted.
AddMember(z, ip) ==
    /\ z \in DOMAIN nft
    /\ nft' = [nft EXCEPT ![z].members = @ \cup {ip}]
    /\ UNCHANGED peers

\* Removing from a missing set or a missing element is an error the callers only
\* log.
RemoveMember(z, ip) ==
    /\ nft' = [y \in DOMAIN nft |->
                  IF y = z THEN [nft[y] EXCEPT !.members = @ \ {ip}] ELSE nft[y]]
    /\ UNCHANGED peers

\* An interval set refuses an interval that overlaps another one it holds.
RouteFits(z, b) ==
    z \in DOMAIN nft /\ \A r \in nft[z].routes : r = b \/ ~ Overlaps(r, b)

AddZoneRoute(z, b) ==
    /\ RouteFits(z, b)
    /\ nft' = [nft EXCEPT ![z].routes = @ \cup {b}]
    /\ UNCHANGED peers

RemoveZoneRoute(z, b) ==
    /\ nft' = [y \in DOMAIN nft |->
                  IF y = z THEN [nft[y] EXCEPT !.routes = @ \ {b}] ELSE nft[y]]
    /\ UNCHANGED peers

\* Rules first, then the two sets: once the rules are gone the sets match
\* nothing, so the zone counts as gone at once.
DeleteZoneSets(z) ==
    /\ nft' = [y \in DOMAIN nft \ {z} |-> nft[y]]
    /\ UNCHANGED peers

ClearTable == nft' = [z \in {} |-> 0] /\ UNCHANGED peers

BuildTable(all) == nft' = all /\ UNCHANGED peers
=============================================================================
