------------------------------ MODULE MCRelay -------------------------------
(***************************************************************************)
(* Instances of Relay.  Addresses have four bits: the VPN pool is 2 .. 3,  *)
(* the synthetic pool 4 .. 7, the announced subnets 8 .. 15.               *)
(***************************************************************************)
EXTENDS Relay

MCSynthPool  == [base |-> 4, len |-> 2]
MCRealBlocks == {[base |-> 8, len |-> 3], [base |-> 12, len |-> 3]}
MCOneBlock   == {[base |-> 8, len |-> 3]}

MCRowsSeq    == [user |-> 2, node |-> 2, zone |-> 2, ann |-> 2]
MCRowsGrow   == [user |-> 1, node |-> 3, zone |-> 1, ann |-> 0]
MCRowsConc   == [user |-> 2, node |-> 1, zone |-> 2, ann |-> 2]
MCRowsDrift  == [user |-> 2, node |-> 1, zone |-> 2, ann |-> 3]

\* Keys and zone names are opaque: only equality is ever asked of them.
MCSymmetry   == Permutations(Keys) \cup Permutations(ZoneNames)
MCProcsAlike == Permutations(Procs)

(***************************************************************************)
(* A relay at rest that has served some requests: the administrator owns   *)
(* node 1 and zone 1, user 2 owns zone 2; the node is in both zones and    *)
(* announces a subnet into the first.                                      *)
(***************************************************************************)
InitInUse ==
    /\ user = <<[admin |-> TRUE], [admin |-> FALSE]>>
    /\ node = <<[user |-> 1, name |-> "n", key |-> "k1", ip |-> 2, platform |-> "openwrt"]>>
    /\ zone = <<[name |-> "z1", owner |-> 1, hash |-> "h"], [name |-> "z2", owner |-> 2, hash |-> "h"]>>
    /\ member = {<<1, 1>>, <<2, 1>>}
    /\ ann = <<[node |-> 1, real |-> [base |-> 8, len |-> 3], synth |-> [base |-> 4, len |-> 3]]>>
    /\ att = {<<1, 1>>}
    /\ lastId = [user |-> 2, node |-> 1, zone |-> 2, ann |-> 1]
    /\ peers = PeersFromDb /\ nft = ZonesFromDb
    /\ job = [p \in Procs |-> Idle] /\ phase = "serving" /\ faults = 0 /\ crashes = 0

SpecInUse == InitInUse /\ [][NextRelay]_rvars /\ FairRelay
=============================================================================
