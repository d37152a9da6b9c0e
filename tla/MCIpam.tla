------------------------------- MODULE MCIpam -------------------------------
(***************************************************************************)
(* Address and block allocation and release in any order over one pool, so *)
(* that every fragmentation of a small pool is reached, and the operators  *)
(* of Ipam compared there with what they are meant to compute.             *)
(***************************************************************************)
EXTENDS Ipam

CONSTANT Pool        \* the pool both allocators run over, a block

\* The pool is parsed from a CIDR and masked, so its base is aligned to its size.
ASSUME PoolAssumption == Pool \in Block /\ Pool.base % Size(Pool.len) = 0

VARIABLES taken,     \* the nodes.ip column
          used       \* the synthetic blocks in use

vars == <<taken, used>>

Addrs(b) == b.base .. (b.base + Size(b.len) - 1)

First == PoolRange(Pool)[1]
Last  == PoolRange(Pool)[2]

Init == taken = {} /\ used = {}

TakeAddr ==
    LET ip == LowestFree(taken, First, Last) IN
    /\ ip # NoAddr
    /\ taken' = taken \cup {ip}
    /\ UNCHANGED used

ReleaseAddr == \E ip \in taken : taken' = taken \ {ip} /\ UNCHANGED used

TakeBlock == \E len \in Pool.len .. AddrBits :
    LET b == AllocateBlock(Pool, len, used) IN
    /\ b # NoBlock
    /\ used' = used \cup {b}
    /\ UNCHANGED taken

ReleaseBlock == \E b \in used : used' = used \ {b} /\ UNCHANGED taken

Next == TakeAddr \/ ReleaseAddr \/ TakeBlock \/ ReleaseBlock

Spec == Init /\ [][Next]_vars

-----------------------------------------------------------------------------

(***************************************************************************)
(* Whatever pool of at least four addresses is configured over the rows    *)
(* already there, registration gives out the least address that is free    *)
(* and is neither the network, the server nor the broadcast address, and   *)
(* fails only when all of these are taken: lowestFree looks only at the    *)
(* first address and the successors of taken ones, and ipam.PoolRange      *)
(* computes its range in uint32.                                           *)
(***************************************************************************)
PoolRangeExact ==
    \A len \in 0 .. (AddrBits - 2) :
        \A base \in {x \in 0 .. (2^AddrBits - 1) : x % Size(len) = 0} :
            LET p      == [base |-> base, len |-> len]
                usable == Addrs(p) \ ({base, base + 1, base + Size(len) - 1} \cup taken)
            IN  LowestFree(taken, PoolRange(p)[1], PoolRange(p)[2]) =
                    IF usable = {} THEN NoAddr ELSE Min(usable)

(***************************************************************************)
(* AllocateBlock gives the least naturally aligned block of the pool whose *)
(* addresses are all free, and refuses only when there is none, however    *)
(* fragmented the pool (stated on address sets, not with ipam.Overlaps;    *)
(* so blocks handed out never share an address).                           *)
(***************************************************************************)
FirstFitAligned ==
    \A len \in Pool.len .. AddrBits :
        LET fits == {b \in Addrs(Pool) :
                        /\ b % Size(len) = 0
                        /\ Addrs([base |-> b, len |-> len]) \subseteq Addrs(Pool)
                        /\ \A u \in used : Addrs(u) \cap Addrs([base |-> b, len |-> len]) = {}}
        IN  AllocateBlock(Pool, len, used) =
                IF fits = {} THEN NoBlock ELSE [base |-> Min(fits), len |-> len]

MCPool == [base |-> 8, len |-> 1]
=============================================================================
