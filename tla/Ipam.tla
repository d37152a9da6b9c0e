-------------------------------- MODULE Ipam --------------------------------
(***************************************************************************)
(* The pure address arithmetic of the relay: the client address pool       *)
(* (internal/server/ipam/ipam.go and NodeRepo.lowestFree) and the pool of  *)
(* synthetic blocks that announced subnets are mapped to                   *)
(* (internal/server/ipam/blocks.go).                                       *)
(*                                                                         *)
(* An address is a natural number, a block is a CIDR as pool math sees it, *)
(* [base |-> address, len |-> prefix length].  The code works on 32-bit    *)
(* addresses; AddrBits is 32 there and small under TLC.                    *)
(***************************************************************************)
EXTENDS FiniteSetsExt

CONSTANT AddrBits

ASSUME AddrBitsAssumption == AddrBits \in Nat \ {0}

NoAddr == -1                             \* lowestFree's ok = false
\* ipam.Block: a CIDR as pool math sees it.
Block == [base : Nat, len : 0 .. AddrBits]

NoBlock == [base |-> -1, len |-> -1]     \* AllocateBlock's ErrNoSpace

\* Number of addresses a prefix of length len spans (Block.size).
Size(len) == 2^(AddrBits - len)

\* uint32 arithmetic: PoolRange computes base + 2 and broadcast - 1 in it.
Wrap(x) == x % 2^AddrBits

(***************************************************************************)
(* Plausible slips of the definitions below, used to test that the         *)
(* properties can tell the difference.                                     *)
(***************************************************************************)
OverlapsOneSided(a, b) ==
    a.base <= b.base /\ b.base < a.base + Size(a.len)

LowestFreeNeverFirst(taken, first, last) ==
    LET free == {c \in {ip + 1 : ip \in {x \in taken : first <= x /\ x < last}} :
                    c \notin taken /\ c <= last}
    IN  IF free = {} THEN NoAddr ELSE Min(free)

PoolRangeKeepsServer(pool) ==
    <<Wrap(pool.base + 1), Wrap(pool.base + Size(pool.len) - 2)>>

-----------------------------------------------------------------------------

\* Two half-open ranges [base, base + size) share an address.
Overlaps(a, b) ==
    a.base < b.base + Size(b.len) /\ b.base < a.base + Size(a.len)

\* [first, last] of the addresses handed to clients: network, server (.1) and
\* broadcast are reserved.  pool.base is masked, so base | hostmask is a sum.
PoolRange(pool) ==
    <<Wrap(pool.base + 2), Wrap(pool.base + Size(pool.len) - 2)>>

\* The SQL of lowestFree: the candidates are first and the successors of the
\* taken addresses in [first, last); the least free one up to last wins.
LowestFree(taken, first, last) ==
    LET free == {c \in {first} \cup {ip + 1 : ip \in {x \in taken : first <= x /\ x < last}} :
                    c \notin taken /\ c <= last}
    IN  IF free = {} THEN NoAddr ELSE Min(free)

\* A slip: the loop advances by one address instead of by the block's size.
FreeCandidatesUnaligned(pool, len, used) ==
    {b \in pool.base .. (pool.base + Size(pool.len) - Size(len)) :
        \A u \in used : ~ Overlaps([base |-> b, len |-> len], u)}

\* The bases AllocateBlock's loop visits, from the pool's base in steps of the
\* block's size while the block fits, whose block meets no used block.
FreeCandidates(pool, len, used) ==
    {b \in pool.base .. (pool.base + Size(pool.len) - Size(len)) :
        /\ (b - pool.base) % Size(len) = 0
        /\ \A u \in used : ~ Overlaps([base |-> b, len |-> len], u)}

\* The loop returns the first candidate that is free.
AllocateBlock(pool, len, used) ==
    LET free == FreeCandidates(pool, len, used)
    IN  IF len < pool.len \/ len > AddrBits \/ free = {}
        THEN NoBlock
        ELSE [base |-> Min(free), len |-> len]
=============================================================================
