----------------------------- MODULE IpamProofs -----------------------------
(***************************************************************************)
(* What the allocators of Ipam guarantee, for every pool, every occupancy  *)
(* and every address width.                                                *)
(***************************************************************************)
EXTENDS Ipam, FiniteSetTheorems, WellFoundedInduction, TLAPS

(***************************************************************************)
(* A non-empty set of naturals has a least element, and Min is it (both    *)
(* allocators return the least of their candidates).                       *)
(***************************************************************************)
LEMMA MinOfNats ==
    ASSUME NEW S \in SUBSET Nat, S # {}
    PROVE  Min(S) \in S /\ \A y \in S : Min(S) <= y
<1> DEFINE Less == {p \in Nat \X Nat : p[1] < p[2]}
<1>0. IsWellFoundedOn(Less, Nat)
  BY NatLessThanWellFounded, Zenon DEF OpToRel
<1>1. PICK x \in S : \A y \in S : ~ (<<y, x>> \in Less)
  BY <1>0, WFMin
<1>2. ASSUME NEW y \in S PROVE x <= y
  <2>1. <<y, x>> \in Nat \X Nat /\ <<y, x>>[1] = y /\ <<y, x>>[2] = x
    OBVIOUS
  <2>2. ~ (y < x)
    BY <1>1, <2>1
  <2> QED
    BY <2>2
<1> QED
  BY <1>2 DEF Min

(***************************************************************************)
(* A block AllocateBlock returns is a well-formed block of the requested   *)
(* length that overlaps none of the used ones (ipam.AllocateBlock).        *)
(***************************************************************************)
LEMMA AllocatedIsFree ==
    ASSUME NEW pool \in Block, NEW len \in 0 .. AddrBits, NEW used,
           AllocateBlock(pool, len, used) # NoBlock
    PROVE  /\ AllocateBlock(pool, len, used) \in Block
           /\ \A u \in used : ~ Overlaps(AllocateBlock(pool, len, used), u)
<1> DEFINE free == FreeCandidates(pool, len, used)
           m    == Min(free)
<1>1. free # {} /\ AllocateBlock(pool, len, used) = [base |-> m, len |-> len]
  BY DEF AllocateBlock
<1>2. free \in SUBSET Nat
  BY DEF FreeCandidates, Block
<1>3. m \in free
  BY <1>1, <1>2, MinOfNats
<1>4. m \in Nat /\ \A u \in used : ~ Overlaps([base |-> m, len |-> len], u)
  BY <1>2, <1>3 DEF FreeCandidates
<1> QED
  BY <1>1, <1>4 DEF Block

(***************************************************************************)
(* lowestFree inspects only the first address and the successors of taken  *)
(* ones, yet what it returns is the least free address of the range, and   *)
(* it reports exhaustion exactly when every address of the range is taken. *)
(***************************************************************************)
THEOREM LowestFreeCorrect ==
    ASSUME NEW taken \in SUBSET Nat, NEW first \in Nat, NEW last \in Nat
    PROVE  LET all == (first .. last) \ taken
           IN  LowestFree(taken, first, last) = IF all = {} THEN NoAddr ELSE Min(all)
<1> DEFINE all  == (first .. last) \ taken
           free == {c \in {first} \cup {ip + 1 : ip \in {x \in taken : first <= x /\ x < last}} :
                       c \notin taken /\ c <= last}
<1>0. LowestFree(taken, first, last) = IF free = {} THEN NoAddr ELSE Min(free)
  BY DEF LowestFree
<1>1. free \in SUBSET all /\ all \in SUBSET Nat
  OBVIOUS
<1> HIDE DEF free
<1>2. CASE all = {}
  BY <1>0, <1>1, <1>2
<1>3. CASE all # {}
  <2> DEFINE m == Min(all)
  <2>1. m \in all /\ \A y \in all : m <= y
    BY <1>1, <1>3, MinOfNats
  <2> HIDE DEF m
  <2>2. m \in free
    <3>1. CASE m = first
      BY <2>1, <3>1 DEF free
    <3>2. CASE m # first
      <4>1. m - 1 \in first .. last /\ m - 1 \notin all
        BY <1>1, <2>1, <3>2
      <4>2. m - 1 \in {x \in taken : first <= x /\ x < last} /\ (m - 1) + 1 = m
        BY <1>1, <2>1, <4>1
      <4>3. m \in {ip + 1 : ip \in {x \in taken : first <= x /\ x < last}}
        BY <4>2
      <4> QED
        BY <2>1, <4>3 DEF free
    <3> QED
      BY <3>1, <3>2
  <2>3. Min(free) \in free /\ \A y \in free : Min(free) <= y
    BY <1>1, <2>2, MinOfNats
  <2>4. Min(free) <= m /\ m <= Min(free) /\ m \in Nat /\ Min(free) \in Nat
    BY <1>1, <2>1, <2>2, <2>3
  <2>5. Min(free) = m
    BY <2>4
  <2> QED
    BY <1>0, <1>3, <2>2, <2>5 DEF m
<1> QED
  BY <1>2, <1>3

-----------------------------------------------------------------------------
(* Powers of two, which the provers know nothing of: 2^n counts the        *)
(* subsets of 1 .. n.                                                      *)

\* The number of addresses of a block (Block.size) is a positive number.
LEMMA PowerPositive ==
    ASSUME NEW n \in Nat
    PROVE  2^n \in Nat \ {0}
<1>1. IsFiniteSet(1 .. n) /\ Cardinality(1 .. n) = n
  BY FS_Interval
<1>2. IsFiniteSet(SUBSET (1 .. n)) /\ Cardinality(SUBSET (1 .. n)) = 2^n
  BY <1>1, FS_SUBSET, Zenon
<1>3. SUBSET (1 .. n) # {}
  OBVIOUS
<1>4. Cardinality(SUBSET (1 .. n)) \in Nat /\ Cardinality(SUBSET (1 .. n)) # 0
  BY <1>2, <1>3, FS_CardinalityType, FS_EmptySet, Zenon
<1> QED
  BY <1>2, <1>4

\* A block spans a positive number of addresses (Block.size).
LEMMA SizePositive ==
    ASSUME NEW len \in 0 .. AddrBits
    PROVE  Size(len) \in Nat \ {0}
<1>1. AddrBits - len \in Nat
  BY AddrBitsAssumption
<1> QED
  BY <1>1, PowerPositive DEF Size
=============================================================================
