---------------------------- MODULE MCIpamProofs ----------------------------
(***************************************************************************)
(* Both allocators give out the least range that is free, for every        *)
(* address width, every pool and every history of allocations and          *)
(* releases.                                                               *)
(***************************************************************************)
EXTENDS MCIpam, IpamProofs

-----------------------------------------------------------------------------
(* Powers of two and remainders.                                           *)

\* Splitting the subsets of 1 .. m + n at m: a block of length len spans a
\* whole number of blocks of every longer length.
LEMMA PowerSum ==
    ASSUME NEW m \in Nat, NEW n \in Nat
    PROVE  2^(m + n) = 2^m * 2^n
<1> DEFINE A == 1 .. m
           B == (m + 1) .. (m + n)
           C == 1 .. (m + n)
           f == [X \in SUBSET C |-> <<X \cap A, X \cap B>>]
<1>1. IsFiniteSet(A) /\ Cardinality(A) = m
  BY FS_Interval
<1>2. IsFiniteSet(B) /\ Cardinality(B) = n
  BY FS_Interval
<1>3. IsFiniteSet(C) /\ Cardinality(C) = m + n
  <2>1. 1 \in Int /\ m + n \in Int
    OBVIOUS
  <2>2. IsFiniteSet(C) /\ Cardinality(C) = IF 1 > m + n THEN 0 ELSE (m + n) - 1 + 1
    BY <2>1, FS_Interval, Zenon
  <2> QED
    BY <2>2
<1>4. A \cup B = C /\ A \cap B = {}
  OBVIOUS
<1> HIDE DEF A, B, C
<1>5. /\ IsFiniteSet(SUBSET A) /\ Cardinality(SUBSET A) = 2^m
      /\ IsFiniteSet(SUBSET B) /\ Cardinality(SUBSET B) = 2^n
      /\ IsFiniteSet(SUBSET C) /\ Cardinality(SUBSET C) = 2^(m + n)
  BY <1>1, <1>2, <1>3, FS_SUBSET
<1>6. f \in Bijection(SUBSET C, (SUBSET A) \X (SUBSET B))
  <2>1. f \in [SUBSET C -> (SUBSET A) \X (SUBSET B)]
    BY Zenon
  <2>2. ASSUME NEW X \in SUBSET C, NEW Y \in SUBSET C, f[X] = f[Y]
        PROVE  X = Y
    <3>1. <<X \cap A, X \cap B>> = <<Y \cap A, Y \cap B>>
      BY <2>2, Zenon
    <3>2. X \cap A = Y \cap A /\ X \cap B = Y \cap B
      BY <3>1
    <3>3. X = (X \cap A) \cup (X \cap B) /\ Y = (Y \cap A) \cup (Y \cap B)
      BY <1>4
    <3> QED
      BY <3>2, <3>3
  <2>3. ASSUME NEW t \in (SUBSET A) \X (SUBSET B)
        PROVE  \E X \in SUBSET C : f[X] = t
    <3>1. PICK P \in SUBSET A, Q \in SUBSET B : t = <<P, Q>>
      OBVIOUS
    <3>2. P \cup Q \in SUBSET C
      BY <1>4
    <3>3. (P \cup Q) \cap A = P /\ (P \cup Q) \cap B = Q
      BY <1>4
    <3>4. f[P \cup Q] = <<(P \cup Q) \cap A, (P \cup Q) \cap B>>
      BY <3>2, Zenon
    <3>5. f[P \cup Q] = t
      BY <3>1, <3>3, <3>4, Zenon
    <3> QED
      BY <3>2, <3>5, Zenon
  <2> HIDE DEF f
  <2> QED
    BY <2>1, <2>2, <2>3, Zenon DEF Bijection, Injection, Surjection, IsInjective
<1>7. ExistsBijection(SUBSET C, (SUBSET A) \X (SUBSET B))
  BY <1>6, Zenon DEF ExistsBijection
<1>8. Cardinality((SUBSET A) \X (SUBSET B)) = 2^(m + n)
  BY <1>5, <1>7, FS_Bijection, Zenon
<1>9. Cardinality((SUBSET A) \X (SUBSET B)) = 2^m * 2^n
  <2>1. Cardinality((SUBSET A) \X (SUBSET B)) = Cardinality(SUBSET A) * Cardinality(SUBSET B)
    BY <1>5, FS_Product
  <2> QED
    BY <1>5, <2>1, Zenon
<1> QED
  BY <1>8, <1>9

\* A number has one remainder.
LEMMA ModUnique ==
    ASSUME NEW s \in Nat \ {0}, NEW q \in Int, NEW r \in 0 .. (s - 1)
    PROVE  (s * q + r) % s = r
<1> DEFINE x == s * q + r
           d == (x \div s) - q
<1>1. x \in Int /\ x = s * (x \div s) + (x % s) /\ x \div s \in Int /\ x % s \in 0 .. (s - 1)
  OBVIOUS
<1>2. d \in Int /\ x % s = r - s * d
  BY <1>1
<1> HIDE DEF x, d
<1>3. ~ (d >= 1)
  <2>1. d >= 1 => s * d >= s
    BY <1>2
  <2> QED
    BY <1>1, <1>2, <2>1
<1>4. ~ (d <= -1)
  <2>1. d <= -1 => s * d <= -s
    BY <1>2
  <2> QED
    BY <1>1, <1>2, <2>1
<1>5. d = 0
  BY <1>2, <1>3, <1>4
<1>6. x % s = r
  BY <1>2, <1>5
<1> QED
  BY <1>6 DEF x

\* Removing whole blocks from the front does not change an offset in its block.
LEMMA ModShift ==
    ASSUME NEW s \in Nat \ {0}, NEW c \in Int, NEW b \in Int
    PROVE  (b - s * c) % s = b % s
<1>1. b = s * (b \div s) + (b % s) /\ b \div s \in Int /\ b % s \in 0 .. (s - 1)
  OBVIOUS
<1>2. b - s * c = s * ((b \div s) - c) + (b % s)
  BY <1>1
<1>3. (b \div s) - c \in Int
  BY <1>1
<1>4. (s * ((b \div s) - c) + (b % s)) % s = b % s
  BY <1>1, <1>3, ModUnique
<1> QED
  BY <1>2, <1>4

-----------------------------------------------------------------------------
(* What is taken stays a set of addresses and blocks.                      *)

Occupied == taken \in SUBSET Nat /\ used \in SUBSET Block

\* uint32 arithmetic yields an address.
LEMMA WrapIsAddress ==
    ASSUME NEW x \in Int
    PROVE  Wrap(x) \in Nat
<1>1. 2^AddrBits \in Nat \ {0}
  BY AddrBitsAssumption, PowerPositive
<1> DEFINE n == 2^AddrBits
<1>2. n \in Nat \ {0}
  BY <1>1
<1> HIDE DEF n
<1>3. x % n \in Nat
  BY <1>2
<1> QED
  BY <1>3 DEF Wrap, n

\* An address lowestFree gives out is a number of the range.
LEMMA LowestFreeIsAddress ==
    ASSUME NEW S \in SUBSET Nat, NEW first \in Nat, NEW last \in Nat,
           LowestFree(S, first, last) # NoAddr
    PROVE  LowestFree(S, first, last) \in first .. last
<1> DEFINE all == (first .. last) \ S
<1>1. LowestFree(S, first, last) = IF all = {} THEN NoAddr ELSE Min(all)
  BY LowestFreeCorrect
<1>2. all # {} /\ LowestFree(S, first, last) = Min(all) /\ all \in SUBSET Nat
  BY <1>1
<1>3. Min(all) \in all
  BY <1>2, MinOfNats
<1> QED
  BY <1>2, <1>3

\* Allocations add an address or a block of the right type, releases only remove.
LEMMA OccupiedAlways == Spec => []Occupied
<1>1. Init => Occupied
  BY DEF Init, Occupied
<1>2. Occupied /\ [Next]_vars => Occupied'
  <2> SUFFICES ASSUME Occupied, [Next]_vars PROVE Occupied'
    OBVIOUS
  <2>1. CASE TakeAddr
    <3>1. First \in Nat /\ Last \in Nat
      <4>1. Pool.base \in Nat /\ Pool.len \in 0 .. AddrBits
        BY PoolAssumption DEF Block
      <4>2. Size(Pool.len) \in Nat
        BY <4>1, SizePositive
      <4>3. Pool.base + 2 \in Int /\ Pool.base + Size(Pool.len) - 2 \in Int
        BY <4>1, <4>2
      <4> QED
        BY <4>3, WrapIsAddress DEF First, Last, PoolRange
    <3>2. LowestFree(taken, First, Last) \in First .. Last
      BY <2>1, <3>1, LowestFreeIsAddress DEF TakeAddr, Occupied
    <3>3. LowestFree(taken, First, Last) \in Nat
      BY <3>1, <3>2
    <3> QED
      BY <2>1, <3>3 DEF TakeAddr, Occupied
  <2>2. CASE ReleaseAddr
    BY <2>2 DEF ReleaseAddr, Occupied
  <2>3. CASE TakeBlock
    <3>1. PICK len \in Pool.len .. AddrBits :
             /\ AllocateBlock(Pool, len, used) # NoBlock
             /\ used' = used \cup {AllocateBlock(Pool, len, used)}
             /\ UNCHANGED taken
      BY <2>3 DEF TakeBlock
    <3>2. Pool \in Block /\ len \in 0 .. AddrBits
      BY PoolAssumption DEF Block
    <3>3. AllocateBlock(Pool, len, used) \in Block
      BY <3>1, <3>2, AllocatedIsFree
    <3> QED
      BY <3>1, <3>3 DEF Occupied
  <2>4. CASE ReleaseBlock
    BY <2>4 DEF ReleaseBlock, Occupied
  <2>5. CASE UNCHANGED vars
    BY <2>5 DEF vars, Occupied
  <2> QED
    BY <2>1, <2>2, <2>3, <2>4, <2>5 DEF Next
<1> QED
  BY <1>1, <1>2, PTL DEF Spec

-----------------------------------------------------------------------------
(* The address pool.                                                       *)

\* Of a masked pool of at least four addresses PoolRange is the addresses
\* between the server's and the broadcast address: none of its sums wraps.
LEMMA PoolRangeIsUsable ==
    ASSUME NEW len \in 0 .. (AddrBits - 2), NEW base \in 0 .. (2^AddrBits - 1),
           base % Size(len) = 0
    PROVE  /\ Size(len) \in Nat /\ Size(len) >= 4
           /\ PoolRange([base |-> base, len |-> len]) = <<base + 2, base + Size(len) - 2>>
<1> DEFINE s == Size(len)
           n == 2^AddrBits
           k == 2^len
           t == 2^(AddrBits - len - 2)
           q == base \div s
<1>0. AddrBits \in Nat /\ len \in Nat /\ AddrBits - len \in Nat /\ AddrBits - len - 2 \in Nat
  BY AddrBitsAssumption
<1>1. s \in Nat \ {0} /\ n \in Nat \ {0} /\ k \in Nat \ {0} /\ t \in Nat \ {0}
  BY <1>0, PowerPositive DEF Size
<1>2. n = s * k
  <2>1. (AddrBits - len) + len = AddrBits
    BY <1>0
  <2>2. 2^((AddrBits - len) + len) = 2^(AddrBits - len) * 2^len
    BY <1>0, PowerSum
  <2> QED
    BY <2>1, <2>2 DEF Size
<1>3. s >= 4
  <2>1. 2 + (AddrBits - len - 2) = AddrBits - len
    BY <1>0
  <2>2. 2^(2 + (AddrBits - len - 2)) = 2^2 * t
    BY <1>0, PowerSum
  <2>3. s = 2^2 * t
    BY <2>1, <2>2 DEF Size
  <2>4. 2^2 = 4
    OBVIOUS
  <2>5. s = 4 * t
    BY <2>3, <2>4, Zenon
  <2> HIDE DEF s, t
  <2> QED
    BY <1>1, <2>5
<1> HIDE DEF s, n, k, t
<1>4. base \in Nat /\ base < n /\ base % s = 0
  BY <1>1 DEF n, s
<1>5. base = s * q /\ q \in Int
  <2>1. base = s * (base \div s) + (base % s) /\ base \div s \in Int
    BY <1>1, <1>4
  <2> QED
    BY <1>1, <1>4, <2>1
<1> HIDE DEF q
<1>6. q < k
  <2>1. q >= k => s * q >= s * k
    BY <1>1, <1>5
  <2> QED
    BY <1>1, <1>2, <1>4, <1>5, <2>1
<1>7. base + s <= n
  <2>1. q + 1 <= k
    BY <1>1, <1>5, <1>6
  <2>2. s * (q + 1) <= s * k
    BY <1>1, <1>5, <2>1
  <2>3. s * (q + 1) = s * q + s
    BY <1>1, <1>5
  <2> QED
    BY <1>1, <1>2, <1>5, <2>2, <2>3
<1>8. (base + 2) % n = base + 2 /\ (base + s - 2) % n = base + s - 2
  BY <1>1, <1>3, <1>4, <1>7
<1>9. PoolRange([base |-> base, len |-> len]) = <<(base + 2) % n, (base + s - 2) % n>>
  BY DEF PoolRange, Wrap, n, s
<1> QED
  BY <1>1, <1>3, <1>8, <1>9, Zenon DEF s

(***************************************************************************)
(* Registration gives out the least free address that is not reserved and  *)
(* fails only when there is none, for every address width, every masked    *)
(* pool of at least four addresses and every history of registrations and  *)
(* deletions (ipam.PoolRange with lowestFree).                             *)
(***************************************************************************)
THEOREM PoolRangeExactAlways == Spec => []PoolRangeExact
<1>1. Occupied => PoolRangeExact
  <2> SUFFICES ASSUME Occupied, NEW len \in 0 .. (AddrBits - 2),
                      NEW base \in {x \in 0 .. (2^AddrBits - 1) : x % Size(len) = 0}
               PROVE  LET p      == [base |-> base, len |-> len]
                          usable == Addrs(p) \ ({base, base + 1, base + Size(len) - 1} \cup taken)
                      IN  LowestFree(taken, PoolRange(p)[1], PoolRange(p)[2]) =
                              IF usable = {} THEN NoAddr ELSE Min(usable)
    BY Zenon DEF PoolRangeExact
  <2> DEFINE p      == [base |-> base, len |-> len]
             s      == Size(len)
             usable == Addrs(p) \ ({base, base + 1, base + s - 1} \cup taken)
             all    == ((base + 2) .. (base + s - 2)) \ taken
  <2>1. base \in 0 .. (2^AddrBits - 1) /\ base % Size(len) = 0
    BY Zenon
  <2>2. s \in Nat /\ s >= 4 /\ PoolRange(p) = <<base + 2, base + s - 2>>
    BY <2>1, PoolRangeIsUsable
  <2>3. base \in Nat
    BY <2>1
  <2>4. Addrs(p) = base .. (base + s - 1)
    BY DEF Addrs
  <2> HIDE DEF s, p
  <2>5. usable = all
    BY <2>2, <2>3, <2>4
  <2>6. PoolRange(p)[1] = base + 2 /\ PoolRange(p)[2] = base + s - 2
    BY <2>2
  <2>7. base + 2 \in Nat /\ base + s - 2 \in Nat /\ taken \in SUBSET Nat
    BY <2>2, <2>3 DEF Occupied
  <2>8. LowestFree(taken, base + 2, base + s - 2) = IF all = {} THEN NoAddr ELSE Min(all)
    BY <2>7, LowestFreeCorrect
  <2> HIDE DEF all
  <2> QED
    BY <2>5, <2>6, <2>8, Zenon DEF p, s
<1> QED
  BY <1>1, OccupiedAlways, PTL

-----------------------------------------------------------------------------
(* The pool of blocks.                                                     *)

\* ipam.Overlaps compares bounds; it says whether an address is in both blocks.
LEMMA OverlapsIsSharing ==
    ASSUME NEW a \in Block, NEW b \in Block
    PROVE  Overlaps(a, b) <=> Addrs(a) \cap Addrs(b) # {}
<1> DEFINE m == Size(a.len)
           n == Size(b.len)
           x == a.base
           y == b.base
<1>1. m \in Nat \ {0} /\ n \in Nat \ {0} /\ x \in Nat /\ y \in Nat
  BY SizePositive DEF Block
<1>2. Addrs(a) = x .. (x + m - 1) /\ Addrs(b) = y .. (y + n - 1)
  BY DEF Addrs
<1>3. Overlaps(a, b) <=> x < y + n /\ y < x + m
  BY DEF Overlaps
<1> HIDE DEF m, n, x, y
<1>4. ASSUME x < y + n, y < x + m PROVE Addrs(a) \cap Addrs(b) # {}
  <2>1. CASE x <= y
    <3>1. y \in Addrs(a) /\ y \in Addrs(b)
      BY <1>1, <1>2, <1>4, <2>1
    <3> QED
      BY <3>1
  <2>2. CASE y <= x
    <3>1. x \in Addrs(a) /\ x \in Addrs(b)
      BY <1>1, <1>2, <1>4, <2>2
    <3> QED
      BY <3>1
  <2> QED
    BY <1>1, <2>1, <2>2
<1>5. ASSUME NEW z \in Addrs(a) \cap Addrs(b) PROVE x < y + n /\ y < x + m
  BY <1>1, <1>2
<1> QED
  BY <1>3, <1>4, <1>5

\* A step of the loop of AllocateBlock is aligned in the pool exactly when it is
\* aligned in the address space: the pool is a whole number of such blocks and
\* starts at a multiple of its own size.
LEMMA PoolAligned ==
    ASSUME NEW len \in Pool.len .. AddrBits, NEW b \in Int
    PROVE  (b - Pool.base) % Size(len) = b % Size(len)
<1> DEFINE s == Size(len)
           w == Size(Pool.len)
           k == 2^(len - Pool.len)
           q == Pool.base \div w
<1>0. /\ AddrBits \in Nat /\ Pool.len \in 0 .. AddrBits /\ len \in 0 .. AddrBits
      /\ Pool.base \in Nat /\ Pool.base % w = 0
      /\ AddrBits - len \in Nat /\ len - Pool.len \in Nat
  BY AddrBitsAssumption, PoolAssumption DEF Block
<1>1. s \in Nat \ {0} /\ w \in Nat \ {0} /\ k \in Nat \ {0}
  BY <1>0, SizePositive, PowerPositive
<1>2. w = s * k
  <2>1. (AddrBits - len) + (len - Pool.len) = AddrBits - Pool.len
    BY <1>0
  <2>2. 2^((AddrBits - len) + (len - Pool.len)) = 2^(AddrBits - len) * 2^(len - Pool.len)
    BY <1>0, PowerSum
  <2> QED
    BY <2>1, <2>2 DEF Size
<1> HIDE DEF s, w, k
<1>3. Pool.base = w * q /\ q \in Int
  BY <1>0, <1>1
<1> HIDE DEF q
<1>4. Pool.base = s * (k * q) /\ k * q \in Int
  BY <1>1, <1>2, <1>3
<1>5. (b - s * (k * q)) % s = b % s
  BY <1>1, <1>4, ModShift
<1> QED
  BY <1>4, <1>5 DEF s

(***************************************************************************)
(* AllocateBlock gives the least naturally aligned block of the pool whose *)
(* addresses are all free and refuses only when there is none, for every   *)
(* address width, every masked pool and every fragmentation of it          *)
(* (ipam.AllocateBlock).                                                   *)
(***************************************************************************)
THEOREM FirstFitAlignedAlways == Spec => []FirstFitAligned
<1>1. Occupied => FirstFitAligned
  <2> SUFFICES ASSUME Occupied, NEW len \in Pool.len .. AddrBits
               PROVE  LET fits == {b \in Addrs(Pool) :
                                     /\ b % Size(len) = 0
                                     /\ Addrs([base |-> b, len |-> len]) \subseteq Addrs(Pool)
                                     /\ \A u \in used : Addrs(u) \cap Addrs([base |-> b, len |-> len]) = {}}
                      IN  AllocateBlock(Pool, len, used) =
                              IF fits = {} THEN NoBlock ELSE [base |-> Min(fits), len |-> len]
    BY Zenon DEF FirstFitAligned
  <2> DEFINE fits == {b \in Addrs(Pool) :
                        /\ b % Size(len) = 0
                        /\ Addrs([base |-> b, len |-> len]) \subseteq Addrs(Pool)
                        /\ \A u \in used : Addrs(u) \cap Addrs([base |-> b, len |-> len]) = {}}
             free == FreeCandidates(Pool, len, used)
             B(b) == [base |-> b, len |-> len]
             s    == Size(len)
             w    == Size(Pool.len)
             p    == Pool.base
  <2>0. /\ Pool.len \in 0 .. AddrBits /\ len \in 0 .. AddrBits /\ p \in Nat
        /\ ~ (len < Pool.len) /\ ~ (len > AddrBits)
    BY AddrBitsAssumption, PoolAssumption DEF Block
  <2>1. s \in Nat \ {0} /\ w \in Nat \ {0}
    BY <2>0, SizePositive
  <2>2. Addrs(Pool) = p .. (p + w - 1)
    BY DEF Addrs
  <2>3. ASSUME NEW b \in Nat PROVE Addrs(B(b)) = b .. (b + s - 1) /\ B(b) \in Block
    BY <2>0 DEF Addrs, Block
  <2>4. ASSUME NEW b \in Nat
        PROVE  (\A u \in used : ~ Overlaps(B(b), u)) <=> (\A u \in used : Addrs(u) \cap Addrs(B(b)) = {})
    <3>1. B(b) \in Block
      BY <2>3
    <3> HIDE DEF B
    <3>2. ASSUME NEW u \in used PROVE ~ Overlaps(B(b), u) <=> Addrs(u) \cap Addrs(B(b)) = {}
      <4>1. u \in Block
        BY DEF Occupied
      <4>2. Overlaps(B(b), u) <=> Addrs(B(b)) \cap Addrs(u) # {}
        BY <3>1, <4>1, OverlapsIsSharing
      <4> QED
        BY <4>2
    <3> QED
      BY <3>2
  <2>5. ASSUME NEW b \in Nat PROVE (b - p) % s = b % s
    BY PoolAligned
  <2>6. ASSUME NEW b \in Nat, b \in p .. (p + w - 1)
        PROVE  b \in p .. (p + w - s) <=> Addrs(B(b)) \subseteq Addrs(Pool)
    <3>1. Addrs(B(b)) = b .. (b + s - 1)
      BY <2>3
    <3> HIDE DEF B, s, w, p
    <3>2. ASSUME b \in p .. (p + w - s) PROVE b .. (b + s - 1) \subseteq p .. (p + w - 1)
      BY <2>0, <2>1, <3>2
    <3>3. ASSUME b .. (b + s - 1) \subseteq p .. (p + w - 1) PROVE b \in p .. (p + w - s)
      <4>1. b + s - 1 \in b .. (b + s - 1)
        BY <2>1
      <4>2. b + s - 1 \in p .. (p + w - 1)
        BY <3>3, <4>1
      <4> QED
        BY <2>0, <2>1, <2>6, <4>2
    <3> QED
      BY <2>2, <3>1, <3>2, <3>3
  <2>7. free = {b \in p .. (p + w - s) : (b - p) % s = 0 /\ \A u \in used : ~ Overlaps(B(b), u)}
    BY Zenon DEF FreeCandidates
  <2>8. fits = {b \in p .. (p + w - 1) :
                  /\ b % s = 0
                  /\ Addrs(B(b)) \subseteq Addrs(Pool)
                  /\ \A u \in used : Addrs(u) \cap Addrs(B(b)) = {}}
    BY <2>2, Zenon
  <2> HIDE DEF fits, free, B, s, w, p
  <2>9. ASSUME NEW b PROVE b \in free <=> b \in fits
    <3>1. b \in p .. (p + w - s) => b \in p .. (p + w - 1)
      BY <2>0, <2>1
    <3>2. b \in p .. (p + w - 1) => b \in Nat
      BY <2>0, <2>1
    <3>3. CASE b \in p .. (p + w - 1)
      <4>1. b \in Nat
        BY <3>2, <3>3
      <4>2. b \in p .. (p + w - s) <=> Addrs(B(b)) \subseteq Addrs(Pool)
        BY <2>6, <3>3, <4>1, Zenon
      <4>3. (b - p) % s = b % s
        BY <2>5, <4>1, Zenon
      <4>4. (\A u \in used : ~ Overlaps(B(b), u)) <=> (\A u \in used : Addrs(u) \cap Addrs(B(b)) = {})
        BY <2>4, <4>1, Zenon
      <4>5. b \in free <=> b \in p .. (p + w - s) /\ (b - p) % s = 0 /\ \A u \in used : ~ Overlaps(B(b), u)
        BY <2>7, Zenon
      <4>6. b \in fits <=> /\ b \in p .. (p + w - 1)
                           /\ b % s = 0
                           /\ Addrs(B(b)) \subseteq Addrs(Pool)
                           /\ \A u \in used : Addrs(u) \cap Addrs(B(b)) = {}
        BY <2>8, Zenon
      <4> QED
        BY <3>3, <4>2, <4>3, <4>4, <4>5, <4>6, Zenon
    <3>4. CASE b \notin p .. (p + w - 1)
      BY <2>7, <2>8, <3>1, <3>4, Zenon
    <3> QED
      BY <3>3, <3>4, Zenon
  <2>10. free = fits
    BY <2>9
  <2>11. AllocateBlock(Pool, len, used) = IF free = {} THEN NoBlock ELSE [base |-> Min(free), len |-> len]
    BY <2>0 DEF AllocateBlock, free
  <2> QED
    BY <2>10, <2>11, Zenon DEF fits
<1> QED
  BY <1>1, OccupiedAlways, PTL
=============================================================================
