\* An eight-address pool at base 8 of a four-bit address space.
CONSTANTS
    AddrBits = 4
    Pool <- MCPool
SPECIFICATION Spec
INVARIANTS
    PoolRangeExact
    FirstFitAligned
