SPECIFICATION PoolSpec
CONSTANTS
    Simple = {s1}
    Writer = {w1, w2}
    Dream = {d1}
    PoolSize = 5
SYMMETRY Symmetric
INVARIANT PoolTypeOK
INVARIANT Accounted
INVARIANT NoStall
