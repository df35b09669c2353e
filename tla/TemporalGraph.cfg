SPECIFICATION MCSpec
CONSTANTS
    spaced = spaced
    joined = joined
    ann = ann
    al = al
    bob = bob
    r = r
    n1 = n1
    n2 = n2
    n3 = n3
    e1 = e1
    e2 = e2
    f = f
    NodeId = {n1, n2, n3, n4, n5, n6}
    EdgeId = {e1, e2, e3, e4}
    Name <- MCName
    Normal <- MCNormal
    Lower <- MCNormal
    Key <- MCKey
    Close <- MCClose
    Similar <- MCSimilar
    Rel = {r}
    Triple <- MCTriple
    Fact = {f}
    Task = {t1, t2}
    NoName = NoName
    NoNode = NoNode
    NoEdge = NoEdge
    NoFact = NoFact
    NoTask = NoTask
    MaxTime = 1
    MaxRequests = 2
    MaxFaults = 1
SYMMETRY Symmetry
INVARIANT TypeOK
INVARIANT OneEdgePerWriter
INVARIANT OneNodePerWriter
INVARIANT EdgesGrounded
PROPERTY ClosedForGood
CHECK_DEADLOCK FALSE
