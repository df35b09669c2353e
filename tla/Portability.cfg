SPECIFICATION Spec
CONSTANTS
    node = node
    edge = edge
    skill = skill
    Intention = {i1}
    Check = {c1, c2}
    Fact = {skill}
    Node = {node}
    Edge = {edge}
    Profile = {}
    Procedural = {skill}
    Ends <- MCEnds
    MaxExports = 1
    MaxFaults = 1
SYMMETRY Symmetric
INVARIANT TypeOK
INVARIANT FiresOnce
CHECK_DEADLOCK FALSE
