SPECIFICATION MCSpec
CONSTANTS
    a = a
    b = b
    Seeds = 1
    FactId = {f1, f2, f3}
    Text = {a, b}
    Opposed <- MCOpposed
    Derived = {b}
    Trust = {1, 2, 3}
    Source = {1, 3}
    Ceiling = 1
    ColumnTrust = 2
    Task = {t1, t2}
    NoFact = NoFact
    NoText = NoText
    MaxRequests = 2
    MaxFaults = 1
SYMMETRY Symmetry
INVARIANT TypeOK
INVARIANT ContradictionsSettled
PROPERTY OpposedSuperseded
PROPERTY ProtectedSpared
CHECK_DEADLOCK FALSE
