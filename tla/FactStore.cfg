SPECIFICATION Spec
CONSTANTS
    ann = ann
    bob = bob
    a1 = a1
    a2 = a2
    b1 = b1
    blank = blank
    Blank = blank
    NoFact = NoFact
    Failed = Failed
    Text <- MCText
    Entity <- MCEntity
    Entities <- MCEntities
    NearDup <- MCNearDup
    FactId = {f1, f2, f3}
    Task = {t1, t2}
    MaxFaults = 1
SYMMETRY Symmetry
INVARIANT TypeOK
INVARIANT WritersBoundDuplicates
INVARIANT SubjectsKept
PROPERTY Refines
