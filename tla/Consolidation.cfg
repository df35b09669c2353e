SPECIFICATION MCSpec
CONSTANTS
    old = old
    young = young
    Percept = {p1}
    Worthy = {p1}
    Episode = {old, young}
    MinBatch = 2
    BatchLimit = 2
    Caller = {c1}
    Loop = {l1, l2}
    NoLoop = NoLoop
    NoPercept = NoPercept
    MaxGists = 1
    MaxEvents = 2
INVARIANT TypeOK
INVARIANT PerceptsKept
INVARIANT GistsBounded
INVARIANT OneLoop
PROPERTY Consolidated
PROPERTY LoopsEnd
