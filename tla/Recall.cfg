SPECIFICATION MCSpec
CONSTANTS
    a = a
    b = b
    c = c
    f1 = f1
    f2 = f2
    f3 = f3
    who = who
    lives = lives
    NoFact = NoFact
    Entity <- MCEntity
    Claim <- MCClaim
    Fact = {f1, f2, f3}
    Mentions <- MCMentions
    When <- MCWhen
    Now = 4
    Person = {a, b}
    Word = {who, lives, a, b, c}
    Skip = {who}
    Says <- MCSays
    Question <- MCQuestion
    Answers <- MCAnswers
    MaxHops = 2
    Thin = 2
    FactLimit = 2
    BridgeLimit = 1
    ActHops = 2
    MaxChanges = 1
    MaxFaults = 1
INVARIANT TypeOK
INVARIANT VectorHitsKept
INVARIANT InactiveOnlyAsFallback
INVARIANT WalkComplete
INVARIANT WalkReaches
INVARIANT VerbLeads
INVARIANT ActivationExact
INVARIANT CommunitiesExact
PROPERTY ReadsEnd
CHECK_DEADLOCK FALSE
