SPECIFICATION FairSpec
CONSTANTS
    first = first
    second = second
    session = session
    Request = {first, second}
    Session = {session}
    SessionOf <- MCSessionOf
    Window = 2
    MaxTools = 1
    MaxFacts = 1
    MaxEvents = 1
INVARIANT TypeOK
INVARIANT TurnLogged
INVARIANT PromptRemembers
PROPERTY Extracted
CHECK_DEADLOCK FALSE
