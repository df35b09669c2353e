SPECIFICATION MCSpec
CONSTANTS
    persona = persona
    profile = profile
    custom = custom
    n = n
    Persona = persona
    Label = {persona, profile, custom}
    Canonical = {persona, profile}
    Note = {n}
    Stock = Stock
    Book = {b1, b2}
    Task = {t1}
    Absent = Absent
    NoRow = NoRow
    NoRequest = NoRequest
    NoEviction = NoEviction
    Budget = 2
    Keep = 1
    MaxRequests = 3
    MaxFaults = 0
PROPERTY PlaybooksKept
