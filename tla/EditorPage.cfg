SPECIFICATION FairSpec
CONSTANTS
    p1 = p1
    p2 = p2
    f = f
    Programs = {p1, p2}
    Takes = {}
    Unsupported = {}
    Files = {f}
    NameOf <- Names
    None = None
    Own = Own
    MaxEdits = 1
    MaxLoads = 2
    MaxHistory = 2
INVARIANTS PartsAgree TypedIsStored
PROPERTY DiscardsWhenAgreed
CHECK_DEADLOCK FALSE
