SPECIFICATION FairSpec
CONSTANTS
    p1 = p1
    p2 = p2
    f = f
    Programs = {p1, p2}
    Takes <- OneTakes
    Unsupported = {}
    Files = {f}
    NameOf <- Names
    None = None
    Own = Own
    MaxEdits = 1
    MaxLoads = 1
    MaxHistory = 2
PROPERTY RunsWithItsArguments
CHECK_DEADLOCK FALSE
