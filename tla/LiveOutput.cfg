SPECIFICATION FairPictureSpec
CONSTANTS
    a = a
    b = b
    Paths = {a, b}
    Names = {a, b}
    NameOf <- Same
    Pictures = {1, 2}
    MaxBytes = 3
    None = None
    MaxLines = 2
    MaxPictureRuns = 2
INVARIANTS BudgetIsKept PicturesAreThisRuns FinalAgrees
PROPERTY CatchesUp
CHECK_DEADLOCK FALSE
