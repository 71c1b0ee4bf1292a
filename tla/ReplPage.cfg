SPECIFICATION FairSpec
CONSTANTS
    Texts = {t1, t2}
    t1 = t1
    t2 = t2
    Blank = Blank
    NoAnalysis = NoAnalysis
    MaxCells = 3
    MaxSubmits = 4
    MaxCalls = 2
    RuntimeFails = TRUE
    AddingFails = FALSE
INVARIANTS PageKnowsTheSession AnalyserHasTheCells AnalysisIsCurrent
PROPERTY SubmissionEnds
CHECK_DEADLOCK FALSE
