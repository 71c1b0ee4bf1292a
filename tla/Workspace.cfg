SPECIFICATION FairSpec
CONSTANTS
    t1 = t1
    c1 = c1
    c2 = c2
    r1 = r1
    r2 = r2
    Texts = {t1}
    WarmUpSource = WarmUpSource
    NoText = NoText
    Cells = {c1, c2}
    Asks <- Both
    Requests = {r1, r2}
    MaxWrites = 1
INVARIANTS WhatItReadsIsThere KilledLeavesNothing
PROPERTY EveryRequestIsAnswered
CHECK_DEADLOCK FALSE
