\* Every page to its end, with two chains of polls and two files, answers in
\* any order.
SPECIFICATION FairSpec
CONSTANTS
    MaxChains = 2
    MaxFiles = 2
CHECK_DEADLOCK FALSE
INVARIANTS
    UploadsInOrder
    PageNeverBlind
PROPERTIES
    EndIsFinal
    PageEnds
