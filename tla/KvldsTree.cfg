SPECIFICATION Spec
CONSTANTS
    NLeaves = 2
    Keys = {1, 2}
    Vals = {1, 2}
    NoVal = 0
    leafOf <- Apart
    Slots = {1}
    MaxBlk = 8
    Runs <- MCRuns
INVARIANT TreeInvariants
INVARIANT PagesKept
INVARIANT ReadsAtomic
PROPERTY ImplementsKvStore
CHECK_DEADLOCK FALSE
