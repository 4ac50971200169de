SPECIFICATION FairSpec
CONSTANTS
    NLeaves = 2
    Keys = {1, 2}
    Vals = {1, 2}
    NoVal = 0
    leafOf <- Apart
    Slots = {1}
    MaxBlk = 6
    Runs <- MCLive
PROPERTY RequestsAnswered
CHECK_DEADLOCK FALSE
