CONSTANTS
    pagelen = 38
    Keys <- MCKeys
    Batches <- MCBatches
    Ranges <- MCRanges
    range_max = 80
    MaxBatches = 3
    ScanBatches = 2
    MaxEvicts = 1
INIT Init
NEXT Next
INVARIANT PagesSound
INVARIANT PagesFit
 
