SPECIFICATION Spec
CONSTANTS
    Readers = {r1}
    MaxBlk = 3
    MaxAppend = 2
    MaxFileBlks = 3
    FileFrac = 2
    FreeBeyond = 0
    OrderedFS = TRUE
    MaxCrashes = 0
INVARIANT NoReadError
CHECK_DEADLOCK FALSE
