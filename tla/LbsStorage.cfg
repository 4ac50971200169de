SPECIFICATION Spec
CONSTANTS
    Readers = {r1}
    MaxBlk = 3
    MaxAppend = 2
    MaxFileBlks = 3
    FileFrac = 2
    FreeBeyond = 0
    OrderedFS = TRUE
    MaxCrashes = 2
INVARIANT StorageInvariants
INVARIANT FilesOnDisk
 
INVARIANT Durable
PROPERTY ImplementsBlockStore
CHECK_DEADLOCK FALSE
