----------------------------- MODULE LbsStorage -----------------------------
(***************************************************************************)
(* The back end of the lbs block store: lbs/storage.c, the file            *)
(* operations of lbs/disk.c it is built on, and the file system below.     *)
(*                                                                         *)
(* Three kinds of worker threads enter storage.c at once: one writer       *)
(* (storage_write), one deleter (storage_delete) and any number of readers *)
(* (storage_read).  Every step below is what one thread does while it      *)
(* holds the lock, or one system call it makes without the lock.           *)
(*                                                                         *)
(* A file blks_<n> is named by n, the number of its first block.  The      *)
(* bytes of a block are abstracted to the number of the APPEND that wrote  *)
(* it, so two different writes of one block number can be told apart.      *)
(***************************************************************************)
EXTENDS Integers, Sequences, FiniteSets

CONSTANTS
    Readers,        \* the reader threads
    MaxBlk,         \* bound: block numbers stay below MaxBlk
    MaxAppend,      \* bound: blocks in one APPEND
    MaxFileBlks,    \* S->maxnblks
    FileFrac,       \* 16 in the code: a file this share of the data is full
    FreeBeyond,     \* how far past the last block a FREE may point
    OrderedFS,      \* does the file system persist changes in order?
    MaxCrashes      \* bound: restarts of the daemon

ASSUME LbsStorageAssumption ==
    /\ MaxBlk \in Nat
    /\ MaxAppend \in Nat \ {0}
    /\ MaxFileBlks \in Nat /\ MaxAppend <= MaxFileBlks
    /\ FileFrac \in Nat \ {0}
    /\ FreeBeyond \in Nat
    /\ OrderedFS \in BOOLEAN
    /\ MaxCrashes \in Nat

VARIABLES
    proc,       \* "down", "up", or "refused" once storage_init has failed
    files,      \* S->files: a queue of [start, len]
    minblk,     \* S->minblk
    nextblk,    \* S->nextblk
    mem,        \* the elasticqueue's array: the starts its slots hold
    qoff,       \* the elasticqueue's offset of the head in that array
    alloc,      \* the number of records that array has room for
    writer,     \* storage_write in the writer thread
    deleter,    \* storage_delete in the deleter thread
    reader,     \* storage_read in each reader thread
    fs,         \* the storage directory
    disk,       \* what a power loss may leave of it
    acked,      \* ghost: block number -> the write reported as done
    freed,      \* ghost: the largest block number passed to FREE
    appends,    \* ghost: number of APPENDs begun
    crashes     \* number of times the daemon has died

queue == <<files, minblk, nextblk, mem, qoff, alloc>>
ghosts == <<acked, freed, appends, crashes>>
dirs == <<fs, disk>>
vars == <<proc, queue, writer, deleter, reader, dirs, ghosts>>

NoBlock == 0        \* what an APPEND never writes (they count from 1)
Garbage == -1       \* what freed memory may hold in place of a file number

IdleWriter == [pc |-> "idle", id |-> NoBlock, n |-> 0, left |-> 0,
               fnum |-> 0, newfile |-> FALSE]
IdleDeleter == [pc |-> "idle", blkno |-> 0, fileno |-> 0]
IdleReader == [pc |-> "idle", blkno |-> 0, slot |-> 0, start |-> 0,
               dangling |-> FALSE, path |-> 0, want |-> NoBlock, got |-> NoBlock]

(***************************************************************************)
(* The file system, external to the repository.  The directory maps the    *)
(* number of each file to its blocks (data) and whether part of one more   *)
(* block follows them (torn).  fs is the directory as system calls see it; *)
(* disk is the set of all directories a power loss may leave.              *)
(*                                                                         *)
(* POSIX orders nothing but what fsync is called for: a change of one file *)
(* or of one directory entry may reach the disk before or after those of   *)
(* others.  An ordered file system (OrderedFS) leaves some directory that  *)
(* fs has been since the last sync of anything.                            *)
(***************************************************************************)
FileRec == [data: Seq(Nat), torn: BOOLEAN]

IsDir(dir) ==
    /\ DOMAIN dir \subseteq Nat /\ IsFiniteSet(DOMAIN dir)
    /\ dir \in [DOMAIN dir -> FileRec]

EmptyFile == [data |-> <<>>, torn |-> FALSE]

Put(dir, f, rec) == [g \in DOMAIN dir \cup {f} |-> IF g = f THEN rec ELSE dir[g]]

Keep(dir, names) == [g \in DOMAIN dir \cap names |-> dir[g]]

\* The directories a change may start from when it reaches the disk.
Bases == IF OrderedFS THEN {fs} ELSE disk

\* A file is created, truncated or written; `part' is a state of it in between.
PutFile(f, part, rec) ==
    /\ fs' = Put(fs, f, rec)
    /\ disk' = disk \cup {Put(dir, f, r) : dir \in Bases, r \in {part, rec}}

Unlink(f) ==
    /\ fs' = Keep(fs, DOMAIN fs \ {f})
    /\ disk' = disk \cup {Keep(dir, DOMAIN dir \ {f}) : dir \in Bases}

\* fsync(2) of one file.
Fsync(f) ==
    /\ disk' = IF OrderedFS THEN {fs}
               ELSE {IF f \in DOMAIN dir THEN Put(dir, f, fs[f]) ELSE dir : dir \in disk}
    /\ UNCHANGED fs

\* disk_syncdir: open and fsync(2) the directory.
SyncDir ==
    /\ disk' = IF OrderedFS THEN {fs}
               ELSE {Keep(dir, DOMAIN fs) :
                       dir \in {d \in disk : DOMAIN fs \subseteq DOMAIN d}}
    /\ UNCHANGED fs

-----------------------------------------------------------------------------
(***************************************************************************)
(* struct storage_state and its queue of files.                            *)
(***************************************************************************)
FileState == [start: Nat, len: Nat]

Last(s) == s[Len(s)]

End(file) == file.start + file.len

\* The index of the file that storage_read's loop stops at.
FileIndex(b) ==
    CHOOSE i \in 1 .. Len(files) :
        b < End(files[i]) /\ \A j \in 1 .. i - 1 : b >= End(files[j])

Held(b) == minblk <= b /\ b < nextblk

\* The block that number b names in the store as it stands.
BlockAt(b) ==
    LET file == files[FileIndex(b)] IN fs[file.start].data[b - file.start + 1]

\* A thread that has let go of the lock but kept its pointer into the queue.
HoldsPointer(r) == reader[r].pc \in {"path", "open"}

\* The room resize() leaves an array of a records that must hold n.
Resized(a, n) == IF a < n THEN (IF 2 * a < n THEN n ELSE 2 * a)
                 ELSE IF a > 4 * n THEN 2 * n ELSE a

\* resize() calls realloc if the size changes, which may move the array from
\* under a reader; the memory it leaves holds what it held, or garbage.
Resize(n, left) ==
    /\ alloc' = Resized(alloc, n)
    /\ \E moved \in IF alloc' = alloc THEN {FALSE} ELSE BOOLEAN :
          reader' = [r \in Readers |->
              IF moved /\ HoldsPointer(r) /\ ~reader[r].dangling
              THEN [reader[r] EXCEPT !.dangling = TRUE, !.start = left[reader[r].slot]]
              ELSE reader[r]]

\* elasticqueue_add: fill the slot after the tail.
ElasticAdd(start) ==
    LET slot == qoff + Len(files) + 1 IN
    /\ files' = Append(files, [start |-> start, len |-> 0])
    /\ Resize(slot, mem)
    /\ mem' = [s \in 1 .. (IF slot > Len(mem) THEN slot ELSE Len(mem)) |->
                  IF s = slot THEN start ELSE mem[s]]
    /\ qoff' = qoff

\* elasticqueue_delete: step over the head; once more slots are unused than
\* used, move the records to the front of the array and shrink it.
ElasticDelete ==
    LET n == Len(files) - 1
        o == qoff + 1 IN
    /\ files' = Tail(files)
    /\ IF o > n
       THEN /\ mem' = [s \in 1 .. Len(mem) |-> IF s <= n THEN mem[s + o] ELSE mem[s]]
            /\ Resize(n, mem')
            /\ qoff' = 0
       ELSE /\ qoff' = o
            /\ UNCHANGED <<mem, alloc, reader>>

Down ==
    /\ proc' = "down"
    /\ files' = <<>> /\ mem' = <<>> /\ qoff' = 0 /\ alloc' = 0
    /\ minblk' = 0 /\ nextblk' = 0
    /\ writer' = IdleWriter
    /\ deleter' = IdleDeleter
    /\ reader' = [r \in Readers |-> IdleReader]

Init ==
    /\ proc = "down"
    /\ files = <<>> /\ mem = <<>> /\ qoff = 0 /\ alloc = 0
    /\ minblk = 0 /\ nextblk = 0
    /\ writer = IdleWriter
    /\ deleter = IdleDeleter
    /\ reader = [r \in Readers |-> IdleReader]
    /\ fs = <<>> /\ disk = {<<>>}
    /\ acked = <<>> /\ freed = 0 /\ appends = 0 /\ crashes = 0

-----------------------------------------------------------------------------
(***************************************************************************)
(* storage_init                                                            *)
(***************************************************************************)

\* storage_findfiles: q lists the files of the directory by increasing number.
FindFiles(q) ==
    /\ \A i, j \in DOMAIN q : i < j => q[i] < q[j]
    /\ \A f \in DOMAIN fs : \E i \in DOMAIN q : q[i] = f

\* Every file starts where the one before it ends, with no part of a block.
Contiguous(q) ==
    \A i \in DOMAIN q \ {Len(q)} :
        ~fs[q[i]].torn /\ q[i + 1] = q[i] + Len(fs[q[i]].data)

\* The first block number after the files q.
EndOfFiles(q) == IF q = <<>> THEN 0 ELSE Last(q) + Len(fs[Last(q)].data)

\* The part of a block at the end of the last file is cut off, with no fsync.
TruncateLast(q) ==
    IF q # <<>> /\ fs[Last(q)].torn
    THEN LET rec == [fs[Last(q)] EXCEPT !.torn = FALSE] IN PutFile(Last(q), rec, rec)
    ELSE UNCHANGED dirs

\* The room an array has after n records were added to it one by one.
RoomFor(n) ==
    CHOOSE a \in {0} \cup {2 ^ k : k \in 0 .. n} : a >= n /\ (a = n \/ a < 2 * n)

StorageInit ==
    /\ proc = "down" /\ crashes <= MaxCrashes
    /\ \E q \in [1 .. Cardinality(DOMAIN fs) -> DOMAIN fs] :
        /\ FindFiles(q)
        /\ IF Contiguous(q)
           THEN /\ proc' = "up"
                /\ files' = [i \in DOMAIN q |->
                                [start |-> q[i], len |-> Len(fs[q[i]].data)]]
                /\ mem' = q /\ alloc' = RoomFor(Len(q))
                /\ minblk' = IF q = <<>> THEN 0 ELSE q[1]
                /\ nextblk' = EndOfFiles(q)
                /\ TruncateLast(q)
           ELSE /\ proc' = "refused"
                /\ UNCHANGED <<files, mem, alloc, minblk, nextblk, dirs>>
    /\ qoff' = 0
    /\ UNCHANGED <<writer, deleter, reader, ghosts>>

(***************************************************************************)
(* storage_write, called with the right block number (see LbsDispatch).    *)
(***************************************************************************)

\* Is a new file needed for n more blocks?
NewFile(n) ==
    \/ files = <<>>
    \/ Last(files).len > (nextblk - minblk) \div FileFrac
    \/ Last(files).len + n > MaxFileBlks

\* The first locked section: choose the file.
WriteBegin(n) ==
    /\ proc = "up" /\ writer.pc = "idle"
    /\ nextblk + n <= MaxBlk
    /\ appends' = appends + 1
    /\ IF NewFile(n)
       THEN /\ ElasticAdd(nextblk)
            /\ writer' = [pc |-> "creat", id |-> appends + 1, n |-> n, left |-> n,
                          fnum |-> nextblk, newfile |-> TRUE]
       ELSE /\ writer' = [pc |-> "write", id |-> appends + 1, n |-> n, left |-> n,
                          fnum |-> Last(files).start, newfile |-> FALSE]
            /\ UNCHANGED <<files, mem, qoff, alloc, reader>>
    /\ UNCHANGED <<proc, minblk, nextblk, deleter, dirs, acked, freed, crashes>>

WriteCreat ==
    /\ writer.pc = "creat"
    /\ PutFile(writer.fnum, EmptyFile, EmptyFile)
    /\ writer' = [writer EXCEPT !.pc = "write"]
    /\ UNCHANGED <<proc, queue, deleter, reader, ghosts>>

\* One more block of disk_write's buffer reaches the file.
WriteBlock ==
    /\ writer.pc = "write"
    /\ LET file == fs[writer.fnum] IN
       PutFile(writer.fnum, [file EXCEPT !.torn = TRUE],
                            [file EXCEPT !.data = Append(@, writer.id)])
    /\ writer' = [writer EXCEPT !.left = @ - 1,
                                !.pc = IF writer.left = 1 THEN "fsync" ELSE "write"]
    /\ UNCHANGED <<proc, queue, deleter, reader, ghosts>>

\* Mutant: disk_write returns without calling fsync.
WriteFsyncSkipped ==
    /\ writer.pc = "fsync"
    /\ writer' = [writer EXCEPT !.pc = "commit"]
    /\ UNCHANGED <<proc, queue, deleter, reader, dirs, ghosts>>

WriteFsync ==
    /\ writer.pc = "fsync"
    /\ Fsync(writer.fnum)
    /\ writer' = [writer EXCEPT !.pc = IF writer.newfile THEN "syncdir" ELSE "commit"]
    /\ UNCHANGED <<proc, queue, deleter, reader, ghosts>>

WriteSyncDir ==
    /\ writer.pc = "syncdir"
    /\ SyncDir
    /\ writer' = [writer EXCEPT !.pc = "commit"]
    /\ UNCHANGED <<proc, queue, deleter, reader, ghosts>>

\* Mutant: the blocks are added to the head of the queue, not to its tail.
WriteCommitHead ==
    /\ writer.pc = "commit"
    /\ files' = [files EXCEPT ![1].len = @ + writer.n]
    /\ nextblk' = nextblk + writer.n
    /\ writer' = IdleWriter
    /\ acked' = acked
    /\ UNCHANGED <<proc, minblk, mem, qoff, alloc, deleter, reader, dirs,
                   freed, appends, crashes>>

\* The second locked section: the blocks are there.
WriteCommit ==
    /\ writer.pc = "commit"
    /\ files' = [files EXCEPT ![Len(files)].len = @ + writer.n]
    /\ nextblk' = nextblk + writer.n
    /\ writer' = IdleWriter
    /\ acked' = [b \in DOMAIN acked \cup nextblk .. nextblk + writer.n - 1 |->
                    IF b >= nextblk THEN writer.id ELSE acked[b]]
    /\ UNCHANGED <<proc, minblk, mem, qoff, alloc, deleter, reader, dirs,
                   freed, appends, crashes>>

(***************************************************************************)
(* storage_delete                                                          *)
(***************************************************************************)
DeleteBegin(b) ==
    /\ proc = "up" /\ deleter.pc = "idle"
    /\ b < nextblk + FreeBeyond
    /\ deleter' = [pc |-> "check", blkno |-> b, fileno |-> 0]
    /\ freed' = IF b > freed THEN b ELSE freed
    /\ UNCHANGED <<proc, queue, writer, reader, dirs, acked, appends, crashes>>

\* Mutant: a file is taken when its last block is the first one to keep.
DeleteCheckOver ==
    /\ deleter.pc = "check"
    /\ IF Len(files) < 2 \/ End(files[1]) > deleter.blkno + 1
       THEN /\ deleter' = IdleDeleter
            /\ UNCHANGED <<queue, reader>>
       ELSE /\ deleter' = [deleter EXCEPT !.pc = "unlink", !.fileno = files[1].start]
            /\ ElasticDelete
            /\ minblk' = files[2].start
            /\ UNCHANGED nextblk
    /\ UNCHANGED <<proc, writer, dirs, ghosts>>

\* The locked section of one turn of the loop.
DeleteCheck ==
    /\ deleter.pc = "check"
    /\ IF Len(files) < 2 \/ End(files[1]) > deleter.blkno
       THEN /\ deleter' = IdleDeleter
            /\ UNCHANGED <<queue, reader>>
       ELSE /\ deleter' = [deleter EXCEPT !.pc = "unlink", !.fileno = files[1].start]
            /\ ElasticDelete
            /\ minblk' = files[2].start
            /\ UNCHANGED nextblk
    /\ UNCHANGED <<proc, writer, dirs, ghosts>>

\* Mutant: the file to unlink is read from the queue after the head is gone.
DeleteUnlinkHead ==
    /\ deleter.pc = "unlink"
    /\ Unlink(files[1].start)
    /\ deleter' = [deleter EXCEPT !.pc = "syncdir"]
    /\ UNCHANGED <<proc, queue, writer, reader, ghosts>>

DeleteUnlink ==
    /\ deleter.pc = "unlink"
    /\ Unlink(deleter.fileno)
    /\ deleter' = [deleter EXCEPT !.pc = "syncdir"]
    /\ UNCHANGED <<proc, queue, writer, reader, ghosts>>

DeleteSyncDir ==
    /\ deleter.pc = "syncdir"
    /\ SyncDir
    /\ deleter' = [deleter EXCEPT !.pc = "check"]
    /\ UNCHANGED <<proc, queue, writer, reader, ghosts>>

(***************************************************************************)
(* storage_read.  The pointer fs found under the lock is used after the    *)
(* lock is released, once for the path and once for the offset.            *)
(***************************************************************************)
ReadLookup(r, b) ==
    /\ proc = "up" /\ reader[r].pc = "idle"
    /\ reader' = [reader EXCEPT ![r] =
           IF Held(b)
           THEN [IdleReader EXCEPT !.pc = "path", !.blkno = b, !.want = BlockAt(b),
                                   !.slot = qoff + FileIndex(b)]
           ELSE [IdleReader EXCEPT !.pc = "done", !.blkno = b]]
    /\ UNCHANGED <<proc, queue, writer, deleter, dirs, ghosts>>

\* The values fs->start may have for a reader that no longer holds the lock.
Deref(r) ==
    IF reader[r].dangling THEN {reader[r].start, Garbage} ELSE {mem[reader[r].slot]}

ReadPath(r) ==
    /\ reader[r].pc = "path"
    /\ \E start \in Deref(r) :
          reader' = [reader EXCEPT ![r].pc = "open", ![r].path = start]
    /\ UNCHANGED <<proc, queue, writer, deleter, dirs, ghosts>>

\* Mutant: the offset is one block short.
ReadOffsetShort(r, start) == reader[r].blkno - start

\* Where in its file the block asked for is (TLA+ counts from 1).
ReadOffset(r, start) == reader[r].blkno - start + 1

\* disk_read: a missing file is a missing block; a bad offset is an error.
ReadBlock(r) ==
    /\ reader[r].pc = "open"
    /\ \E start \in Deref(r) :
          LET path == reader[r].path
              pos == ReadOffset(r, start) IN
          reader' = [reader EXCEPT ![r] =
              IF path \notin DOMAIN fs
              THEN [@ EXCEPT !.pc = "done"]
              ELSE IF pos \in DOMAIN fs[path].data /\ start # Garbage
                   THEN [@ EXCEPT !.pc = "done", !.got = fs[path].data[pos]]
                   ELSE [@ EXCEPT !.pc = "error"]]
    /\ UNCHANGED <<proc, queue, writer, deleter, dirs, ghosts>>

\* The response is sent and the thread waits for more work.
ReadReturn(r) ==
    /\ reader[r].pc = "done"
    /\ reader' = [reader EXCEPT ![r] = IdleReader]
    /\ UNCHANGED <<proc, queue, writer, deleter, dirs, ghosts>>

(***************************************************************************)
(* The process dies: exit(1) in a worker whose read failed, or a kill at   *)
(* any time.  What was written stays in the page cache; a write under way  *)
(* may leave part of a block.                                              *)
(***************************************************************************)
TornWrite ==
    \/ UNCHANGED dirs
    \/ /\ writer.pc = "write"
       /\ LET rec == [fs[writer.fnum] EXCEPT !.torn = TRUE] IN
          PutFile(writer.fnum, rec, rec)

ReadError(r) ==
    /\ reader[r].pc = "error"
    /\ crashes' = crashes + 1
    /\ TornWrite
    /\ Down
    /\ UNCHANGED <<acked, freed, appends>>

Kill ==
    /\ proc = "up" /\ crashes < MaxCrashes
    /\ crashes' = crashes + 1
    /\ TornWrite
    /\ Down
    /\ UNCHANGED <<acked, freed, appends>>

PowerLoss ==
    /\ crashes < MaxCrashes
    /\ crashes' = crashes + 1
    /\ fs' \in disk
    /\ disk' = {fs'}
    /\ Down
    /\ UNCHANGED <<acked, freed, appends>>

-----------------------------------------------------------------------------
Write == WriteCreat \/ WriteBlock \/ WriteFsync \/ WriteSyncDir \/ WriteCommit

Delete == DeleteCheck \/ DeleteUnlink \/ DeleteSyncDir

Read(r) == ReadPath(r) \/ ReadBlock(r) \/ ReadReturn(r) \/ ReadError(r)

Next ==
    \/ StorageInit
    \/ \E n \in 1 .. MaxAppend : WriteBegin(n)
    \/ Write
    \/ \E b \in 0 .. MaxBlk + FreeBeyond : DeleteBegin(b)
    \/ Delete
    \/ \E r \in Readers, b \in 0 .. MaxBlk : ReadLookup(r, b)
    \/ \E r \in Readers : Read(r)
    \/ Kill
    \/ PowerLoss

Spec == Init /\ [][Next]_vars

-----------------------------------------------------------------------------
(***************************************************************************)
(* Properties                                                              *)
(***************************************************************************)

\* The types of the variables: struct storage_state, the threads' locals and
\* the files of the storage directory.
TypeOK ==
    /\ proc \in {"down", "up", "refused"}
    /\ files \in Seq(FileState)
    /\ minblk \in Nat /\ nextblk \in Nat
    /\ mem \in Seq(Nat) /\ qoff \in Nat /\ alloc \in Nat
    /\ writer \in [pc: {"idle", "creat", "write", "fsync", "syncdir", "commit"},
                   id: Nat, n: Nat, left: Nat, fnum: Nat, newfile: BOOLEAN]
    /\ deleter \in [pc: {"idle", "check", "unlink", "syncdir"},
                    blkno: Nat, fileno: Nat]
    /\ reader \in [Readers ->
           [pc: {"idle", "path", "open", "done", "error"}, blkno: Nat, slot: Nat,
            start: Nat, dangling: BOOLEAN, path: Nat \cup {Garbage}, want: Nat, got: Nat]]
    /\ IsDir(fs) /\ \A dir \in disk : IsDir(dir)
    /\ DOMAIN acked \subseteq Nat /\ \A b \in DOMAIN acked : acked[b] \in Nat
    /\ freed \in Nat /\ appends \in Nat /\ crashes \in Nat

\* The four invariants that storage_internal.h states of struct storage_state
\* whenever its lock is not held for writing: the queue of files covers
\* exactly the blocks from minblk up to nextblk, each file starting where the
\* one before it ends.
StorageInvariants ==
    /\ files = <<>> => minblk = 0 /\ nextblk = 0
    /\ files # <<>> => minblk = files[1].start /\ nextblk = End(Last(files))
    /\ \A i \in 1 .. Len(files) - 1 : End(files[i]) = files[i + 1].start

\* Every file in the queue is in the directory, whatever the deleter and the
\* writer are in the middle of, and holds at least the blocks that the queue
\* says it has; only the file that storage_write has yet to create is not.
FilesOnDisk ==
    \A i \in 1 .. Len(files) :
        LET f == files[i].start IN
        \/ f \in DOMAIN fs /\ Len(fs[f].data) >= files[i].len
        \/ i = Len(files) /\ writer.pc = "creat" /\ writer.fnum = f

\* A storage_read that returns a block returns the block its caller asked for,
\* though the file may be deleted and its record moved while it reads.
ReadsRightBlock ==
    \A r \in Readers : reader[r].got # NoBlock => reader[r].got = reader[r].want

\* DESIGN, "Operations are only acknowledged after data has been written to
\* disk": after any kills, power losses and restarts storage_init succeeds, and
\* every block whose write was reported as done and that no FREE has covered is
\* in the store with its contents.
Durable ==
    /\ proc # "refused"
    /\ proc = "up" =>
          \A b \in DOMAIN acked :
              b >= freed => Held(b) /\ BlockAt(b) = acked[b]

\* storage_delete's comment, "racing against readers is handled by readers
\* treating ENOENT properly": no read ever fails.
NoReadError == \A r \in Readers : reader[r].pc # "error"
=============================================================================
