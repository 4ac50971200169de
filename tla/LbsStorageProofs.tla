-------------------------- MODULE LbsStorageProofs --------------------------
(***************************************************************************)
(* The theorems about lbs/storage.c: its invariants, what storage_read may *)
(* return while files are deleted, and what a crash may cost.              *)
(***************************************************************************)
EXTENDS LbsStorageRefinement, SetFacts, TLAPS

\* The provers of a step that names none, and the seconds each has.
USE SMTT(30), ZenonT(30), Z3T(30)

(***************************************************************************)
(* The invariants of storage_internal.h.  They are not inductive: that the *)
(* tail the writer returns to is still the file it chose, and that the     *)
(* file the deleter unlinks is no longer in the queue, rest on the queue   *)
(* being strictly sorted and on where each thread is.                      *)
(***************************************************************************)
TypeQ ==
    /\ proc \in {"down", "up", "refused"}
    /\ files \in Seq(FileState)
    /\ minblk \in Nat /\ nextblk \in Nat
    /\ writer \in [pc: {"idle", "creat", "write", "fsync", "syncdir", "commit"},
                   id: Nat, n: Nat, left: Nat, fnum: Nat, newfile: BOOLEAN]
    /\ deleter \in [pc: {"idle", "check", "unlink", "syncdir"},
                    blkno: Nat, fileno: Nat]
    /\ IsDir(fs) /\ \A dir \in disk : IsDir(dir)
    /\ appends \in Nat

\* The files are queued by increasing number.
Sorted == \A i, j \in 1 .. Len(files) : i < j => files[i].start < files[j].start

\* A daemon that is not running has no state and no threads.
NotRunning ==
    proc # "up" => files = <<>> /\ minblk = 0 /\ nextblk = 0
                   /\ writer = IdleWriter /\ deleter = IdleDeleter

\* The writer works on the tail of the queue; what it has written is there.
WriterOK ==
    writer.pc # "idle" =>
        /\ files # <<>> /\ writer.fnum = Last(files).start
        /\ writer.pc = "creat" => writer.fnum = nextblk /\ writer.left = writer.n
        /\ writer.pc \in {"creat", "write"} => writer.left \in 1 .. writer.n
        /\ writer.pc \notin {"creat", "write"} => writer.left = 0
        /\ writer.pc # "creat" =>
              /\ writer.fnum \in DOMAIN fs
              /\ Len(fs[writer.fnum].data) >= Last(files).len + writer.n - writer.left

\* The file to unlink is not in the queue any more.
DeleterOK == deleter.pc = "unlink" => deleter.fileno < minblk

QueueInv ==
    TypeQ /\ StorageInvariants /\ Sorted /\ NotRunning /\ FilesOnDisk
    /\ WriterOK /\ DeleterOK

-----------------------------------------------------------------------------
(* Directories stay directories.                                           *)

\* A function on 1 .. n is a sequence of length n.
LEMMA FunIsSeq ==
    ASSUME NEW S, NEW n \in Nat, NEW s \in [1 .. n -> S]
    PROVE  s \in Seq(S) /\ Len(s) = n /\ DOMAIN s = 1 .. n
  <1>1. s \in Seq(S)
    OBVIOUS
  <1> QED
    BY <1>1

\* Replacing one field of a file.
LEMMA FileRecExcept ==
    ASSUME NEW file \in FileRec, NEW x
    PROVE  /\ [file EXCEPT !.data = x] = [data |-> x, torn |-> file.torn]
           /\ [file EXCEPT !.torn = x] = [data |-> file.data, torn |-> x]
           /\ file.data \in Seq(Nat) /\ file.torn \in BOOLEAN
  BY DEF FileRec

\* Creating or changing one file, as disk_write and truncate do.
LEMMA PutIsDir ==
    ASSUME SetFacts, NEW d, IsDir(d), NEW f \in Nat, NEW rec \in FileRec
    PROVE  IsDir(Put(d, f, rec))
  <1>1. IsFiniteSet(DOMAIN d \cup {f})
    BY Zenon DEF IsDir, SetFacts, AddSize
  <1> QED
    BY Zenon, <1>1 DEF IsDir, Put

\* Dropping files, as unlink does.
LEMMA KeepIsDir ==
    ASSUME SetFacts, NEW d, IsDir(d), NEW names
    PROVE  IsDir(Keep(d, names))
  <1>1. IsFiniteSet(DOMAIN d \cap names)
    BY Zenon DEF IsDir, SetFacts, SubsetSize
  <1> QED
    BY Zenon, <1>1 DEF IsDir, Keep

\* A change of one file leaves directories on every disk it may reach.
LEMMA PutFileDirs ==
    ASSUME SetFacts, IsDir(fs), \A dir \in disk : IsDir(dir), NEW f \in Nat,
           NEW part \in FileRec, NEW rec \in FileRec, PutFile(f, part, rec)
    PROVE  IsDir(fs)' /\ \A dir \in disk' : IsDir(dir)
  <1>1. IsDir(Put(fs, f, rec))
    BY Zenon, PutIsDir
  <1>2. \A dir \in Bases : IsDir(Put(dir, f, part)) /\ IsDir(Put(dir, f, rec))
    BY Zenon, PutIsDir DEF Bases
  <1> QED
    BY <1>1, <1>2 DEF PutFile, IsDir

\* So do unlink, fsync and disk_syncdir.
LEMMA SyncDirs ==
    ASSUME SetFacts, IsDir(fs), \A dir \in disk : IsDir(dir), NEW f \in Nat,
           Unlink(f) \/ SyncDir \/ (f \in DOMAIN fs /\ Fsync(f))
    PROVE  IsDir(fs)' /\ \A dir \in disk' : IsDir(dir)
  <1>1. CASE Unlink(f)
    <2>1. \A dir \in Bases : IsDir(Keep(dir, DOMAIN dir \ {f}))
      BY Zenon, KeepIsDir DEF Bases
    <2>2. IsDir(Keep(fs, DOMAIN fs \ {f}))
      BY Zenon, KeepIsDir
    <2> QED
      BY Zenon, <1>1, <2>1, <2>2 DEF Unlink, IsDir
  <1>2. CASE SyncDir
    <2>1. \A dir \in disk : IsDir(Keep(dir, DOMAIN fs))
      BY Zenon, KeepIsDir
    <2> QED
      BY Zenon, <1>2, <2>1 DEF SyncDir, IsDir
  <1>3. CASE f \in DOMAIN fs /\ Fsync(f)
    <2>1. fs[f] \in FileRec
      BY Zenon, <1>3 DEF IsDir
    <2>2. \A dir \in disk : IsDir(Put(dir, f, fs[f]))
      BY Zenon, <2>1, PutIsDir
    <2> QED
      BY Zenon, <1>3, <2>2 DEF Fsync, IsDir
  <1> QED
    BY Zenon, <1>1, <1>2, <1>3

-----------------------------------------------------------------------------
(* Every step preserves QueueInv.                                          *)

\* Before the first storage_init there is nothing in the queue.
LEMMA QueueInvInit == ASSUME SetFacts PROVE Init => QueueInv
  <1> SUFFICES ASSUME Init PROVE QueueInv
    BY Zenon
  <1>1. IsDir(fs) /\ \A dir \in disk : IsDir(dir)
    BY DEF Init, IsDir, SetFacts, EmptySize
  <1> QED
    BY <1>1 DEF Init, QueueInv, TypeQ, StorageInvariants, Sorted, NotRunning, FilesOnDisk,
                WriterOK, DeleterOK, IdleWriter, IdleDeleter, NoBlock

\* storage_init: the files it accepts are sorted and contiguous.
LEMMA QueueInvStorageInit == ASSUME SetFacts PROVE QueueInv /\ StorageInit => QueueInv'
  <1> SUFFICES ASSUME QueueInv, StorageInit PROVE QueueInv'
    BY Zenon
  <1> USE DEF QueueInv
  <1>1. proc = "down" /\ files = <<>> /\ writer = IdleWriter /\ deleter = IdleDeleter
    BY Zenon DEF StorageInit, NotRunning
  <1>2. Cardinality(DOMAIN fs) \in Nat
    BY Zenon DEF TypeQ, IsDir, SetFacts, FiniteSize
  <1>3. PICK q \in [1 .. Cardinality(DOMAIN fs) -> DOMAIN fs] :
          /\ FindFiles(q)
          /\ IF Contiguous(q)
             THEN /\ proc' = "up"
                  /\ files' = [i \in DOMAIN q |->
                                  [start |-> q[i], len |-> Len(fs[q[i]].data)]]
                  /\ minblk' = IF q = <<>> THEN 0 ELSE q[1]
                  /\ nextblk' = EndOfFiles(q)
                  /\ TruncateLast(q)
             ELSE /\ proc' = "refused"
                  /\ UNCHANGED <<files, minblk, nextblk, dirs>>
    BY Zenon DEF StorageInit
  <1> DEFINE N == Cardinality(DOMAIN fs)
  <1>4. q \in Seq(Nat) /\ Len(q) = N /\ DOMAIN q = 1 .. N
    <2>1. q \in [1 .. N -> Nat]
      BY Zenon, <1>3 DEF TypeQ, IsDir
    <2> QED
      BY Zenon, <1>2, <2>1, FunIsSeq
  <1>5. UNCHANGED <<writer, deleter, appends>>
    BY Zenon DEF StorageInit, ghosts
  <1>6. \A i \in 1 .. N : q[i] \in DOMAIN fs /\ fs[q[i]] \in FileRec
                          /\ Len(fs[q[i]].data) \in Nat
    BY <1>3 DEF TypeQ, IsDir, FileRec
  <1>7. CASE ~Contiguous(q)
    BY Zenon, <1>1, <1>3, <1>5, <1>7
    DEF TypeQ, StorageInvariants, Sorted, NotRunning, FilesOnDisk, WriterOK, DeleterOK,
        IdleWriter, IdleDeleter, dirs, IsDir
  <1>8. CASE Contiguous(q)
    <2>1. files' \in Seq(FileState) /\ Len(files') = N
          /\ \A i \in 1 .. N : files'[i] = [start |-> q[i], len |-> Len(fs[q[i]].data)]
      <3>1. files' = [i \in 1 .. N |-> [start |-> q[i], len |-> Len(fs[q[i]].data)]]
        BY Zenon, <1>3, <1>4, <1>8
      <3>2. files' \in [1 .. N -> FileState]
        BY <1>4, <1>6, <3>1 DEF FileState
      <3>3. files' \in Seq(FileState) /\ Len(files') = N
        BY Zenon, <1>2, <3>2, FunIsSeq
      <3>4. \A i \in 1 .. N : files'[i] = [start |-> q[i], len |-> Len(fs[q[i]].data)]
        BY Zenon, <3>1
      <3> QED
        BY Zenon, <3>3, <3>4
    <2>2. nextblk' \in Nat /\ minblk' \in Nat
      BY <1>2, <1>3, <1>4, <1>6, <1>8 DEF EndOfFiles, Last
    <2>3. Sorted'
      <3>1. \A i, j \in 1 .. N : i < j => q[i] < q[j]
        BY Zenon, <1>3, <1>4 DEF FindFiles
      <3> QED
        BY <2>1, <3>1 DEF Sorted
    <2>4. StorageInvariants'
      <3>1. N = 0 => StorageInvariants'
        BY <1>2, <1>3, <1>4, <1>8, <2>1 DEF StorageInvariants, EndOfFiles
      <3>2. N # 0 => q # <<>> /\ files' # <<>>
        BY Zenon, <1>2, <1>4, <2>1
      <3>3. \A i \in 1 .. N - 1 : End(files'[i]) = files'[i + 1].start
        <4>1. \A i \in 1 .. N - 1 : q[i + 1] = q[i] + Len(fs[q[i]].data)
          <5>1. \A i \in 1 .. N - 1 : i \in DOMAIN q \ {Len(q)}
            BY <1>2, <1>4
          <5> QED
            BY Zenon, <1>8, <5>1 DEF Contiguous
        <4>2. \A i \in 1 .. N - 1 : i \in 1 .. N /\ i + 1 \in 1 .. N
          BY <1>2
        <4>3. \A i \in 1 .. N : files'[i].start = q[i] /\ files'[i].len = Len(fs[q[i]].data)
          BY <2>1
        <4> QED
          BY Zenon, <4>1, <4>2, <4>3 DEF End
      <3>4. N # 0 => minblk' = files'[1].start /\ nextblk' = End(Last(files'))
        BY <1>2, <1>3, <1>4, <1>6, <1>8, <2>1, <3>2 DEF EndOfFiles, End, Last
      <3> QED
        BY Zenon, <1>2, <2>1, <3>1, <3>2, <3>3, <3>4 DEF StorageInvariants, End
    <2>5. /\ IsDir(fs)' /\ \A dir \in disk' : IsDir(dir)
          /\ DOMAIN fs' = DOMAIN fs
          /\ \A f \in DOMAIN fs : fs'[f].data = fs[f].data
      <3>1. CASE q # <<>> /\ fs[Last(q)].torn
        <4> DEFINE rec == [fs[Last(q)] EXCEPT !.torn = FALSE]
        <4>0. Last(q) \in DOMAIN fs /\ Last(q) \in Nat /\ fs[Last(q)] \in FileRec
          <5>1. N \in 1 .. N /\ Last(q) = q[N]
            BY <1>2, <1>4, <3>1 DEF Last
          <5> QED
            BY <1>4, <1>6, <5>1
        <4>1. rec \in FileRec /\ rec.data = fs[Last(q)].data
          BY Zenon, <4>0 DEF FileRec
        <4>2. PutFile(Last(q), rec, rec)
          BY Zenon, <1>3, <1>8, <3>1 DEF TruncateLast
        <4>3. IsDir(fs)' /\ \A dir \in disk' : IsDir(dir)
          BY Zenon, <4>0, <4>1, <4>2, PutFileDirs DEF TypeQ
        <4>4. fs' = [g \in DOMAIN fs |-> IF g = Last(q) THEN rec ELSE fs[g]]
          <5>1. DOMAIN fs \cup {Last(q)} = DOMAIN fs
            BY Zenon, <4>0
          <5> QED
            BY Zenon, <4>2, <5>1 DEF PutFile, Put
        <4> QED
          BY Zenon, <4>1, <4>3, <4>4
      <3>2. CASE ~(q # <<>> /\ fs[Last(q)].torn)
        BY Zenon, <1>3, <1>8, <3>2 DEF TruncateLast, dirs, TypeQ, IsDir
      <3> QED
        BY Zenon, <3>1, <3>2
    <2>6. FilesOnDisk'
      BY <1>6, <2>1, <2>5 DEF FilesOnDisk
    <2> QED
      BY Zenon, <1>1, <1>3, <1>5, <1>8, <2>1, <2>2, <2>3, <2>4, <2>5, <2>6
      DEF TypeQ, NotRunning, WriterOK, DeleterOK, IdleWriter, IdleDeleter
  <1> QED
    BY Zenon, <1>7, <1>8

\* What QueueInv says of a queue that is not empty.
LEMMA QueueFacts ==
    ASSUME QueueInv, files # <<>>
    PROVE  /\ Len(files) \in Nat /\ Len(files) >= 1
           /\ \A i \in 1 .. Len(files) :
                 /\ files[i] \in FileState
                 /\ files[i].start \in Nat /\ files[i].len \in Nat
                 /\ minblk <= files[i].start /\ files[i].start <= Last(files).start
           /\ Last(files) = files[Len(files)] /\ Last(files) \in FileState
           /\ Last(files).start \in Nat /\ Last(files).len \in Nat
           /\ nextblk = Last(files).start + Last(files).len
           /\ minblk <= nextblk
  <1>1. Len(files) \in Nat /\ Len(files) >= 1
    BY DEF QueueInv, TypeQ
  <1>2. \A i \in 1 .. Len(files) : files[i] \in FileState
    BY DEF QueueInv, TypeQ
  <1>3. \A i \in 1 .. Len(files) : files[i].start \in Nat /\ files[i].len \in Nat
    BY Zenon, <1>2 DEF FileState
  <1>4. 1 \in 1 .. Len(files) /\ Len(files) \in 1 .. Len(files)
    BY <1>1
  <1>5. minblk = files[1].start /\ nextblk = End(Last(files))
    BY Zenon DEF QueueInv, StorageInvariants
  <1>6. \A i \in 1 .. Len(files) : files[1].start <= files[i].start
                                /\ files[i].start <= files[Len(files)].start
    BY <1>1, <1>3, <1>4 DEF QueueInv, Sorted
  <1> QED
    BY <1>1, <1>2, <1>3, <1>4, <1>5, <1>6 DEF Last, End

\* The share of the data that storage_write compares the last file with.
LEMMA DivIsNat ==
    ASSUME NEW a \in Nat, NEW b \in Nat \ {0}
    PROVE  a \div b \in Nat
  OBVIOUS

\* storage_write, first locked section.
LEMMA QueueInvWriteBegin ==
    ASSUME QueueInv, NEW n \in 1 .. MaxAppend, WriteBegin(n)
    PROVE  QueueInv'
  <1> USE DEF QueueInv
  <1>0. /\ UNCHANGED <<proc, minblk, nextblk, deleter, fs, disk>>
        /\ proc = "up" /\ writer.pc = "idle" /\ appends' = appends + 1
    BY Zenon DEF WriteBegin, dirs
  <1>1. n \in Nat /\ n >= 1 /\ n <= MaxFileBlks
    BY LbsStorageAssumption
  <1>2. \A i \in 1 .. Len(files) :
          files[i].start \in DOMAIN fs /\ Len(fs[files[i].start].data) >= files[i].len
    BY Zenon, <1>0 DEF FilesOnDisk
  <1>3. CASE ~NewFile(n)
    <2>1. /\ files # <<>> /\ UNCHANGED files
          /\ writer' = [pc |-> "write", id |-> appends + 1, n |-> n, left |-> n,
                        fnum |-> Last(files).start, newfile |-> FALSE]
      BY Zenon, <1>3 DEF WriteBegin, NewFile
    <2>2. Last(files) = files[Len(files)] /\ Len(files) \in 1 .. Len(files)
          /\ Last(files).start \in Nat /\ Last(files).len \in Nat
      BY <2>1, QueueFacts
    <2>3. TypeQ'
      <3>1. appends \in Nat /\ IsDir(fs') /\ \A dir \in disk' : IsDir(dir)
        BY Zenon, <1>0 DEF TypeQ
      <3>2. writer' \in [pc: {"idle", "creat", "write", "fsync", "syncdir", "commit"},
                         id: Nat, n: Nat, left: Nat, fnum: Nat, newfile: BOOLEAN]
        BY <1>1, <2>1, <2>2, <3>1
      <3> QED
        BY Zenon, <1>0, <2>1, <3>1, <3>2 DEF TypeQ
    <2>4. WriterOK'
      BY <1>0, <1>1, <1>2, <2>1, <2>2 DEF WriterOK
    <2> QED
      BY <1>0, <1>2, <2>1, <2>3, <2>4
      DEF StorageInvariants, Sorted, NotRunning, FilesOnDisk, DeleterOK
  <1>4. CASE NewFile(n)
    <2> DEFINE new == [start |-> nextblk, len |-> 0]
    <2>1. /\ files' = Append(files, new)
          /\ writer' = [pc |-> "creat", id |-> appends + 1, n |-> n, left |-> n,
                        fnum |-> nextblk, newfile |-> TRUE]
      BY Zenon, <1>4 DEF WriteBegin, ElasticAdd
    <2>2. new \in FileState /\ files \in Seq(FileState) /\ Len(files) \in Nat
      BY DEF TypeQ, FileState
    <2>3. /\ files' \in Seq(FileState) /\ Len(files') = Len(files) + 1 /\ files' # <<>>
          /\ \A i \in 1 .. Len(files) : files'[i] = files[i]
          /\ files'[Len(files) + 1] = new
      BY <2>1, <2>2
    <2>4. Last(files') = new /\ Last(files').start = nextblk /\ End(Last(files')) = nextblk
      BY <2>2, <2>3 DEF Last, End, TypeQ
    <2>5. TypeQ'
      <3>1. appends \in Nat /\ nextblk \in Nat /\ IsDir(fs') /\ \A dir \in disk' : IsDir(dir)
        BY Zenon, <1>0 DEF TypeQ
      <3>2. writer' \in [pc: {"idle", "creat", "write", "fsync", "syncdir", "commit"},
                         id: Nat, n: Nat, left: Nat, fnum: Nat, newfile: BOOLEAN]
        BY <1>1, <2>1, <3>1
      <3> QED
        BY <1>0, <2>3, <3>1, <3>2 DEF TypeQ
    <2>6. \A i \in 1 .. Len(files) : files[i].start < nextblk
      <3> SUFFICES ASSUME files # <<>>
                   PROVE  \A i \in 1 .. Len(files) : files[i].start < nextblk
        BY <2>2
      <3>0. nextblk - minblk \in Nat /\ Last(files).len \in Nat
        BY QueueFacts DEF TypeQ
      <3>1. (nextblk - minblk) \div FileFrac \in Nat
        BY Zenon, <3>0, DivIsNat, LbsStorageAssumption
      <3>2. Last(files).len > 0
        <4>1. MaxFileBlks \in Nat
          BY Zenon, LbsStorageAssumption
        <4> QED
          BY <1>1, <1>4, <3>0, <3>1, <4>1 DEF NewFile
      <3> QED
        BY <3>2, QueueFacts
    <2>7. Sorted'
      <3> SUFFICES ASSUME NEW i \in 1 .. Len(files'), NEW j \in 1 .. Len(files'), i < j
                   PROVE  files'[i].start < files'[j].start
        BY Zenon DEF Sorted
      <3>1. i \in 1 .. Len(files) /\ (j \in 1 .. Len(files) \/ j = Len(files) + 1)
        BY <2>2, <2>3
      <3> QED
        BY <2>3, <2>6, <3>1 DEF Sorted
    <2>8. StorageInvariants'
      <3>1. nextblk' = End(Last(files'))
        BY Zenon, <1>0, <2>4
      <3>2. minblk' = files'[1].start
        <4>1. CASE files = <<>>
          BY <1>0, <2>3, <4>1 DEF StorageInvariants
        <4>2. CASE files # <<>>
          BY <1>0, <2>3, <4>2, QueueFacts DEF StorageInvariants
        <4> QED
          BY Zenon, <4>1, <4>2
      <3>3. ASSUME NEW i \in 1 .. Len(files') - 1
            PROVE  End(files'[i]) = files'[i + 1].start
        <4>1. CASE i = Len(files)
          BY <2>2, <2>3, <4>1, QueueFacts DEF StorageInvariants, End
        <4>2. CASE i # Len(files)
          <5>1. i \in 1 .. Len(files) - 1 /\ i \in 1 .. Len(files) /\ i + 1 \in 1 .. Len(files)
            BY <2>2, <2>3, <4>2
          <5> QED
            BY Zenon, <2>3, <5>1 DEF StorageInvariants
        <4> QED
          BY Zenon, <4>1, <4>2
      <3> QED
        BY <2>3, <3>1, <3>2, <3>3 DEF StorageInvariants, End
    <2>9. FilesOnDisk'
      <3> SUFFICES ASSUME NEW i \in 1 .. Len(files')
                   PROVE  LET f == files'[i].start IN
                          \/ f \in DOMAIN fs' /\ Len(fs'[f].data) >= files'[i].len
                          \/ i = Len(files') /\ writer'.pc = "creat" /\ writer'.fnum = f
        BY Zenon DEF FilesOnDisk
      <3>1. CASE i = Len(files) + 1
        BY <2>1, <2>3, <3>1
      <3>2. CASE i # Len(files) + 1
        <4>1. i \in 1 .. Len(files)
          BY <2>2, <2>3, <3>2
        <4> QED
          BY <1>0, <1>2, <2>3, <4>1
      <3> QED
        BY <3>1, <3>2
    <2>10. WriterOK'
      BY <1>0, <1>1, <2>1, <2>3, <2>4 DEF WriterOK
    <2> QED
      BY <1>0, <2>5, <2>7, <2>8, <2>9, <2>10 DEF NotRunning, DeleterOK
  <1> QED
    BY Zenon, <1>3, <1>4

\* storage_write outside the lock: the file is created, written and synced.
LEMMA QueueInvWriteFile ==
    ASSUME SetFacts, QueueInv, WriteCreat \/ WriteBlock \/ WriteFsync \/ WriteSyncDir
    PROVE  QueueInv'
  <1> USE DEF QueueInv
  <1>0. UNCHANGED <<proc, files, minblk, nextblk, deleter, appends>>
    BY Zenon DEF WriteCreat, WriteBlock, WriteFsync, WriteSyncDir, queue, ghosts
  <1>1. writer.pc # "idle" /\ files # <<>> /\ writer.fnum = Last(files).start
        /\ writer.fnum \in Nat /\ proc = "up"
    BY Zenon DEF WriteCreat, WriteBlock, WriteFsync, WriteSyncDir, WriterOK, TypeQ, NotRunning,
           IdleWriter
  <1>2. Last(files).start \in Nat /\ Last(files).len \in Nat
        /\ nextblk = Last(files).start + Last(files).len
    BY Zenon, <1>1, QueueFacts
  <1>3. StorageInvariants' /\ Sorted' /\ NotRunning' /\ DeleterOK'
    BY <1>0, <1>1 DEF StorageInvariants, Sorted, NotRunning, DeleterOK
  <1>4. CASE WriteCreat
    <2>1. EmptyFile \in FileRec /\ EmptyFile.data = <<>> /\ Len(EmptyFile.data) = 0
      BY DEF EmptyFile, FileRec
    <2>2. IsDir(fs)' /\ \A dir \in disk' : IsDir(dir)
      BY <1>1, <1>4, <2>1, PutFileDirs DEF WriteCreat, TypeQ
    <2>3. writer' = [writer EXCEPT !.pc = "write"] /\ writer.pc = "creat"
          /\ fs' = Put(fs, writer.fnum, EmptyFile)
      BY Zenon, <1>4 DEF WriteCreat, PutFile
    <2>4. TypeQ'
      BY Zenon, <1>0, <2>2, <2>3 DEF TypeQ
    <2>5. Last(files).len = 0 /\ writer.fnum = nextblk
      BY <1>1, <1>2, <2>3 DEF WriterOK
    <2>6. WriterOK'
      BY <1>0, <1>1, <2>1, <2>3, <2>5 DEF WriterOK, Put, TypeQ
    <2>7. FilesOnDisk'
      <3> SUFFICES ASSUME NEW i \in 1 .. Len(files)
                   PROVE  LET f == files[i].start IN
                          f \in DOMAIN fs' /\ Len(fs'[f].data) >= files[i].len
        BY Zenon, <1>0 DEF FilesOnDisk
      <3>1. CASE files[i].start = writer.fnum
        <4>1. i = Len(files)
          BY <1>1, <3>1, QueueFacts DEF Sorted
        <4> QED
          BY <1>1, <2>1, <2>3, <2>5, <3>1, <4>1, QueueFacts DEF Put
      <3>2. CASE files[i].start # writer.fnum
        BY <2>3, <3>2 DEF FilesOnDisk, Put
      <3> QED
        BY Zenon, <3>1, <3>2
    <2> QED
      BY <1>3, <2>4, <2>6, <2>7
  <1>5. CASE WriteBlock
    <2> DEFINE file == fs[writer.fnum]
               part == [file EXCEPT !.torn = TRUE]
               rec == [file EXCEPT !.data = Append(@, writer.id)]
    <2>1. writer.pc = "write" /\ writer.fnum \in DOMAIN fs /\ PutFile(writer.fnum, part, rec)
          /\ writer' = [writer EXCEPT !.left = @ - 1,
                           !.pc = IF writer.left = 1 THEN "fsync" ELSE "write"]
      BY Zenon, <1>5 DEF WriteBlock, WriterOK
    <2>2. file \in FileRec /\ file.data \in Seq(Nat) /\ writer.id \in Nat
      BY Zenon, <2>1 DEF TypeQ, IsDir, FileRec
    <2>3. part \in FileRec /\ rec \in FileRec /\ Len(rec.data) = Len(file.data) + 1
      <3>1. Append(file.data, writer.id) \in Seq(Nat)
            /\ Len(Append(file.data, writer.id)) = Len(file.data) + 1
        BY <2>2
      <3>2. rec = [data |-> Append(file.data, writer.id), torn |-> file.torn]
            /\ part = [data |-> file.data, torn |-> TRUE]
        BY Zenon, <2>2, FileRecExcept
      <3> QED
        BY Zenon, <2>2, <3>1, <3>2 DEF FileRec
    <2>4. IsDir(fs)' /\ \A dir \in disk' : IsDir(dir)
      BY <1>1, <2>1, <2>3, PutFileDirs DEF TypeQ
    <2>5. fs' = [g \in DOMAIN fs |-> IF g = writer.fnum THEN rec ELSE fs[g]]
      <3>1. DOMAIN fs \cup {writer.fnum} = DOMAIN fs
        BY Zenon, <2>1
      <3> QED
        BY Zenon, <2>1, <3>1 DEF PutFile, Put
    <2>7. Len(file.data) \in Nat /\ writer.n \in Nat /\ writer.left \in 1 .. writer.n
      BY <2>1, <2>2 DEF TypeQ, WriterOK
    <2>6. TypeQ'
      <3>1. writer.left - 1 \in Nat
        BY <2>7
      <3> QED
        BY Zenon, <1>0, <2>1, <2>4, <3>1 DEF TypeQ
    <2>8. WriterOK'
      <3>1. writer'.n = writer.n /\ writer'.fnum = writer.fnum /\ writer'.left = writer.left - 1
            /\ writer'.pc = IF writer.left = 1 THEN "fsync" ELSE "write"
        BY Zenon, <2>1 DEF TypeQ
      <3>2. Len(fs'[writer.fnum].data) = Len(file.data) + 1 /\ writer.fnum \in DOMAIN fs'
        BY Zenon, <2>1, <2>3, <2>5
      <3> QED
        <4>1. Len(file.data) >= Last(files).len + writer.n - writer.left
          BY Zenon, <2>1 DEF WriterOK
        <4>0. Last(files') = Last(files)
          BY Zenon, <1>0
        <4>2. Len(fs'[writer'.fnum].data) >= Last(files').len + writer'.n - writer'.left
          <5>1. Len(fs'[writer'.fnum].data) = Len(file.data) + 1
            BY Zenon, <3>1, <3>2
          <5>2. Last(files').len + writer'.n - writer'.left
                  = Last(files).len + writer.n - writer.left + 1
            BY <1>2, <2>7, <3>1, <4>0
          <5>3. Last(files).len + writer.n - writer.left \in Int
            BY <1>2, <2>7
          <5>4. Len(file.data) \in Int
            BY <2>7
          <5> HIDE DEF file
          <5> QED
            BY <4>1, <5>1, <5>2, <5>3, <5>4
        <4>3. writer'.left \in 0 .. writer'.n /\ (writer'.pc = "write" => writer'.left # 0)
              /\ (writer'.pc # "write" => writer'.left = 0)
          BY <2>7, <3>1
        <4>4. writer'.pc \in {"write", "fsync"}
          BY Zenon, <3>1
        <4>5. writer'.pc = "write" => writer'.left \in 1 .. writer'.n
          BY <2>7, <3>1, <4>3
        <4> QED
          BY <1>0, <1>1, <3>1, <3>2, <4>2, <4>3, <4>4, <4>5 DEF WriterOK
    <2>9. FilesOnDisk'
      <3> SUFFICES ASSUME NEW i \in 1 .. Len(files)
                   PROVE  LET f == files[i].start IN
                          f \in DOMAIN fs' /\ Len(fs'[f].data) >= files[i].len
        BY Zenon, <1>0 DEF FilesOnDisk
      <3>1. files[i].start \in DOMAIN fs /\ Len(fs[files[i].start].data) >= files[i].len
        BY Zenon, <2>1 DEF FilesOnDisk
      <3>2. files[i].len \in Nat
        BY <1>1, QueueFacts
      <3> QED
        BY <2>3, <2>5, <2>7, <3>1, <3>2
    <2> QED
      BY Zenon, <1>3, <2>6, <2>8, <2>9
  <1>6. CASE WriteFsync \/ WriteSyncDir
    <2>1. fs' = fs /\ (SyncDir \/ (writer.fnum \in DOMAIN fs /\ Fsync(writer.fnum)))
      BY Zenon, <1>6 DEF WriteFsync, WriteSyncDir, Fsync, SyncDir, WriterOK
    <2>2. IsDir(fs)' /\ \A dir \in disk' : IsDir(dir)
      BY Zenon, <1>1, <2>1, SyncDirs DEF TypeQ
    <2>3. /\ writer.pc \in {"fsync", "syncdir"} /\ writer'.pc \in {"syncdir", "commit"}
          /\ writer' = [writer EXCEPT !.pc = writer'.pc]
      BY <1>6 DEF WriteFsync, WriteSyncDir, TypeQ
    <2>4. TypeQ'
      BY <1>0, <2>2, <2>3 DEF TypeQ
    <2>5. WriterOK'
      BY <1>0, <1>1, <2>1, <2>3 DEF WriterOK, TypeQ
    <2>6. FilesOnDisk'
      BY <1>0, <2>1, <2>3 DEF FilesOnDisk
    <2> QED
      BY Zenon, <1>3, <2>4, <2>5, <2>6
  <1> QED
    BY <1>4, <1>5, <1>6

\* storage_write, second locked section.
LEMMA QueueInvWriteCommit == QueueInv /\ WriteCommit => QueueInv'
  <1> SUFFICES ASSUME QueueInv, WriteCommit PROVE QueueInv'
    BY Zenon
  <1> USE DEF QueueInv
  <1> DEFINE L == Len(files)
             old == files[L]
             new == [start |-> old.start, len |-> old.len + writer.n]
  <1>0. UNCHANGED <<proc, minblk, deleter, fs, disk, appends>>
        /\ writer.pc = "commit" /\ writer' = IdleWriter /\ nextblk' = nextblk + writer.n
    BY Zenon DEF WriteCommit, dirs
  <1>1. /\ files # <<>> /\ writer.fnum = old.start /\ writer.left = 0
        /\ Len(fs[writer.fnum].data) >= old.len + writer.n
        /\ writer.fnum \in DOMAIN fs /\ proc = "up"
    BY <1>0, QueueFacts DEF WriterOK, Last, TypeQ, NotRunning, IdleWriter
  <1>2. L \in Nat /\ L \in 1 .. L /\ old \in FileState /\ writer.n \in Nat
        /\ old.start \in Nat /\ old.len \in Nat /\ nextblk = old.start + old.len
    BY <1>1, QueueFacts DEF TypeQ
  <1>3. files' = [files EXCEPT ![L] = new] /\ new \in FileState
    <2>1. files' = [files EXCEPT ![L] = [old EXCEPT !.len = old.len + writer.n]]
      BY Zenon DEF WriteCommit
    <2>2. [old EXCEPT !.len = old.len + writer.n] = new /\ new \in FileState
      BY <1>2 DEF FileState
    <2> QED
      BY Zenon, <2>1, <2>2
  <1>4. /\ files' \in Seq(FileState) /\ Len(files') = L /\ files' # <<>>
        /\ \A i \in 1 .. L : files'[i] = IF i = L THEN new ELSE files[i]
    BY <1>2, <1>3 DEF TypeQ
  <1>5. \A i \in 1 .. L : files'[i].start = files[i].start
                          /\ (i # L => files'[i].len = files[i].len)
    BY <1>4
  <1>6. TypeQ'
    BY <1>0, <1>2, <1>4 DEF TypeQ, IdleWriter, NoBlock
  <1>7. StorageInvariants'
    <2>1. minblk' = files'[1].start
      BY <1>0, <1>1, <1>2, <1>5 DEF StorageInvariants
    <2>2. nextblk' = End(Last(files'))
      BY <1>0, <1>2, <1>4 DEF Last, End
    <2>3. \A i \in 1 .. L - 1 : End(files'[i]) = files'[i + 1].start
      <3>1. \A i \in 1 .. L - 1 : i \in 1 .. L /\ i + 1 \in 1 .. L /\ i # L
        BY <1>2
      <3> QED
        BY <1>5, <3>1 DEF StorageInvariants, End
    <2> QED
      BY Zenon, <1>4, <2>1, <2>2, <2>3 DEF StorageInvariants, End
  <1>8. Sorted'
    BY Zenon, <1>4, <1>5 DEF Sorted
  <1>9. FilesOnDisk'
    <2> SUFFICES ASSUME NEW i \in 1 .. L
                 PROVE  files'[i].start \in DOMAIN fs /\ Len(fs[files'[i].start].data) >= files'[i].len
      BY Zenon, <1>0, <1>4 DEF FilesOnDisk
    <2>1. CASE i = L
      BY <1>1, <1>4, <2>1
    <2>2. CASE i # L
      BY Zenon, <1>0, <1>5, <2>2 DEF FilesOnDisk
    <2> QED
      BY Zenon, <2>1, <2>2
  <1> QED
    BY Zenon, <1>0, <1>1, <1>6, <1>7, <1>8, <1>9 DEF NotRunning, WriterOK, DeleterOK, IdleWriter

\* storage_delete, the locked section: the head leaves the queue.
LEMMA QueueInvDeleteCheck == QueueInv /\ DeleteCheck => QueueInv'
  <1> SUFFICES ASSUME QueueInv, DeleteCheck PROVE QueueInv'
    BY Zenon
  <1> USE DEF QueueInv
  <1> DEFINE L == Len(files)
  <1>0. UNCHANGED <<proc, writer, fs, disk, appends>> /\ deleter.pc = "check"
    BY Zenon DEF DeleteCheck, ghosts, dirs
  <1>1. CASE L < 2 \/ End(files[1]) > deleter.blkno
    <2>1. UNCHANGED <<files, minblk, nextblk>> /\ deleter' = IdleDeleter
      BY Zenon, <1>1 DEF DeleteCheck, queue
    <2> QED
      BY Zenon, <1>0, <2>1 DEF TypeQ, StorageInvariants, Sorted, NotRunning, FilesOnDisk, WriterOK,
                        DeleterOK, IdleDeleter, IsDir
  <1>2. CASE ~(L < 2 \/ End(files[1]) > deleter.blkno)
    <2>1. files' = Tail(files) /\ minblk' = files[2].start /\ nextblk' = nextblk
          /\ deleter' = [deleter EXCEPT !.pc = "unlink", !.fileno = files[1].start]
      BY Zenon, <1>2 DEF DeleteCheck, ElasticDelete
    <2>2. L \in Nat /\ L >= 2 /\ files # <<>> /\ files \in Seq(FileState)
      BY <1>2 DEF TypeQ
    <2>3. /\ files' \in Seq(FileState) /\ Len(files') = L - 1 /\ files' # <<>>
          /\ \A i \in 1 .. L - 1 : files'[i] = files[i + 1]
      <3>1. Tail(files) \in Seq(FileState) /\ Len(Tail(files)) = L - 1
            /\ \A i \in 1 .. Len(Tail(files)) : Tail(files)[i] = files[i + 1]
        BY <2>2
      <3>2. Tail(files) # <<>>
        BY <2>2, <3>1
      <3> QED
        BY Zenon, <2>1, <3>1, <3>2
    <2>4. 1 \in 1 .. L /\ 2 \in 1 .. L /\ 1 \in 1 .. L - 1
          /\ \A i \in 1 .. L - 1 : i + 1 \in 1 .. L /\ i + 1 > 1
      BY <2>2
    <2>5. Last(files') = Last(files)
      BY <2>2, <2>3, <2>4 DEF Last
    <2>6. files[1].start \in Nat /\ files[2].start \in Nat /\ files[1].start < files[2].start
      <3>1. files[1].start \in Nat /\ files[2].start \in Nat
        BY Zenon, <2>2, <2>4, QueueFacts
      <3> QED
        BY <2>4, <3>1 DEF Sorted
    <2>7. TypeQ'
      BY Zenon, <1>0, <2>1, <2>3, <2>6 DEF TypeQ, IsDir
    <2>8. StorageInvariants'
      <3>1. minblk' = files'[1].start
        BY <2>1, <2>3, <2>4
      <3>2. nextblk' = End(Last(files'))
        BY Zenon, <2>1, <2>2, <2>5 DEF StorageInvariants
      <3>3. \A i \in 1 .. L - 2 : End(files'[i]) = files'[i + 1].start
        <4>1. \A i \in 1 .. L - 2 : i \in 1 .. L - 1 /\ i + 1 \in 1 .. L - 1
          BY <2>2
        <4> QED
          BY Zenon, <2>3, <4>1 DEF StorageInvariants
      <3> QED
        BY <2>2, <2>3, <3>1, <3>2, <3>3 DEF StorageInvariants, End
    <2>9. Sorted'
      <3>1. \A i, j \in 1 .. L - 1 : i < j => files[i + 1].start < files[j + 1].start
        BY <2>2, <2>4 DEF Sorted
      <3> QED
        BY Zenon, <2>3, <3>1 DEF Sorted
    <2>10. FilesOnDisk'
      <3> SUFFICES ASSUME NEW i \in 1 .. L - 1
                   PROVE  LET f == files'[i].start IN
                          \/ f \in DOMAIN fs /\ Len(fs[f].data) >= files'[i].len
                          \/ i = L - 1 /\ writer.pc = "creat" /\ writer.fnum = f
        BY Zenon, <1>0, <2>3 DEF FilesOnDisk
      <3>1. files'[i] = files[i + 1] /\ i + 1 \in 1 .. L
        BY Zenon, <2>3, <2>4
      <3> QED
        BY <2>2, <3>1 DEF FilesOnDisk
    <2>11. WriterOK'
      BY Zenon, <1>0, <2>1, <2>3, <2>5 DEF WriterOK
    <2>12. DeleterOK' /\ NotRunning'
      <3>1. proc = "up"
        BY Zenon, <2>2 DEF NotRunning
      <3>2. deleter'.fileno = files[1].start
        BY Zenon, <2>1 DEF TypeQ
      <3> QED
        BY Zenon, <1>0, <2>1, <2>6, <3>1, <3>2 DEF DeleterOK, NotRunning
    <2> QED
      BY Zenon, <2>7, <2>8, <2>9, <2>10, <2>11, <2>12
  <1> QED
    BY Zenon, <1>1, <1>2

\* storage_delete outside the lock: the file it unlinks is in nobody's way.
LEMMA QueueInvDeleteFile ==
    ASSUME SetFacts, QueueInv, (\E b \in 0 .. MaxBlk + FreeBeyond : DeleteBegin(b))
                     \/ DeleteUnlink \/ DeleteSyncDir
    PROVE  QueueInv'
  <1> USE DEF QueueInv
  <1>0. UNCHANGED <<proc, files, minblk, nextblk, writer, appends>>
    BY Zenon DEF DeleteBegin, DeleteUnlink, DeleteSyncDir, queue, ghosts
  <1>1. StorageInvariants' /\ Sorted'
    BY Zenon, <1>0 DEF StorageInvariants, Sorted
  <1>2. CASE \E b \in 0 .. MaxBlk + FreeBeyond : DeleteBegin(b)
    <2>1. PICK b \in 0 .. MaxBlk + FreeBeyond : DeleteBegin(b)
      BY Zenon, <1>2
    <2>2. b \in Nat /\ UNCHANGED <<fs, disk>> /\ proc = "up"
          /\ deleter' = [pc |-> "check", blkno |-> b, fileno |-> 0]
      BY <2>1, LbsStorageAssumption DEF DeleteBegin, dirs
    <2> QED
      BY <1>0, <1>1, <2>2 DEF TypeQ, NotRunning, FilesOnDisk, WriterOK, DeleterOK, IsDir
  <1>3. CASE DeleteUnlink
    <2>1. /\ deleter.pc = "unlink" /\ Unlink(deleter.fileno) /\ deleter.fileno < minblk
          /\ deleter' = [deleter EXCEPT !.pc = "syncdir"]
          /\ deleter.fileno \in Nat /\ proc = "up"
      BY <1>3 DEF DeleteUnlink, DeleterOK, TypeQ, NotRunning, IdleDeleter
    <2>2. IsDir(fs)' /\ \A dir \in disk' : IsDir(dir)
      BY Zenon, <2>1, SyncDirs DEF TypeQ
    <2>3. \A f \in DOMAIN fs : f # deleter.fileno => f \in DOMAIN fs' /\ fs'[f] = fs[f]
      BY Zenon, <2>1 DEF Unlink, Keep
    <2>4. \A i \in 1 .. Len(files) : files[i].start # deleter.fileno
      BY <2>1, QueueFacts DEF TypeQ
    <2>5. TypeQ'
      BY Zenon, <1>0, <2>1, <2>2 DEF TypeQ
    <2>6. FilesOnDisk'
      BY Zenon, <1>0, <2>3, <2>4 DEF FilesOnDisk
    <2>7. WriterOK'
      <3>1. files # <<>> => Last(files).start # deleter.fileno
        BY <2>4, QueueFacts
      <3> QED
        BY Zenon, <1>0, <2>3, <3>1 DEF WriterOK
    <2> QED
      BY Zenon, <1>0, <1>1, <2>1, <2>5, <2>6, <2>7 DEF NotRunning, DeleterOK, TypeQ
  <1>4. CASE DeleteSyncDir
    <2>1. SyncDir /\ fs' = fs /\ deleter.pc = "syncdir" /\ proc = "up"
          /\ deleter' = [deleter EXCEPT !.pc = "check"]
      BY <1>4 DEF DeleteSyncDir, SyncDir, NotRunning, IdleDeleter
    <2>2. IsDir(fs)' /\ \A dir \in disk' : IsDir(dir)
      BY Zenon, <2>1, SyncDirs DEF TypeQ
    <2> QED
      BY <1>0, <1>1, <2>1, <2>2 DEF TypeQ, NotRunning, FilesOnDisk, WriterOK, DeleterOK
  <1> QED
    BY Zenon, <1>2, <1>3, <1>4

\* The daemon stops: only the files matter.
LEMMA QueueInvDown ==
    ASSUME SetFacts, QueueInv, Down, UNCHANGED appends,
           TornWrite \/ (fs' \in disk /\ disk' = {fs'})
    PROVE  QueueInv'
  <1> USE DEF QueueInv
  <1>1. IsDir(fs)' /\ \A dir \in disk' : IsDir(dir)
    <2>1. CASE fs' \in disk /\ disk' = {fs'}
      BY Zenon, <2>1 DEF TypeQ, IsDir
    <2>2. CASE UNCHANGED dirs
      BY Zenon, <2>2 DEF TypeQ, IsDir, dirs
    <2>3. CASE TornWrite /\ ~UNCHANGED dirs
      <3> DEFINE rec == [fs[writer.fnum] EXCEPT !.torn = TRUE]
      <3>1. writer.pc = "write" /\ writer.fnum \in DOMAIN fs /\ writer.fnum \in Nat
            /\ PutFile(writer.fnum, rec, rec)
        BY Zenon, <2>3 DEF TornWrite, WriterOK, TypeQ
      <3>2. fs[writer.fnum] \in FileRec
        BY Zenon, <3>1 DEF TypeQ, IsDir
      <3>3. rec \in FileRec
        BY Zenon, <3>2 DEF FileRec
      <3> QED
        BY Zenon, <3>1, <3>3, PutFileDirs DEF TypeQ
    <2> QED
      BY Zenon, <2>1, <2>2, <2>3 DEF TornWrite
  <1>2. Len(files') = 0 /\ files' \in Seq(FileState)
    BY DEF Down
  <1> QED
    BY <1>1, <1>2 DEF Down, TypeQ, StorageInvariants, Sorted, NotRunning, FilesOnDisk,
                      WriterOK, DeleterOK, IdleWriter, IdleDeleter, NoBlock

\* Every step of the threads, of a crash and of storage_init keeps QueueInv.
LEMMA QueueInvNext == ASSUME SetFacts PROVE QueueInv /\ [Next]_vars => QueueInv'
  <1> SUFFICES ASSUME QueueInv, [Next]_vars PROVE QueueInv'
    BY Zenon
  <1>1. CASE StorageInit
    BY Zenon, <1>1, QueueInvStorageInit
  <1>2. CASE \E n \in 1 .. MaxAppend : WriteBegin(n)
    BY Zenon, <1>2, QueueInvWriteBegin
  <1>3. CASE Write
    BY Zenon, <1>3, QueueInvWriteFile, QueueInvWriteCommit DEF Write
  <1>4. CASE \E b \in 0 .. MaxBlk + FreeBeyond : DeleteBegin(b)
    BY Zenon, <1>4, QueueInvDeleteFile
  <1>5. CASE Delete
    BY Zenon, <1>5, QueueInvDeleteCheck, QueueInvDeleteFile DEF Delete
  <1>6. CASE UNCHANGED <<proc, queue, writer, deleter, dirs, ghosts>>
    BY <1>6 DEF queue, dirs, ghosts, QueueInv, TypeQ, StorageInvariants, Sorted, NotRunning,
                FilesOnDisk, WriterOK, DeleterOK, IsDir
  <1>7. CASE \E r \in Readers, b \in 0 .. MaxBlk : ReadLookup(r, b)
    BY Zenon, <1>6, <1>7 DEF ReadLookup
  <1>8. CASE \E r \in Readers : Read(r)
    <2>1. PICK r \in Readers : Read(r)
      BY Zenon, <1>8
    <2>2. CASE ReadError(r)
      BY Zenon, <2>2, QueueInvDown DEF ReadError
    <2>3. CASE ~ReadError(r)
      BY Zenon, <1>6, <2>1, <2>3 DEF Read, ReadPath, ReadBlock, ReadReturn
    <2> QED
      BY Zenon, <2>2, <2>3
  <1>9. CASE Kill \/ PowerLoss
    BY Zenon, <1>9, QueueInvDown DEF Kill, PowerLoss
  <1>10. CASE UNCHANGED vars
    BY Zenon, <1>6, <1>10 DEF vars
  <1> QED
    BY <1>1, <1>2, <1>3, <1>4, <1>5, <1>7, <1>8, <1>9, <1>10 DEF Next

-----------------------------------------------------------------------------
(***************************************************************************)
(* storage_read reads fs->start twice after it has released the lock,      *)
(* while the deleter may unlink the file, move the records of the queue in *)
(* their array, and free the array.  For any number of readers, blocks,    *)
(* files and crashes it never returns another block than it was asked for. *)
(*                                                                         *)
(* The inductive invariant.  What the pointer shows is the number of the   *)
(* file that the lookup found, or one past the block: records only move    *)
(* towards the front of the array, so a slot is only ever overwritten by   *)
(* the number of a later file.  With such a number the offset is negative. *)
(***************************************************************************)
ReaderRec ==
    [pc: {"idle", "path", "open", "done", "error"}, blkno: Nat, slot: Nat,
     start: Nat, dangling: BOOLEAN, path: Nat \cup {Garbage}, want: Nat, got: Nat]

\* The records of the queue are in the array, from the slot after qoff on.
MemOK ==
    /\ mem \in Seq(Nat) /\ qoff \in Nat /\ qoff + Len(files) <= Len(mem)
    /\ \A i \in 1 .. Len(files) : mem[qoff + i] = files[i].start

\* What the pointer of a reader e shows, if the memory it points to is still there.
Sees(e, m) == IF e.dangling THEN e.start ELSE m[e.slot]

\* The block that e wants, as long as the file s is there.
Kept(e, s, dir) ==
    s \in DOMAIN dir =>
        /\ e.blkno - s + 1 \in DOMAIN dir[s].data
        /\ dir[s].data[e.blkno - s + 1] = e.want

\* The records of files up to the block are not behind the slot that e points to.
Reached(e, q, o) == \A i \in 1 .. Len(q) : q[i].start <= e.blkno => o + i <= e.slot

\* e looked its block up in the file s.
From(e, s, m, dir) ==
    /\ s <= e.blkno /\ Kept(e, s, dir)
    /\ Sees(e, m) = s \/ Sees(e, m) > e.blkno
    /\ e.pc = "open" => \/ e.path = s \/ e.path = Garbage
                        \/ e.path > e.blkno /\ Sees(e, m) > e.blkno

Points(e, q, m, o, n, dir) ==
    /\ e.blkno < n /\ e.slot \in 1 .. Len(m) /\ Reached(e, q, o)
    /\ \E s \in Nat : From(e, s, m, dir)

ReadersOK ==
    /\ reader \in [Readers -> ReaderRec]
    /\ \A r \in Readers : HoldsPointer(r) => Points(reader[r], files, mem, qoff, nextblk, fs)
    /\ proc # "up" => \A r \in Readers : reader[r] = IdleReader

ReadInv == QueueInv /\ MemOK /\ ReadersOK /\ ReadsRightBlock

-----------------------------------------------------------------------------
(* Readers that wait while the others work.                                *)

\* A reader that does nothing still points to its block when the queue, the array
\* and the directory change the way they do.
LEMMA PointsKept ==
    ASSUME NEW e \in ReaderRec, NEW f \in ReaderRec,
           NEW q, NEW m \in Seq(Nat), NEW o, NEW n \in Nat, NEW dir,
           NEW q2, NEW m2 \in Seq(Nat), NEW o2, NEW n2 \in Nat, NEW dir2,
           Points(e, q, m, o, n, dir),
           f.blkno = e.blkno, f.slot = e.slot, f.want = e.want, f.pc = e.pc, f.path = e.path,
           n <= n2, Len(m) <= Len(m2), Reached(e, q2, o2),
           Sees(f, m2) = Sees(e, m) \/ Sees(f, m2) > e.blkno,
           \A s \in Nat : s <= e.blkno /\ Kept(e, s, dir) => Kept(e, s, dir2)
    PROVE  Points(f, q2, m2, o2, n2, dir2)
  <1>1. /\ e.blkno \in Nat /\ e.slot \in Nat /\ Len(m) \in Nat /\ Len(m2) \in Nat
    BY DEF ReaderRec
  <1>2. f.blkno < n2 /\ f.slot \in 1 .. Len(m2)
    BY <1>1 DEF Points
  <1>3. Reached(f, q2, o2)
    BY Zenon DEF Reached
  <1>4. PICK s \in Nat : From(e, s, m, dir)
    BY Zenon DEF Points
  <1>5. Kept(f, s, dir2)
    <2>1. Kept(e, s, dir2)
      BY Zenon, <1>4 DEF From
    <2> QED
      BY Zenon, <2>1 DEF Kept
  <1>6. From(f, s, m2, dir2)
    <2> DEFINE x == Sees(e, m)
               y == Sees(f, m2)
    <2>1. /\ s <= e.blkno /\ (x = s \/ x > e.blkno) /\ (y = x \/ y > e.blkno)
          /\ e.pc = "open" => \/ e.path = s \/ e.path = Garbage
                              \/ e.path > e.blkno /\ x > e.blkno
      BY Zenon, <1>4 DEF From
    <2> HIDE DEF x, y
    <2>2. /\ y = s \/ y > e.blkno
          /\ e.pc = "open" => \/ e.path = s \/ e.path = Garbage
                              \/ e.path > e.blkno /\ y > e.blkno
      BY ONLY <2>1
    <2> QED
      BY <1>5, <2>1, <2>2 DEF From, y
  <1> QED
    BY Zenon, <1>2, <1>3, <1>6 DEF Points

\* No reader moves, and files keep what they hold.
LEMMA ReadersWait ==
    ASSUME ReadInv, QueueInv', UNCHANGED <<proc, mem, qoff, reader>>,
           nextblk <= nextblk', Len(files') = Len(files),
           \A i \in 1 .. Len(files) : files'[i].start = files[i].start,
           \A e \in ReaderRec : \A s \in Nat :
              s <= e.blkno /\ e.blkno < nextblk /\ Kept(e, s, fs) => Kept(e, s, fs')
    PROVE  ReadInv'
  <1>1. MemOK'
    BY Zenon DEF ReadInv, MemOK
  <1>2. /\ nextblk \in Nat /\ nextblk' \in Nat /\ mem \in Seq(Nat)
        /\ reader \in [Readers -> ReaderRec]
    BY DEF ReadInv, MemOK, ReadersOK, QueueInv, TypeQ
  <1>3. ASSUME NEW r \in Readers, HoldsPointer(r)
        PROVE  Points(reader[r], files', mem, qoff, nextblk', fs')
    <2>1. Points(reader[r], files, mem, qoff, nextblk, fs) /\ reader[r] \in ReaderRec
      BY Zenon, <1>2, <1>3 DEF ReadInv, ReadersOK
    <2>2. reader[r].blkno < nextblk /\ Reached(reader[r], files, qoff)
      BY Zenon, <2>1 DEF Points
    <2>3. Reached(reader[r], files', qoff)
      BY Zenon, <2>2 DEF Reached
    <2>4. \A s \in Nat : s <= reader[r].blkno /\ Kept(reader[r], s, fs) => Kept(reader[r], s, fs')
      BY Zenon, <2>1, <2>2
    <2>5. Len(mem) <= Len(mem)
      BY <1>2
    <2> QED
      BY ONLY <1>2, <2>1, <2>3, <2>4, <2>5, nextblk <= nextblk', PointsKept
  <1>4. ReadersOK'
    BY Zenon, <1>2, <1>3 DEF ReadInv, ReadersOK, HoldsPointer
  <1>5. ReadsRightBlock'
    BY Zenon DEF ReadInv, ReadsRightBlock
  <1> QED
    BY <1>1, <1>4, <1>5 DEF ReadInv

\* resize: realloc may free the array that readers point to.
LEMMA ResizeReaders ==
    ASSUME reader \in [Readers -> ReaderRec], NEW n, NEW left, Resize(n, left),
           \A r \in Readers : HoldsPointer(r) => left[reader[r].slot] \in Nat
    PROVE  /\ reader' \in [Readers -> ReaderRec]
           /\ \A r \in Readers :
                 /\ reader'[r].blkno = reader[r].blkno /\ reader'[r].slot = reader[r].slot
                 /\ reader'[r].want = reader[r].want /\ reader'[r].pc = reader[r].pc
                 /\ reader'[r].path = reader[r].path /\ reader'[r].got = reader[r].got
                 /\ \/ reader'[r] = reader[r]
                    \/ /\ HoldsPointer(r) /\ ~reader[r].dangling
                       /\ reader'[r].dangling /\ reader'[r].start = left[reader[r].slot]
  <1>1. PICK moved \in BOOLEAN :
          reader' = [r \in Readers |->
              IF moved /\ HoldsPointer(r) /\ ~reader[r].dangling
              THEN [reader[r] EXCEPT !.dangling = TRUE, !.start = left[reader[r].slot]]
              ELSE reader[r]]
    BY Zenon DEF Resize
  <1>3. ASSUME NEW r \in Readers, moved /\ HoldsPointer(r) /\ ~reader[r].dangling
        PROVE  reader'[r] = [reader[r] EXCEPT !.dangling = TRUE, !.start = left[reader[r].slot]]
    BY Zenon, <1>1, <1>3
  <1>4. ASSUME NEW r \in Readers, ~(moved /\ HoldsPointer(r) /\ ~reader[r].dangling)
        PROVE  reader'[r] = reader[r]
    BY Zenon, <1>1, <1>4
  <1>5. \A r \in Readers : reader[r] \in ReaderRec
    BY Zenon
  <1>6. ASSUME NEW r \in Readers
        PROVE  /\ reader'[r] \in ReaderRec
               /\ reader'[r].blkno = reader[r].blkno /\ reader'[r].slot = reader[r].slot
               /\ reader'[r].want = reader[r].want /\ reader'[r].pc = reader[r].pc
               /\ reader'[r].path = reader[r].path /\ reader'[r].got = reader[r].got
               /\ \/ reader'[r] = reader[r]
                  \/ /\ HoldsPointer(r) /\ ~reader[r].dangling
                     /\ reader'[r].dangling /\ reader'[r].start = left[reader[r].slot]
    <2>1. CASE moved /\ HoldsPointer(r) /\ ~reader[r].dangling
      <3>1. left[reader[r].slot] \in Nat
        BY Zenon, <2>1
      <3>2. reader'[r] = [reader[r] EXCEPT !.dangling = TRUE, !.start = left[reader[r].slot]]
        BY Zenon, <1>3, <2>1
      <3>3. reader[r] \in ReaderRec
        BY Zenon, <1>5
      <3>4. /\ reader'[r] \in ReaderRec
            /\ reader'[r].blkno = reader[r].blkno /\ reader'[r].slot = reader[r].slot
            /\ reader'[r].want = reader[r].want /\ reader'[r].pc = reader[r].pc
            /\ reader'[r].path = reader[r].path /\ reader'[r].got = reader[r].got
            /\ reader'[r].dangling = TRUE /\ reader'[r].start = left[reader[r].slot]
        <4> DEFINE e == reader[r]
                   x == left[reader[r].slot]
                   f == reader'[r]
        <4>1. e \in ReaderRec /\ x \in Nat /\ f = [e EXCEPT !.dangling = TRUE, !.start = x]
          BY ONLY <3>1, <3>2, <3>3
        <4> HIDE DEF e, x, f
        <4>2. /\ f \in ReaderRec /\ f.blkno = e.blkno /\ f.slot = e.slot /\ f.want = e.want
              /\ f.pc = e.pc /\ f.path = e.path /\ f.got = e.got
              /\ f.dangling = TRUE /\ f.start = x
          BY ONLY Zenon, <4>1 DEF ReaderRec
        <4> QED
          BY ONLY <4>2 DEF e, x, f
      <3> QED
        BY Zenon, <2>1, <3>4
    <2>2. CASE ~(moved /\ HoldsPointer(r) /\ ~reader[r].dangling)
      BY <1>4, <1>5, <2>2
    <2> QED
      BY Zenon, <2>1, <2>2
  <1>7. reader' \in [Readers -> ReaderRec]
    <2>1. \E F : reader' = [r \in Readers |-> F[r]]
      <3>1. reader' = [r \in Readers |-> reader'[r]]
        BY Zenon, <1>1
      <3> QED
        BY Zenon, <3>1
    <2> QED
      BY <1>6, <2>1
  <1> QED
    BY ONLY <1>6, <1>7

\* The array is changed by the writer or the deleter: every slot keeps its number, or
\* gets that of a file past the blocks that are being read there.
LEMMA ReadersPushed ==
    ASSUME ReadInv, QueueInv', MemOK', NEW n, NEW left, Resize(n, left) \/ UNCHANGED reader,
           UNCHANGED <<proc, nextblk, fs>>, Len(mem) <= Len(mem'),
           \A r \in Readers : HoldsPointer(r) =>
              /\ Reached(reader[r], files', qoff')
              /\ left[reader[r].slot] \in Nat
              /\ \A x \in {left[reader[r].slot], mem'[reader[r].slot]} :
                    x = mem[reader[r].slot] \/ x > reader[r].blkno
    PROVE  ReadInv'
  <1>1. /\ nextblk \in Nat /\ mem \in Seq(Nat) /\ mem' \in Seq(Nat)
        /\ reader \in [Readers -> ReaderRec]
    BY Zenon DEF ReadInv, MemOK, ReadersOK, QueueInv, TypeQ
  <1>2. /\ reader' \in [Readers -> ReaderRec]
        /\ \A r \in Readers :
              /\ reader'[r].blkno = reader[r].blkno /\ reader'[r].slot = reader[r].slot
              /\ reader'[r].want = reader[r].want /\ reader'[r].pc = reader[r].pc
              /\ reader'[r].path = reader[r].path /\ reader'[r].got = reader[r].got
              /\ \/ reader'[r] = reader[r]
                 \/ /\ HoldsPointer(r) /\ ~reader[r].dangling
                    /\ reader'[r].dangling /\ reader'[r].start = left[reader[r].slot]
    <2>1. CASE UNCHANGED reader
      BY <1>1, <2>1
    <2>2. CASE Resize(n, left)
      BY <1>1, <2>2, ResizeReaders
    <2> QED
      BY <2>1, <2>2
  <1>3. ASSUME NEW r \in Readers, HoldsPointer(r)
        PROVE  Points(reader'[r], files', mem', qoff', nextblk, fs)
    <2>1. /\ Points(reader[r], files, mem, qoff, nextblk, fs)
          /\ reader[r] \in ReaderRec /\ reader'[r] \in ReaderRec
      BY <1>1, <1>2, <1>3 DEF ReadInv, ReadersOK
    <2>2. /\ reader'[r].blkno = reader[r].blkno /\ reader'[r].slot = reader[r].slot
          /\ reader'[r].want = reader[r].want /\ reader'[r].pc = reader[r].pc
          /\ reader'[r].path = reader[r].path
          /\ \/ reader'[r] = reader[r]
             \/ /\ ~reader[r].dangling
                /\ reader'[r].dangling /\ reader'[r].start = left[reader[r].slot]
      BY Zenon, <1>2
    <2>3. \A x \in {left[reader[r].slot], mem'[reader[r].slot]} :
             x = mem[reader[r].slot] \/ x > reader[r].blkno
      BY <1>3
    <2>4. Sees(reader'[r], mem') = Sees(reader[r], mem) \/ Sees(reader'[r], mem') > reader[r].blkno
      BY ONLY <2>2, <2>3 DEF Sees
    <2>5. \A s \in Nat : s <= reader[r].blkno /\ Kept(reader[r], s, fs) => Kept(reader[r], s, fs)
      BY Zenon
    <2>6. nextblk <= nextblk /\ Reached(reader[r], files', qoff')
      BY <1>1, <1>3
    <2> QED
      BY ONLY Zenon, <1>1, <2>1, <2>2, <2>4, <2>5, <2>6, Len(mem) <= Len(mem'), PointsKept
  <1>4. proc # "up" => \A r \in Readers : reader'[r] = IdleReader
    BY <1>2 DEF ReadInv, ReadersOK, HoldsPointer, IdleReader
  <1>5. ReadersOK'
    <2>1. \A r \in Readers : HoldsPointer(r)' => HoldsPointer(r)
      BY Zenon, <1>2 DEF HoldsPointer
    <2> QED
      BY Zenon, <1>2, <1>3, <1>4, <2>1 DEF ReadersOK
  <1>6. ReadsRightBlock'
    BY <1>2 DEF ReadInv, ReadsRightBlock
  <1> QED
    BY <1>5, <1>6 DEF ReadInv

-----------------------------------------------------------------------------
(* The steps of the daemon.                                                *)

\* At first nobody reads.
LEMMA ReadInvInit == ASSUME SetFacts PROVE Init => ReadInv
  <1> SUFFICES ASSUME Init PROVE ReadInv
    BY Zenon
  <1>1. QueueInv
    BY Zenon, QueueInvInit
  <1>2. files = <<>> /\ mem = <<>> /\ qoff = 0 /\ reader = [r \in Readers |-> IdleReader]
    BY Zenon DEF Init
  <1>3. MemOK
    BY <1>2 DEF MemOK
  <1>4. IdleReader \in ReaderRec /\ IdleReader.pc = "idle" /\ IdleReader.got = NoBlock
    BY Zenon DEF IdleReader, ReaderRec, NoBlock
  <1>5. ReadersOK
    BY <1>2, <1>4 DEF ReadersOK, HoldsPointer
  <1>6. ReadsRightBlock
    BY Zenon, <1>2, <1>4 DEF ReadsRightBlock
  <1> QED
    BY Zenon, <1>1, <1>3, <1>5, <1>6 DEF ReadInv

\* The daemon dies, and its readers with it.
LEMMA ReadInvDown == ASSUME QueueInv', Down PROVE ReadInv'
  <1>2. files' = <<>> /\ mem' = <<>> /\ qoff' = 0 /\ reader' = [r \in Readers |-> IdleReader]
    BY Zenon DEF Down
  <1>3. MemOK'
    BY <1>2 DEF MemOK
  <1>4. IdleReader \in ReaderRec /\ IdleReader.pc = "idle" /\ IdleReader.got = NoBlock
    BY Zenon DEF IdleReader, ReaderRec, NoBlock
  <1>5. ReadersOK'
    BY Zenon, <1>2, <1>4 DEF ReadersOK, HoldsPointer
  <1>6. ReadsRightBlock'
    BY Zenon, <1>2, <1>4 DEF ReadsRightBlock
  <1> QED
    BY Zenon, <1>3, <1>5, <1>6 DEF ReadInv

\* storage_init fills the array with the files that it finds.
LEMMA ReadInvStorageInit == ASSUME SetFacts, ReadInv, QueueInv', StorageInit PROVE ReadInv'
  <1>1. reader' = reader /\ qoff' = 0 /\ \A r \in Readers : reader[r] = IdleReader
    BY Zenon DEF StorageInit, ReadInv, ReadersOK
  <1>2. IdleReader.pc = "idle" /\ IdleReader.got = NoBlock
    BY Zenon DEF IdleReader
  <1>3. ReadersOK' /\ ReadsRightBlock'
    BY Zenon, <1>1, <1>2 DEF ReadInv, ReadersOK, ReadsRightBlock, HoldsPointer
  <1>4. MemOK'
    <2>1. PICK q \in [1 .. Cardinality(DOMAIN fs) -> DOMAIN fs] :
            \/ /\ files' = [i \in DOMAIN q |-> [start |-> q[i], len |-> Len(fs[q[i]].data)]]
               /\ mem' = q
            \/ files' = files /\ mem' = mem
      BY Zenon DEF StorageInit
    <2>2. CASE /\ files' = [i \in DOMAIN q |-> [start |-> q[i], len |-> Len(fs[q[i]].data)]]
               /\ mem' = q
      <3> DEFINE C == Cardinality(DOMAIN fs)
      <3>1. C \in Nat /\ DOMAIN fs \subseteq Nat
        BY Zenon DEF ReadInv, QueueInv, TypeQ, IsDir, SetFacts, FiniteSize
      <3> HIDE DEF C
      <3>2. q \in [1 .. C -> Nat] /\ DOMAIN q = 1 .. C
        BY Zenon, <2>1, <3>1 DEF C
      <3>3. q \in Seq(Nat) /\ Len(q) = C
        BY Zenon, <3>1, <3>2, FunIsSeq
      <3>4. DOMAIN files' = 1 .. C /\ \A i \in 1 .. C : files'[i].start = q[i]
        BY Zenon, <2>2, <3>2
      <3>5. Len(files') = C
        <4>1. files' \in Seq(FileState)
          BY Zenon DEF QueueInv, TypeQ
        <4>2. Len(files') \in Nat /\ DOMAIN files' = 1 .. Len(files')
          BY <4>1
        <4> QED
          BY <3>1, <3>4, <4>2
      <3>6. \A i \in 1 .. Len(files') : qoff' + i = i /\ mem'[i] = files'[i].start
        <4>1. mem' = q /\ qoff' = 0
          BY Zenon, <1>1, <2>2
        <4> QED
          BY ONLY <3>1, <3>4, <3>5, <4>1
      <3>7. qoff' \in Nat /\ qoff' + Len(files') <= Len(mem') /\ mem' \in Seq(Nat)
        <4>1. mem' = q /\ qoff' = 0
          BY Zenon, <1>1, <2>2
        <4> QED
          BY ONLY <3>1, <3>3, <3>5, <4>1
      <3> QED
        BY ONLY Zenon, <3>6, <3>7 DEF MemOK
    <2>3. CASE files' = files /\ mem' = mem
      <3>1. files = <<>> /\ mem \in Seq(Nat)
        BY Zenon DEF StorageInit, ReadInv, QueueInv, NotRunning, MemOK
      <3> QED
        BY <1>1, <2>3, <3>1 DEF MemOK
    <2> QED
      BY <2>1, <2>2, <2>3
  <1> QED
    BY Zenon, <1>3, <1>4 DEF ReadInv

\* storage_write adds a file at the end of the queue: its number is past every block
\* that is being read.
LEMMA ReadInvWriteBegin ==
    ASSUME ReadInv, QueueInv', NEW n \in 1 .. MaxAppend, WriteBegin(n)
    PROVE  ReadInv'
  <1>1. UNCHANGED <<proc, nextblk, fs>>
    BY Zenon DEF WriteBegin, dirs
  <1>2. /\ nextblk \in Nat /\ mem \in Seq(Nat) /\ Len(mem) \in Nat /\ qoff \in Nat
        /\ files \in Seq(FileState) /\ Len(files) \in Nat
        /\ reader \in [Readers -> ReaderRec]
        /\ qoff + Len(files) <= Len(mem)
        /\ \A i \in 1 .. Len(files) : mem[qoff + i] = files[i].start
    <2>1. nextblk \in Nat /\ files \in Seq(FileState)
      BY Zenon DEF ReadInv, QueueInv, TypeQ
    <2>2. MemOK /\ reader \in [Readers -> ReaderRec]
      BY Zenon DEF ReadInv, ReadersOK
    <2> QED
      BY <2>1, <2>2 DEF MemOK
  <1>3. CASE ~NewFile(n)
    <2>1. UNCHANGED <<files, mem, qoff, reader>>
      BY Zenon, <1>3 DEF WriteBegin
    <2> QED
      BY <1>1, <1>2, <2>1, ReadersWait
  <1>4. CASE NewFile(n)
    <2> DEFINE L == Len(files)
               slot == qoff + L + 1
               K == IF slot > Len(mem) THEN slot ELSE Len(mem)
    <2>1. /\ files' = Append(files, [start |-> nextblk, len |-> 0])
          /\ mem' = [s \in 1 .. K |-> IF s = slot THEN nextblk ELSE mem[s]]
          /\ Resize(slot, mem) /\ qoff' = qoff
      BY <1>4 DEF WriteBegin, ElasticAdd
    <2>2. /\ Len(files') = L + 1 /\ files'[L + 1].start = nextblk
          /\ \A i \in 1 .. L : files'[i] = files[i]
      <3>1. [start |-> nextblk, len |-> 0] \in FileState
        BY Zenon, <1>2 DEF FileState
      <3> QED
        BY <1>2, <2>1, <3>1
    <2>3. L \in Nat /\ K \in Nat /\ slot \in 1 .. K /\ Len(mem) <= K
      BY <1>2
    <2>4. /\ mem' \in Seq(Nat) /\ Len(mem') = K
          /\ \A s \in 1 .. K : mem'[s] = IF s = slot THEN nextblk ELSE mem[s]
      <3> HIDE DEF K, slot
      <3>1. \A s \in 1 .. K : s # slot => s \in 1 .. Len(mem)
        <4> DEFINE P == qoff + L
                   M == Len(mem)
        <4>1. P \in Nat /\ M \in Nat /\ P <= M
          BY <1>2
        <4>2. slot = P + 1 /\ K = IF slot > M THEN slot ELSE M
          BY Zenon DEF slot, K
        <4> HIDE DEF P, M
        <4>3. \A s \in 1 .. K : s # slot => s \in 1 .. M
          BY ONLY <4>1, <4>2
        <4> QED
          BY Zenon, <4>3 DEF M
      <3>2. \A s \in 1 .. Len(mem) : mem[s] \in Nat
        BY <1>2
      <3>3. mem' \in [1 .. K -> Nat]
        BY <1>2, <2>1, <3>1, <3>2
      <3> QED
        BY <2>1, <2>3, <3>3, FunIsSeq
    <2>5. MemOK'
      <3>1. qoff + (L + 1) <= K /\ (L + 1) \in 1 .. L + 1
        BY <1>2, <2>3
      <3>2. \A i \in 1 .. L + 1 : mem'[qoff + i] = files'[i].start
        <4> SUFFICES ASSUME NEW i \in 1 .. L + 1 PROVE mem'[qoff + i] = files'[i].start
          BY Zenon
        <4>1. qoff + i \in 1 .. K
          BY <1>2, <2>3, <3>1
        <4>2. CASE i = L + 1
          <5>1. qoff + i = slot
            BY <1>2, <4>2
          <5>2. files'[i].start = nextblk
            BY Zenon, <2>2, <4>2
          <5> HIDE DEF slot, K, L
          <5>3. mem'[slot] = nextblk
            BY Zenon, <2>3, <2>4
          <5> QED
            BY ONLY <5>1, <5>2, <5>3
        <4>3. CASE i # L + 1
          <5>0. L \in Nat /\ qoff \in Nat /\ slot = qoff + L + 1
            BY Zenon, <1>2
          <5> HIDE DEF L, slot
          <5>1. qoff + i # slot /\ i \in 1 .. L
            BY ONLY <4>3, <5>0, i \in 1 .. L + 1
          <5>2. mem[qoff + i] = files[i].start
            BY Zenon, <1>2, <5>1 DEF L
          <5> HIDE DEF slot, K
          <5> QED
            BY <2>2, <2>4, <4>1, <5>1, <5>2
        <4> QED
          BY <4>2, <4>3
      <3> HIDE DEF K, slot
      <3> QED
        BY Zenon, <1>2, <2>1, <2>2, <2>4, <3>1, <3>2 DEF MemOK
    <2>6. ASSUME NEW r \in Readers, HoldsPointer(r)
          PROVE  /\ Reached(reader[r], files', qoff')
                 /\ mem[reader[r].slot] \in Nat
                 /\ mem'[reader[r].slot] = mem[reader[r].slot]
                    \/ mem'[reader[r].slot] > reader[r].blkno
      <3>1. /\ reader[r].blkno < nextblk /\ reader[r].slot \in 1 .. Len(mem)
            /\ Reached(reader[r], files, qoff) /\ reader[r].blkno \in Nat
        BY Zenon, <1>2, <2>6 DEF ReadInv, ReadersOK, Points, ReaderRec
      <3>2. Reached(reader[r], files', qoff')
        <4> SUFFICES ASSUME NEW i \in 1 .. L + 1, files'[i].start <= reader[r].blkno
                     PROVE  qoff + i <= reader[r].slot
          BY <2>1, <2>2 DEF Reached
        <4>1. i # L + 1
          BY <1>2, <2>2, <3>1
        <4>2. i \in 1 .. L
          BY <1>2, <4>1
        <4> QED
          BY <2>2, <3>1, <4>2 DEF Reached
      <3>3. mem[reader[r].slot] \in Nat
        BY <1>2, <3>1
      <3>4. reader[r].slot \in 1 .. K
        BY <1>2, <2>3, <3>1
      <3> HIDE DEF K, slot
      <3>5. mem'[reader[r].slot] = nextblk \/ mem'[reader[r].slot] = mem[reader[r].slot]
        BY <2>4, <3>4
      <3> QED
        BY <1>2, <3>1, <3>2, <3>3, <3>5
    <2>7. Len(mem) <= Len(mem')
      BY <2>3, <2>4
    <2> HIDE DEF slot, K, L
    <2>8. \A r \in Readers : HoldsPointer(r) =>
             /\ Reached(reader[r], files', qoff')
             /\ mem[reader[r].slot] \in Nat
             /\ \A x \in {mem[reader[r].slot], mem'[reader[r].slot]} :
                   x = mem[reader[r].slot] \/ x > reader[r].blkno
      BY <2>6
    <2>9. Resize(slot, mem)
      BY <2>1
    <2> QED
      BY <1>1, <2>5, <2>7, <2>8, <2>9, ReadersPushed
  <1> QED
    BY Zenon, <1>3, <1>4

\* The writer extends the last file, or creates one past every block that is read.
LEMMA ReadInvWrite == ASSUME ReadInv, QueueInv', Write PROVE ReadInv'
  <1>1. /\ UNCHANGED <<proc, mem, qoff, reader>>
        /\ writer.pc # "idle"
    BY DEF Write, WriteCreat, WriteBlock, WriteFsync, WriteSyncDir, WriteCommit, queue
  <1>2. /\ files # <<>> /\ nextblk \in Nat /\ writer.fnum \in Nat /\ writer.n \in Nat /\ IsDir(fs)
        /\ files \in Seq(FileState)
        /\ writer.pc = "creat" => writer.fnum = nextblk
        /\ writer.pc # "creat" => writer.fnum \in DOMAIN fs
    BY <1>1 DEF ReadInv, QueueInv, WriterOK, TypeQ
  <1>3. CASE WriteCommit
    <2>1. fs' = fs /\ nextblk' = nextblk + writer.n
          /\ files' = [files EXCEPT ![Len(files)].len = @ + writer.n]
      BY <1>3 DEF WriteCommit, dirs
    <2>2. /\ Len(files') = Len(files)
          /\ \A i \in 1 .. Len(files) : files'[i].start = files[i].start
      <3> DEFINE L == Len(files)
                 x == [files[L] EXCEPT !.len = @ + writer.n]
      <3>1. L \in Nat /\ DOMAIN files = 1 .. L /\ L \in 1 .. L
            /\ \A i \in 1 .. L : files[i] \in FileState
        BY <1>2
      <3>2. x.start = files[L].start /\ x \in FileState
        <4> DEFINE old == files[L]
        <4>1. old \in FileState /\ x = [old EXCEPT !.len = @ + writer.n]
          BY <3>1
        <4> HIDE DEF old, x
        <4>2. x.start = old.start /\ x \in FileState
          <5>1. writer.n \in Nat
            BY <1>2
          <5> QED
            BY ONLY <4>1, <5>1 DEF FileState
        <4> QED
          BY <4>2 DEF old
      <3>3. files' = [files EXCEPT ![L] = x]
        BY <2>1
      <3> HIDE DEF x
      <3>4. /\ DOMAIN files' = 1 .. L
            /\ \A i \in 1 .. L : files'[i] = IF i = L THEN x ELSE files[i]
        BY <3>1, <3>3
      <3>5. Len(files') \in Nat /\ DOMAIN files' = 1 .. Len(files')
        BY DEF QueueInv, TypeQ
      <3> HIDE DEF L
      <3>6. Len(files') = L
        BY ONLY <3>1, <3>4, <3>5
      <3>7. \A i \in 1 .. L : files'[i].start = files[i].start
        BY ONLY <3>2, <3>4
      <3> QED
        BY <3>6, <3>7 DEF L
    <2>3. nextblk <= nextblk'
      BY <1>2, <2>1
    <2> QED
      BY ONLY ReadInv, QueueInv', <1>1, <2>1, <2>2, <2>3, ReadersWait
  <1>4. CASE ~WriteCommit
    <2>1. files' = files /\ nextblk' = nextblk /\ nextblk <= nextblk
      BY <1>2, <1>4 DEF Write, WriteCreat, WriteBlock, WriteFsync, WriteSyncDir, queue
    <2>2. ASSUME NEW e \in ReaderRec, NEW s \in Nat,
                 s <= e.blkno, e.blkno < nextblk, Kept(e, s, fs)
          PROVE  Kept(e, s, fs')
      <3>1. e.blkno \in Nat
        BY Zenon DEF ReaderRec
      <3>2. CASE fs' = fs
        BY <2>2, <3>2
      <3>3. CASE WriteCreat
        <4>1. fs' = Put(fs, writer.fnum, EmptyFile) /\ writer.fnum = nextblk
          BY Zenon, <1>2, <3>3 DEF WriteCreat, PutFile
        <4>2. s # writer.fnum
          BY <1>2, <2>2, <3>1, <4>1
        <4> QED
          BY <2>2, <4>1, <4>2 DEF Kept, Put
      <3>4. CASE WriteBlock
        <4> DEFINE file == fs[writer.fnum]
                   rec == [file EXCEPT !.data = Append(@, writer.id)]
        <4>1. fs' = Put(fs, writer.fnum, rec) /\ writer.fnum \in DOMAIN fs
          BY <1>2, <3>4 DEF WriteBlock, PutFile
        <4>2. file \in FileRec /\ writer.id \in Nat
          BY <1>2, <4>1 DEF IsDir, ReadInv, QueueInv, TypeQ
        <4>3. /\ DOMAIN file.data \subseteq DOMAIN rec.data
              /\ \A k \in DOMAIN file.data : rec.data[k] = file.data[k]
          <5>1. rec.data = Append(file.data, writer.id) /\ file.data \in Seq(Nat)
            BY Zenon, <4>2, FileRecExcept
          <5> HIDE DEF rec, file
          <5> QED
            BY <4>2, <5>1
        <4> HIDE DEF rec, file
        <4>4. CASE s = writer.fnum
          <5>1. fs'[s] = rec /\ fs[s] = file
            BY <4>1, <4>4 DEF Put, file
          <5> QED
            BY Zenon, <2>2, <4>1, <4>3, <4>4, <5>1 DEF Kept
        <4>5. CASE s # writer.fnum
          BY <2>2, <4>1, <4>5 DEF Kept, Put
        <4> QED
          BY <4>4, <4>5
      <3> QED
        BY Zenon, <1>4, <3>2, <3>3, <3>4 DEF Write, WriteFsync, WriteSyncDir, Fsync, SyncDir
    <2>3. \A e \in ReaderRec : \A s \in Nat :
             s <= e.blkno /\ e.blkno < nextblk /\ Kept(e, s, fs) => Kept(e, s, fs')
      BY Zenon, <2>2
    <2> QED
      BY ONLY ReadInv, QueueInv', <1>1, <2>1, <2>3, ReadersWait
  <1> QED
    BY Zenon, <1>3, <1>4

\* The deleter unlinks a file that is not in the queue any more.
LEMMA ReadInvDeleteFile ==
    ASSUME ReadInv, QueueInv',
           (\E b \in 0 .. MaxBlk + FreeBeyond : DeleteBegin(b)) \/ DeleteUnlink \/ DeleteSyncDir
    PROVE  ReadInv'
  <1>1. UNCHANGED <<proc, files, mem, qoff, nextblk, reader>>
    BY Zenon DEF DeleteBegin, DeleteUnlink, DeleteSyncDir, queue
  <1>2. fs' = fs \/ \E f : fs' = Keep(fs, DOMAIN fs \ {f})
    BY Zenon DEF DeleteBegin, DeleteUnlink, DeleteSyncDir, dirs, SyncDir, Unlink
  <1>3. \A e \in ReaderRec : \A s \in Nat :
           s <= e.blkno /\ e.blkno < nextblk /\ Kept(e, s, fs) => Kept(e, s, fs')
    BY Zenon, <1>2 DEF Kept, Keep
  <1>4. nextblk <= nextblk'
    BY <1>1 DEF ReadInv, QueueInv, TypeQ
  <1> QED
    BY <1>1, <1>3, <1>4, ReadersWait

\* elasticqueue_delete steps over the head, and may move the records to the front.
LEMMA ReadInvDeleteCheck == ASSUME ReadInv, QueueInv', DeleteCheck PROVE ReadInv'
  <1> DEFINE L == Len(files)
             M == Len(mem)
  <1>1. UNCHANGED <<proc, fs, nextblk>>
    BY Zenon DEF DeleteCheck, dirs, queue
  <1>2. /\ nextblk \in Nat /\ L \in Nat /\ M \in Nat /\ mem \in Seq(Nat) /\ qoff \in Nat
        /\ files \in Seq(FileState) /\ reader \in [Readers -> ReaderRec] /\ qoff + L <= M
        /\ \A i \in 1 .. L : mem[qoff + i] = files[i].start
    <2>1. nextblk \in Nat /\ files \in Seq(FileState)
      BY Zenon DEF ReadInv, QueueInv, TypeQ
    <2>2. MemOK /\ reader \in [Readers -> ReaderRec]
      BY Zenon DEF ReadInv, ReadersOK
    <2> QED
      BY <2>1, <2>2 DEF MemOK
  <1>3. CASE L < 2 \/ End(files[1]) > deleter.blkno
    <2>1. UNCHANGED <<files, mem, qoff, reader>>
      BY Zenon, <1>3 DEF DeleteCheck, queue
    <2> QED
      BY <1>1, <1>2, <2>1, ReadersWait
  <1>4. CASE ~(L < 2 \/ End(files[1]) > deleter.blkno)
    <2> DEFINE n == L - 1
               o == qoff + 1
    <2>1. /\ files' = Tail(files)
          /\ IF o > n
             THEN /\ mem' = [s \in 1 .. M |-> IF s <= n THEN mem[s + o] ELSE mem[s]]
                  /\ Resize(n, mem') /\ qoff' = 0
             ELSE qoff' = o /\ mem' = mem /\ reader' = reader
      BY Zenon, <1>4 DEF DeleteCheck, ElasticDelete
    <2>2. /\ n \in Nat /\ o \in Nat /\ o + n <= M /\ L = n + 1
          /\ \A i \in 1 .. n : i + 1 \in 1 .. L /\ qoff + (i + 1) = i + o /\ i + o \in 1 .. M
      <3>1. L \in Nat /\ L >= 2 /\ qoff \in Nat /\ M \in Nat /\ qoff + L <= M
        BY <1>2, <1>4
      <3> HIDE DEF L, M
      <3> QED
        BY ONLY <3>1 DEF n, o
    <2>3. Len(files') = n /\ \A i \in 1 .. n : files'[i] = files[i + 1]
      BY <1>2, <1>4, <2>1
    <2>4. \A i \in 1 .. n : mem[i + o] = files'[i].start
      <3>1. \A i \in 1 .. n : mem[qoff + (i + 1)] = files[i + 1].start
        BY Zenon, <1>2, <2>2
      <3> QED
        BY Zenon, <2>2, <2>3, <3>1
    <2>5. ASSUME NEW r \in Readers, HoldsPointer(r)
          PROVE  /\ reader[r].slot \in 1 .. M /\ reader[r].blkno \in Nat
                 /\ \A i \in 1 .. n : files'[i].start <= reader[r].blkno => i + o <= reader[r].slot
      <3>1. /\ reader[r].slot \in 1 .. M /\ Reached(reader[r], files, qoff)
            /\ reader[r].blkno \in Nat
        BY <1>2, <2>5 DEF ReadInv, ReadersOK, Points, ReaderRec
      <3>2. ASSUME NEW i \in 1 .. n, files'[i].start <= reader[r].blkno
            PROVE  i + o <= reader[r].slot
        <4>1. files[i + 1].start <= reader[r].blkno /\ i + 1 \in 1 .. L
          BY Zenon, <2>2, <2>3, <3>2
        <4>2. qoff + (i + 1) <= reader[r].slot
          BY Zenon, <3>1, <4>1 DEF Reached
        <4> QED
          BY Zenon, <2>2, <4>2
      <3> QED
        BY Zenon, <3>1, <3>2
    <2>6. \A s \in 1 .. M : mem[s] \in Nat
      BY <1>2
    <2> HIDE DEF n, o, L, M
    <2>7. CASE o > n
      <3>1. /\ mem' \in Seq(Nat) /\ Len(mem') = M
            /\ \A s \in 1 .. M : mem'[s] = IF s <= n THEN mem[s + o] ELSE mem[s]
        <4>1. \A s \in 1 .. M : s <= n => s + o \in 1 .. M
          BY <2>2
        <4>2. mem' \in [1 .. M -> Nat]
          BY <2>1, <2>6, <2>7, <4>1
        <4> QED
          BY <1>2, <2>1, <2>7, <4>2, FunIsSeq
      <3>2. \A i \in 1 .. n : i \in 1 .. M /\ i <= n
        BY <1>2, <2>2
      <3>3. \A i \in 1 .. n : mem'[i] = files'[i].start
        BY <2>4, <3>1, <3>2
      <3>4. MemOK'
        <4>1. n <= M /\ qoff' = 0 /\ \A i \in 1 .. n : 0 + i = i
          BY <1>2, <2>1, <2>2, <2>7
        <4> QED
          BY <2>3, <3>1, <3>3, <4>1 DEF MemOK
      <3>5. ASSUME NEW r \in Readers, HoldsPointer(r)
            PROVE  /\ Reached(reader[r], files', qoff') /\ mem'[reader[r].slot] \in Nat
                   /\ mem'[reader[r].slot] = mem[reader[r].slot]
                      \/ mem'[reader[r].slot] > reader[r].blkno
        <4> DEFINE s == reader[r].slot
                   b == reader[r].blkno
        <4>1. /\ s \in 1 .. M /\ b \in Nat
              /\ \A i \in 1 .. n : files'[i].start <= b => i + o <= s
          BY <2>5, <3>5
        <4> HIDE DEF s, b
        <4>2. \A i \in 1 .. n : files'[i].start <= b => 0 + i <= s
          <5>1. \A i \in 1 .. n : i + o <= s => 0 + i <= s
            BY ONLY <2>2, <4>1
          <5> QED
            BY ONLY <4>1, <5>1
        <4>3. mem'[s] \in Nat
          BY <3>1, <4>1
        <4>4. mem'[s] = mem[s] \/ mem'[s] > b
          <5>1. CASE s <= n
            <6>1. s \in 1 .. n /\ mem'[s] = files'[s].start
              BY <2>2, <3>3, <4>1, <5>1
            <6>2. ~(s + o <= s)
              BY <1>2, <2>2, <4>1 DEF o
            <6> QED
              BY <4>1, <4>3, <6>1, <6>2
          <5>2. CASE ~(s <= n)
            BY <3>1, <4>1, <5>2
          <5> QED
            BY Zenon, <5>1, <5>2
        <4> QED
          BY <2>1, <2>3, <2>7, <4>2, <4>3, <4>4 DEF Reached, s, b
      <3>6. Resize(n, mem') /\ Len(mem) <= Len(mem')
        BY <1>2, <2>1, <2>7, <3>1 DEF M
      <3>7. \A r \in Readers : HoldsPointer(r) =>
              /\ Reached(reader[r], files', qoff') /\ mem'[reader[r].slot] \in Nat
              /\ \A x \in {mem'[reader[r].slot], mem'[reader[r].slot]} :
                    x = mem[reader[r].slot] \/ x > reader[r].blkno
        BY ONLY <3>5
      <3> QED
        BY ONLY ReadInv, QueueInv', <1>1, <3>4, <3>6, <3>7, ReadersPushed
    <2>8. CASE ~(o > n)
      <3>1. qoff' = o /\ mem' = mem /\ reader' = reader
        BY Zenon, <2>1, <2>8
      <3>2. MemOK'
        <4>1. \A i \in 1 .. n : o + i = i + o
          BY <2>2
        <4> QED
          BY Zenon, <1>2, <2>2, <2>3, <2>4, <3>1, <4>1 DEF MemOK, M
      <3>3. ASSUME NEW r \in Readers, HoldsPointer(r)
            PROVE  /\ Reached(reader[r], files', qoff') /\ mem[reader[r].slot] \in Nat
                   /\ \A x \in {mem[reader[r].slot], mem'[reader[r].slot]} :
                         x = mem[reader[r].slot] \/ x > reader[r].blkno
        <4>1. /\ reader[r].slot \in 1 .. M
              /\ \A i \in 1 .. n : files'[i].start <= reader[r].blkno => i + o <= reader[r].slot
          BY <2>5, <3>3
        <4>2. \A i \in 1 .. n : o + i = i + o
          BY <2>2
        <4>3. Reached(reader[r], files', qoff')
          BY ONLY <2>3, <3>1, <4>1, <4>2 DEF Reached
        <4> QED
          BY ONLY <2>6, <3>1, <4>1, <4>3
      <3>4. Len(mem) <= Len(mem')
        BY <1>2, <3>1 DEF M
      <3>5. \A r \in Readers : HoldsPointer(r) =>
              /\ Reached(reader[r], files', qoff') /\ mem[reader[r].slot] \in Nat
              /\ \A x \in {mem[reader[r].slot], mem'[reader[r].slot]} :
                    x = mem[reader[r].slot] \/ x > reader[r].blkno
        BY ONLY <3>3
      <3>6. UNCHANGED reader
        BY Zenon, <3>1
      <3> QED
        BY ONLY ReadInv, QueueInv', <1>1, <3>2, <3>4, <3>5, <3>6, ReadersPushed
    <2> QED
      BY Zenon, <2>7, <2>8
  <1> QED
    BY Zenon, <1>3, <1>4

-----------------------------------------------------------------------------
(* The steps of a reader.                                                  *)

\* The loop of storage_read stops at the file that has the block, and no file behind
\* it starts before the block.
LEMMA FileFound ==
    ASSUME SetFacts, QueueInv, NEW b \in Nat, Held(b)
    PROVE  /\ FileIndex(b) \in 1 .. Len(files)
           /\ files[FileIndex(b)].start <= b /\ b < End(files[FileIndex(b)])
           /\ \A j \in 1 .. Len(files) : files[j].start <= b => j <= FileIndex(b)
  <1> DEFINE L == Len(files)
             E(k) == files[k].start + files[k].len
             T == {k \in 1 .. L : b < E(k)}
  <1>1. files # <<>> /\ minblk <= b /\ b < nextblk /\ minblk = files[1].start
    BY DEF Held, QueueInv, StorageInvariants
  <1>2. /\ L \in Nat /\ L >= 1 /\ nextblk = E(L)
        /\ \A k \in 1 .. L : files[k].start \in Nat /\ E(k) \in Nat
    BY <1>1, QueueFacts
  <1>3. /\ \A k \in 1 .. L - 1 : E(k) = files[k + 1].start
        /\ \A j, k \in 1 .. L : j < k => files[j].start < files[k].start
    BY Zenon DEF QueueInv, StorageInvariants, Sorted, End
  <1>4. \A k : E(k) = End(files[k])
    BY Zenon DEF End
  <1> HIDE DEF E
  <1>5. PICK m \in T : \A k \in T : m <= k
    <2>1. T \in SUBSET Nat /\ L \in T
      BY <1>1, <1>2
    <2> HIDE DEF T
    <2> QED
      BY ONLY SetFacts, <2>1, Zenon DEF SetFacts, LeastNatural
  <1>6. m \in 1 .. L /\ b < E(m) /\ \A j \in 1 .. m - 1 : b >= E(j)
    <2>1. m \in 1 .. L /\ b < E(m)
      BY Zenon, <1>5
    <2>2. \A j \in 1 .. m - 1 : j \in 1 .. L /\ ~(m <= j)
      BY ONLY <1>2, <2>1
    <2>3. \A j \in 1 .. m - 1 : ~(b < E(j))
      BY <1>5, <2>2
    <2>4. \A j \in 1 .. m - 1 : E(j) \in Nat
      BY <1>2, <2>2
    <2> QED
      BY <2>1, <2>3, <2>4
  <1> DEFINE i == FileIndex(b)
  <1>7. i \in 1 .. L /\ b < E(i) /\ \A j \in 1 .. i - 1 : b >= E(j)
    BY <1>4, <1>6, Zenon DEF FileIndex
  <1> HIDE DEF i, L
  <1>8. files[i].start <= b
    <2>1. CASE i = 1
      BY <1>1, <2>1
    <2>2. CASE i # 1
      <3>1. i - 1 \in 1 .. L - 1 /\ i - 1 \in 1 .. i - 1 /\ i - 1 + 1 = i
        BY ONLY <1>2, <1>7, <2>2
      <3>2. b >= E(i - 1) /\ E(i - 1) = files[i].start
        BY <1>3, <1>7, <3>1
      <3> QED
        BY <1>2, <1>7, <3>2
    <2> QED
      BY <2>1, <2>2
  <1>9. ASSUME NEW j \in 1 .. L, files[j].start <= b
        PROVE  j <= i
    <2>1. SUFFICES ASSUME ~(j <= i) PROVE FALSE
      BY Zenon
    <2>2. i \in 1 .. L - 1 /\ i + 1 \in 1 .. L /\ (j = i + 1 \/ i + 1 < j)
      BY ONLY <1>2, <1>7, <2>1, j \in 1 .. L
    <2>3. files[i + 1].start = E(i) /\ (j = i + 1 \/ files[i + 1].start < files[j].start)
      BY <1>3, <2>2
    <2>4. E(i) \in Nat /\ files[j].start \in Nat
      BY <1>2, <1>7
    <2> QED
      BY ONLY b \in Nat, <1>7, <1>9, <2>3, <2>4
  <1> QED
    BY <1>4, <1>7, <1>8, <1>9 DEF i, L

\* What a step of one reader must keep of it.
LEMMA ReaderStep ==
    ASSUME ReadInv, QueueInv', NEW r \in Readers, NEW e \in ReaderRec,
           reader' = [reader EXCEPT ![r] = e], UNCHANGED <<proc, queue, fs>>,
           proc = "up" \/ e = IdleReader,
           e.pc \in {"path", "open"} => Points(e, files, mem, qoff, nextblk, fs),
           e.got # NoBlock => e.got = e.want
    PROVE  ReadInv'
  <1>1. /\ UNCHANGED <<proc, files, mem, qoff, nextblk, fs>>
        /\ reader \in [Readers -> ReaderRec]
    BY Zenon DEF queue, ReadInv, ReadersOK
  <1>2. /\ reader' \in [Readers -> ReaderRec] /\ reader'[r] = e
        /\ \A x \in Readers : x # r => reader'[x] = reader[x]
    BY Zenon, <1>1
  <1>3. MemOK'
    BY Zenon, <1>1 DEF ReadInv, MemOK
  <1>4. ReadsRightBlock'
    BY Zenon, <1>2 DEF ReadInv, ReadsRightBlock
  <1>5. ASSUME NEW x \in Readers, HoldsPointer(x)'
        PROVE  Points(reader[x], files, mem, qoff, nextblk, fs)'
    <2>1. CASE x = r
      BY <1>1, <1>2, <1>5, <2>1 DEF HoldsPointer
    <2>2. CASE x # r
      <3>1. HoldsPointer(x) /\ reader'[x] = reader[x]
        BY <1>2, <1>5, <2>2 DEF HoldsPointer
      <3>2. Points(reader[x], files, mem, qoff, nextblk, fs)
        BY Zenon, <3>1 DEF ReadInv, ReadersOK
      <3> QED
        BY <1>1, <3>1, <3>2
    <2> QED
      BY Zenon, <2>1, <2>2
  <1>6. proc' # "up" => \A x \in Readers : reader'[x] = IdleReader
    BY <1>1, <1>2 DEF ReadInv, ReadersOK
  <1> QED
    BY <1>2, <1>3, <1>4, <1>5, <1>6 DEF ReadInv, ReadersOK

\* storage_read under its lock: the pointer is to the record of the block's file.
LEMMA ReadInvLookup ==
    ASSUME SetFacts, ReadInv, QueueInv', NEW r \in Readers, NEW b \in 0 .. MaxBlk,
           ReadLookup(r, b)
    PROVE  ReadInv'
  <1>1. /\ proc = "up" /\ UNCHANGED <<proc, queue, fs>> /\ b \in Nat
        /\ reader' = [reader EXCEPT ![r] =
              IF Held(b)
              THEN [IdleReader EXCEPT !.pc = "path", !.blkno = b, !.want = BlockAt(b),
                                      !.slot = qoff + FileIndex(b)]
              ELSE [IdleReader EXCEPT !.pc = "done", !.blkno = b]]
    BY LbsStorageAssumption DEF ReadLookup, dirs
  <1>2. CASE ~Held(b)
    <2> DEFINE e == [IdleReader EXCEPT !.pc = "done", !.blkno = b]
    <2>1. e \in ReaderRec /\ e.pc = "done" /\ e.got = NoBlock
      BY Zenon, <1>1 DEF IdleReader, ReaderRec, NoBlock
    <2>2. reader' = [reader EXCEPT ![r] = e]
      BY <1>1, <1>2
    <2> HIDE DEF e
    <2> QED
      BY Zenon, <1>1, <2>1, <2>2, ReaderStep
  <1>3. CASE Held(b)
    <2> DEFINE i == FileIndex(b)
               f == files[i].start
               e == [IdleReader EXCEPT !.pc = "path", !.blkno = b, !.want = BlockAt(b),
                                       !.slot = qoff + i]
    <2>1. /\ i \in 1 .. Len(files) /\ f <= b /\ b < f + files[i].len
          /\ \A j \in 1 .. Len(files) : files[j].start <= b => j <= i
      BY <1>1, <1>3, FileFound DEF ReadInv, End
    <2>2. /\ files # <<>> /\ Len(files) \in Nat /\ nextblk \in Nat /\ b < nextblk
          /\ f \in Nat /\ files[i].len \in Nat /\ IsDir(fs)
      <3>1. files # <<>> /\ nextblk \in Nat /\ IsDir(fs) /\ b < nextblk
        BY <1>3, <2>1 DEF ReadInv, QueueInv, TypeQ, Held
      <3> QED
        BY <2>1, <3>1, QueueFacts DEF ReadInv
    <2>3. f \in DOMAIN fs /\ Len(fs[f].data) >= files[i].len
      <3>1. \/ f \in DOMAIN fs /\ Len(fs[f].data) >= files[i].len
            \/ writer.pc = "creat" /\ writer.fnum = f
        BY <2>1 DEF ReadInv, QueueInv, FilesOnDisk
      <3>2. writer.pc = "creat" => writer.fnum = nextblk
        BY DEF ReadInv, QueueInv, WriterOK
      <3>3. f # nextblk
        BY <1>1, <2>1, <2>2
      <3> QED
        BY <3>1, <3>2, <3>3
    <2>4. fs[f] \in FileRec
      BY <2>2, <2>3 DEF IsDir
    <2>5. fs[f].data \in Seq(Nat)
      BY Zenon, <2>4, FileRecExcept
    <2> DEFINE d == fs[f].data
               pos == b - f + 1
    <2>6. BlockAt(b) = d[pos]
      BY DEF BlockAt
    <2>7. /\ qoff \in Nat /\ qoff + Len(files) <= Len(mem) /\ mem \in Seq(Nat)
          /\ mem[qoff + i] = f
      BY <2>1 DEF ReadInv, MemOK
    <2> HIDE DEF i, f, d, pos
    <2>8. pos \in 1 .. Len(d) /\ DOMAIN d = 1 .. Len(d) /\ d[pos] \in Nat
      <3>1. d \in Seq(Nat) /\ Len(d) >= files[i].len
        BY <2>3, <2>5 DEF d
      <3>2. pos \in 1 .. Len(d)
        BY <1>1, <2>1, <2>2, <3>1 DEF pos
      <3> QED
        BY <3>1, <3>2
    <2>9. qoff + i \in 1 .. Len(mem) /\ qoff + i \in Nat
      BY <2>1, <2>2, <2>7
    <2>10. /\ e \in ReaderRec /\ e.pc = "path" /\ e.got = NoBlock /\ e.blkno = b
           /\ e.slot = qoff + i /\ e.want = d[pos] /\ e.dangling = FALSE
      BY Zenon, <1>1, <2>6, <2>8, <2>9 DEF IdleReader, ReaderRec, NoBlock
    <2>11. reader' = [reader EXCEPT ![r] = e]
      BY <1>1, <1>3 DEF i
    <2> HIDE DEF e
    <2>12. Reached(e, files, qoff)
      <3>1. \A j \in 1 .. Len(files) : j <= i => qoff + j <= qoff + i
        BY ONLY <2>1, <2>2, <2>7
      <3> QED
        BY ONLY <2>1, <2>10, <3>1 DEF Reached
    <2>13. From(e, f, mem, fs)
      <3>1. Kept(e, f, fs)
        BY <2>8, <2>10 DEF Kept, d, pos
      <3>2. Sees(e, mem) = f
        BY <2>7, <2>10 DEF Sees
      <3> QED
        BY <2>1, <2>10, <3>1, <3>2 DEF From
    <2>14. Points(e, files, mem, qoff, nextblk, fs)
      BY <2>2, <2>9, <2>10, <2>12, <2>13 DEF Points
    <2> QED
      BY ONLY Zenon, ReadInv, QueueInv', r \in Readers, <1>1, <2>10, <2>11, <2>14, ReaderStep
  <1> QED
    BY <1>2, <1>3

\* What the pointer of a reader may be found to hold when it is used.
LEMMA DerefSees ==
    ASSUME NEW r \in Readers, NEW start \in Deref(r)
    PROVE  start = Sees(reader[r], mem) \/ start = Garbage
  BY DEF Deref, Sees

\* A reader at work is a reader of a running daemon.
LEMMA ReaderUp ==
    ASSUME ReadInv, NEW r \in Readers, reader[r].pc # "idle"
    PROVE  proc = "up"
  <1>1. IdleReader.pc = "idle"
    BY DEF IdleReader
  <1> QED
    BY <1>1 DEF ReadInv, ReadersOK

\* storage_read makes the path of the file from what the pointer shows.
LEMMA ReadInvPath ==
    ASSUME ReadInv, QueueInv', NEW r \in Readers, ReadPath(r)
    PROVE  ReadInv'
  <1> DEFINE x == reader[r]
  <1>1. x \in ReaderRec /\ x.pc = "path" /\ Points(x, files, mem, qoff, nextblk, fs)
    BY DEF ReadPath, ReadInv, ReadersOK, HoldsPointer
  <1>2. PICK start \in Deref(r) : reader' = [reader EXCEPT ![r].pc = "open", ![r].path = start]
    BY Zenon DEF ReadPath
  <1>3. UNCHANGED <<proc, queue, fs>> /\ proc = "up" /\ mem \in Seq(Nat)
    BY <1>1, ReaderUp DEF ReadPath, dirs, ReadInv, MemOK
  <1>4. start = Sees(x, mem) \/ start = Garbage
    BY DerefSees
  <1> DEFINE e == [x EXCEPT !.pc = "open", !.path = start]
  <1>5. reader' = [reader EXCEPT ![r] = e]
    BY Zenon, <1>2 DEF ReadInv, ReadersOK
  <1>6. PICK s \in Nat : From(x, s, mem, fs)
    BY <1>1 DEF Points
  <1>7. x.got # NoBlock => x.got = x.want
    BY DEF ReadInv, ReadsRightBlock
  <1> HIDE DEF x
  <1>8. Sees(x, mem) \in Nat
    <2>1. x.slot \in 1 .. Len(mem)
      BY <1>1 DEF Points
    <2> QED
      BY <1>1, <1>3, <2>1 DEF Sees, ReaderRec
  <1>9. /\ e \in ReaderRec /\ e.pc = "open" /\ e.path = start /\ e.blkno = x.blkno
        /\ e.slot = x.slot /\ e.want = x.want /\ e.got = x.got
        /\ e.start = x.start /\ e.dangling = x.dangling
    <2>1. start \in Nat \cup {Garbage}
      BY <1>4, <1>8
    <2> QED
      BY ONLY Zenon, <1>1, <2>1 DEF ReaderRec
  <1> HIDE DEF e
  <1>10. Sees(e, mem) = Sees(x, mem)
    BY <1>9 DEF Sees
  <1>11. From(e, s, mem, fs)
    BY <1>4, <1>6, <1>9, <1>10 DEF From, Kept
  <1>12. Points(e, files, mem, qoff, nextblk, fs)
    BY <1>1, <1>9, <1>11 DEF Points, Reached
  <1> QED
    BY ONLY Zenon, ReadInv, QueueInv', r \in Readers, <1>3, <1>5, <1>7, <1>9, <1>12, ReaderStep

\* disk_read finds the block that was asked for, or no file, or fails.
LEMMA ReadInvBlock ==
    ASSUME ReadInv, QueueInv', NEW r \in Readers, ReadBlock(r)
    PROVE  ReadInv'
  <1> DEFINE x == reader[r]
  <1>1. x \in ReaderRec /\ x.pc = "open" /\ Points(x, files, mem, qoff, nextblk, fs)
    BY DEF ReadBlock, ReadInv, ReadersOK, HoldsPointer
  <1>2. PICK start \in Deref(r) :
          LET path == x.path
              pos == x.blkno - start + 1 IN
          reader' = [reader EXCEPT ![r] =
              IF path \notin DOMAIN fs
              THEN [x EXCEPT !.pc = "done"]
              ELSE IF pos \in DOMAIN fs[path].data /\ start # Garbage
                   THEN [x EXCEPT !.pc = "done", !.got = fs[path].data[pos]]
                   ELSE [x EXCEPT !.pc = "error"]]
    BY Zenon DEF ReadBlock, ReadOffset
  <1>3. UNCHANGED <<proc, queue, fs>> /\ proc = "up" /\ mem \in Seq(Nat) /\ IsDir(fs)
    BY Zenon, <1>1, ReaderUp DEF ReadBlock, dirs, ReadInv, MemOK, QueueInv, TypeQ
  <1>4. start = Sees(x, mem) \/ start = Garbage
    BY Zenon, DerefSees
  <1>5. PICK s \in Nat : From(x, s, mem, fs)
    BY Zenon, <1>1 DEF Points
  <1>6. x.got # NoBlock => x.got = x.want
    BY Zenon DEF ReadInv, ReadsRightBlock
  <1> HIDE DEF x
  <1> DEFINE pos == x.blkno - start + 1
             d == fs[x.path].data
  <1>7. CASE x.path \in DOMAIN fs /\ pos \in DOMAIN d /\ start # Garbage
    <2> DEFINE e == [x EXCEPT !.pc = "done", !.got = d[pos]]
    <2>1. reader' = [reader EXCEPT ![r] = e]
      BY Zenon, <1>2, <1>7
    <2>2. d \in Seq(Nat) /\ x.path \in Nat
      <3>1. fs[x.path] \in FileRec /\ x.path \in Nat
        BY Zenon, <1>3, <1>7 DEF IsDir
      <3> QED
        BY Zenon, <3>1, FileRecExcept
    <2>3. /\ x.blkno \in Nat /\ start = Sees(x, mem) /\ x.path # Garbage
          /\ Sees(x, mem) = s \/ Sees(x, mem) > x.blkno
          /\ x.path = s \/ (x.path > x.blkno /\ Sees(x, mem) > x.blkno)
      <3>1. x.path # Garbage
        BY <2>2 DEF Garbage
      <3> QED
        BY <1>1, <1>4, <1>5, <1>7, <3>1 DEF From, ReaderRec
    <2>4. start \in Nat
      <3>1. x.slot \in 1 .. Len(mem)
        BY Zenon, <1>1 DEF Points
      <3> QED
        BY <1>1, <1>3, <2>3, <3>1 DEF Sees, ReaderRec
    <2>5. ~(start > x.blkno)
      <3>1. pos \in 1 .. Len(d) /\ Len(d) \in Nat
        BY <1>7, <2>2
      <3> HIDE DEF d
      <3> QED
        BY ONLY <2>3, <2>4, <3>1 DEF pos
    <2>6. x.path = s /\ start = s
      BY Zenon, <2>3, <2>5
    <2>7. d[pos] = x.want
      BY <1>5, <1>7, <2>6 DEF From, Kept
    <2>8. d[pos] \in Nat
      BY <1>7, <2>2
    <2> HIDE DEF d, pos
    <2>9. e \in ReaderRec /\ e.pc = "done" /\ e.got = e.want
      BY ONLY Zenon, <1>1, <2>7, <2>8 DEF ReaderRec
    <2> HIDE DEF e
    <2> QED
      BY ONLY Zenon, ReadInv, QueueInv', r \in Readers, <1>3, <2>1, <2>9, ReaderStep
  <1>8. CASE ~(x.path \in DOMAIN fs /\ pos \in DOMAIN d /\ start # Garbage)
    <2>1. PICK pc \in {"done", "error"} : reader' = [reader EXCEPT ![r] = [x EXCEPT !.pc = pc]]
      BY Zenon, <1>2, <1>8
    <2> DEFINE e == [x EXCEPT !.pc = pc]
    <2>2. e \in ReaderRec /\ e.pc \in {"done", "error"} /\ e.got = x.got /\ e.want = x.want
      BY ONLY <1>1, pc \in {"done", "error"} DEF ReaderRec
    <2>3. reader' = [reader EXCEPT ![r] = e]
      BY Zenon, <2>1
    <2> HIDE DEF e
    <2> QED
      BY ONLY Zenon, ReadInv, QueueInv', r \in Readers, <1>3, <1>6, <2>2, <2>3, ReaderStep
  <1> QED
    BY Zenon, <1>7, <1>8

\* The thread waits for more work.
LEMMA ReadInvReturn ==
    ASSUME ReadInv, QueueInv', NEW r \in Readers, ReadReturn(r)
    PROVE  ReadInv'
  <1>1. IdleReader \in ReaderRec /\ IdleReader.pc = "idle" /\ IdleReader.got = NoBlock
    BY Zenon DEF IdleReader, ReaderRec, NoBlock
  <1>2. reader' = [reader EXCEPT ![r] = IdleReader] /\ UNCHANGED <<proc, queue, fs>>
    BY Zenon DEF ReadReturn, dirs
  <1> QED
    BY ONLY Zenon, ReadInv, QueueInv', r \in Readers, <1>1, <1>2, ReaderStep

-----------------------------------------------------------------------------
(* Every step.                                                             *)

\* Every step of the threads, and every crash, preserves the inductive invariant.
LEMMA ReadInvNext == ASSUME SetFacts PROVE ReadInv /\ [Next]_vars => ReadInv'
  <1> SUFFICES ASSUME ReadInv, [Next]_vars PROVE ReadInv'
    BY Zenon
  <1>0. QueueInv'
    BY Zenon, QueueInvNext DEF ReadInv
  <1>1. CASE StorageInit
    BY <1>0, <1>1, ReadInvStorageInit
  <1>2. CASE \E n \in 1 .. MaxAppend : WriteBegin(n)
    BY <1>0, <1>2, ReadInvWriteBegin
  <1>3. CASE Write
    BY <1>0, <1>3, ReadInvWrite
  <1>4. CASE \E b \in 0 .. MaxBlk + FreeBeyond : DeleteBegin(b)
    BY <1>0, <1>4, ReadInvDeleteFile
  <1>5. CASE Delete
    BY <1>0, <1>5, ReadInvDeleteCheck, ReadInvDeleteFile DEF Delete
  <1>6. CASE \E r \in Readers, b \in 0 .. MaxBlk : ReadLookup(r, b)
    BY <1>0, <1>6, ReadInvLookup
  <1>7. CASE \E r \in Readers : Read(r)
    <2>1. PICK r \in Readers : Read(r)
      BY Zenon, <1>7
    <2>2. CASE ReadError(r)
      BY <1>0, <2>2, ReadInvDown DEF ReadError
    <2>3. CASE ReadPath(r) \/ ReadBlock(r) \/ ReadReturn(r)
      BY <1>0, <2>3, ReadInvPath, ReadInvBlock, ReadInvReturn
    <2> QED
      BY <2>1, <2>2, <2>3 DEF Read
  <1>8. CASE Kill \/ PowerLoss
    BY <1>0, <1>8, ReadInvDown DEF Kill, PowerLoss
  <1>9. CASE UNCHANGED vars
    <2>1. UNCHANGED <<proc, mem, qoff, reader, nextblk, files, fs>>
      BY <1>9 DEF vars, queue, dirs
    <2>2. nextblk \in Nat
      BY Zenon DEF ReadInv, QueueInv, TypeQ
    <2> QED
      BY <1>0, <2>1, <2>2, ReadersWait
  <1> QED
    BY <1>1, <1>2, <1>3, <1>4, <1>5, <1>6, <1>7, <1>8, <1>9 DEF Next

-----------------------------------------------------------------------------
(***************************************************************************)
(* Durability of lbs/storage.c: on a file system that keeps changes in     *)
(* order, no crash and no power loss costs a block whose write was         *)
(* reported as done, and storage_init never refuses the files it finds.    *)
(*                                                                         *)
(* The argument: every directory a power loss may leave is one storage_init*)
(* accepts, and holds every block that is acknowledged and not freed.      *)
(***************************************************************************)

\* The files of d cover consecutive blocks; only the last may be torn.
GoodDir(d) ==
    \A f, g \in DOMAIN d :
        f < g => LET end == f + Len(d[f].data) IN
                 ~d[f].torn /\ end \in DOMAIN d /\ f < end /\ end <= g

\* Directory d has block b, written by APPEND id.
DirHolds(d, b, id) ==
    \E f \in DOMAIN d :
        f <= b /\ b < f + Len(d[f].data) /\ d[f].data[b - f + 1] = id

AckedIn(d) == \A b \in DOMAIN acked : b >= freed => DirHolds(d, b, acked[b])

DisksGood == fs \in disk /\ \A d \in disk : GoodDir(d) /\ AckedIn(d)

\* The number of blocks the writer has added to the tail's file.
Written == IF writer.pc \in {"idle", "creat"} THEN 0 ELSE writer.n - writer.left

\* The directory has the files of the queue, with the blocks the queue says,
\* the blocks being written, and the file being deleted; nothing is torn.
FilesExact ==
    proc = "up" =>
        /\ \A i \in 1 .. Len(files) :
              files[i].start \in DOMAIN fs =>
                  Len(fs[files[i].start].data)
                      = files[i].len + (IF i = Len(files) THEN Written ELSE 0)
        /\ \A f \in DOMAIN fs :
              /\ ~fs[f].torn
              /\ \/ \E i \in 1 .. Len(files) : files[i].start = f
                 \/ /\ deleter.pc = "unlink" /\ deleter.fileno = f
                    /\ f + Len(fs[f].data) = minblk

\* What storage_delete may still take was freed, and lies before the queue.
DeleterFrees ==
    /\ deleter.pc # "idle" => deleter.blkno <= freed
    /\ deleter.pc = "unlink" => minblk <= deleter.blkno

\* The blocks written so far are the writer's, and are on disk once synced.
WriterBlocks ==
    /\ writer.pc \notin {"idle", "creat"} =>
          \A b \in nextblk .. nextblk + Written - 1 : DirHolds(fs, b, writer.id)
    /\ writer.pc \in {"syncdir", "commit"} =>
          \A d \in disk : \A b \in nextblk .. nextblk + writer.n - 1 : DirHolds(d, b, writer.id)

\* open(O_EXCL) finds no file of that name.
NotCreated == writer.pc = "creat" => writer.fnum \notin DOMAIN fs

AckedBelow == proc = "up" => \A b \in DOMAIN acked : b >= freed => b < nextblk

DurInv ==
    /\ proc # "refused" /\ freed \in Nat /\ DOMAIN acked \subseteq Nat
    /\ DisksGood /\ FilesExact /\ DeleterFrees /\ WriterBlocks /\ NotCreated
    /\ AckedBelow

-----------------------------------------------------------------------------
(* What changes of one file do to a directory.                             *)

\* A file of a directory has a number, and its blocks are a sequence.
LEMMA DirFacts ==
    ASSUME NEW d, IsDir(d), NEW f \in DOMAIN d
    PROVE  /\ f \in Nat /\ d[f] \in FileRec /\ d[f].data \in Seq(Nat)
           /\ Len(d[f].data) \in Nat
  <1>1. f \in Nat /\ d[f] \in FileRec
    BY Zenon DEF IsDir
  <1>2. d[f].data \in Seq(Nat)
    BY Zenon, <1>1, FileRecExcept
  <1> QED
    BY <1>1, <1>2

\* Writing to, tearing or truncating the last file.
LEMMA GoodPutLast ==
    ASSUME NEW d, IsDir(d), GoodDir(d), NEW f \in DOMAIN d, NEW rec,
           \A g \in DOMAIN d : g <= f
    PROVE  GoodDir(Put(d, f, rec))
  <1> DEFINE e == Put(d, f, rec)
  <1>1. DOMAIN e = DOMAIN d
    BY Zenon DEF Put
  <1>2. \A g \in DOMAIN d : g # f => e[g] = d[g]
    BY Zenon DEF Put
  <1> SUFFICES ASSUME NEW g \in DOMAIN d, NEW h \in DOMAIN d, g < h
               PROVE  LET end == g + Len(e[g].data) IN
                      ~e[g].torn /\ end \in DOMAIN e /\ g < end /\ end <= h
    BY Zenon, <1>1 DEF GoodDir
  <1>3. g # f
    BY DEF IsDir
  <1> QED
    BY <1>1, <1>2, <1>3 DEF GoodDir

\* Creating a file right after the last one.
LEMMA GoodPutNew ==
    ASSUME NEW d, IsDir(d), GoodDir(d), NEW f \in Nat, NEW rec,
           \A g \in DOMAIN d : LET end == g + Len(d[g].data) IN
               ~d[g].torn /\ end \in DOMAIN d \cup {f} /\ g < end /\ end <= f
    PROVE  GoodDir(Put(d, f, rec))
  <1> DEFINE e == Put(d, f, rec)
  <1>1. DOMAIN e = DOMAIN d \cup {f}
    BY Zenon DEF Put
  <1>2. \A g \in DOMAIN d : g < f
    BY DirFacts
  <1>3. \A g \in DOMAIN d : g # f /\ e[g] = d[g]
    BY <1>2, DirFacts DEF Put
  <1> SUFFICES ASSUME NEW g \in DOMAIN e, NEW h \in DOMAIN e, g < h
               PROVE  LET end == g + Len(e[g].data) IN
                      ~e[g].torn /\ end \in DOMAIN e /\ g < end /\ end <= h
    BY Zenon DEF GoodDir
  <1>4. g \in DOMAIN d
    BY <1>1, <1>2, DirFacts
  <1>5. CASE h \in DOMAIN d
    BY <1>1, <1>3, <1>4, <1>5 DEF GoodDir
  <1>6. CASE h = f
    BY <1>1, <1>3, <1>4, <1>6
  <1> QED
    BY <1>1, <1>5, <1>6

\* Unlinking the first file.
LEMMA GoodKeep ==
    ASSUME NEW d, IsDir(d), GoodDir(d), NEW f \in Nat, \A g \in DOMAIN d : f <= g
    PROVE  GoodDir(Keep(d, DOMAIN d \ {f}))
  <1> DEFINE e == Keep(d, DOMAIN d \ {f})
  <1>1. DOMAIN e = DOMAIN d \ {f} /\ \A g \in DOMAIN e : e[g] = d[g]
    BY Zenon DEF Keep
  <1> SUFFICES ASSUME NEW g \in DOMAIN e, NEW h \in DOMAIN e, g < h
               PROVE  LET end == g + Len(e[g].data) IN
                      ~e[g].torn /\ end \in DOMAIN e /\ g < end /\ end <= h
    BY Zenon DEF GoodDir
  <1>2. LET end == g + Len(d[g].data) IN
        ~d[g].torn /\ end \in DOMAIN d /\ g < end /\ end <= h
    BY Zenon, <1>1 DEF GoodDir
  <1>3. g + Len(d[g].data) # f
    BY <1>1, <1>2, DirFacts
  <1> QED
    BY Zenon, <1>1, <1>2, <1>3

\* A block stays where it is when its file only grows.
LEMMA HoldsPut ==
    ASSUME NEW d, IsDir(d), NEW f, NEW rec \in FileRec, NEW b \in Nat, NEW id,
           f \in DOMAIN d => /\ Len(rec.data) >= Len(d[f].data)
                             /\ \A k \in 1 .. Len(d[f].data) : rec.data[k] = d[f].data[k],
           DirHolds(d, b, id)
    PROVE  DirHolds(Put(d, f, rec), b, id)
  <1>1. PICK g \in DOMAIN d : g <= b /\ b < g + Len(d[g].data) /\ d[g].data[b - g + 1] = id
    BY Zenon DEF DirHolds
  <1>2. g \in Nat /\ Len(d[g].data) \in Nat /\ Len(rec.data) \in Nat
    BY DirFacts, FileRecExcept
  <1>3. g \in DOMAIN Put(d, f, rec) /\ Put(d, f, rec)[g] = IF g = f THEN rec ELSE d[g]
    BY Zenon DEF Put
  <1>4. b - g + 1 \in 1 .. Len(d[g].data)
    BY <1>1, <1>2
  <1>5. CASE g = f
    <2>1. b < g + Len(rec.data) /\ rec.data[b - g + 1] = id
      BY <1>1, <1>2, <1>4, <1>5
    <2> QED
      BY <1>1, <1>3, <1>5, <2>1 DEF DirHolds
  <1>6. CASE g # f
    BY <1>1, <1>3, <1>6 DEF DirHolds
  <1> QED
    BY <1>5, <1>6

\* A block stays where it is when a file that ends before it is unlinked.
LEMMA HoldsKeep ==
    ASSUME NEW d, IsDir(d), NEW f, NEW b \in Nat, NEW id,
           f \in DOMAIN d => f + Len(d[f].data) <= b,
           DirHolds(d, b, id)
    PROVE  DirHolds(Keep(d, DOMAIN d \ {f}), b, id)
  <1>1. PICK g \in DOMAIN d : g <= b /\ b < g + Len(d[g].data) /\ d[g].data[b - g + 1] = id
    BY Zenon DEF DirHolds
  <1>2. g # f
    BY <1>1, DirFacts
  <1>3. g \in DOMAIN Keep(d, DOMAIN d \ {f}) /\ Keep(d, DOMAIN d \ {f})[g] = d[g]
    BY Zenon, <1>2 DEF Keep
  <1> QED
    BY <1>1, <1>3 DEF DirHolds

\* The blocks of `old' are the first ones of `rec'.
Extends(rec, old) ==
    /\ Len(rec.data) >= Len(old.data)
    /\ \A k \in 1 .. Len(old.data) : rec.data[k] = old.data[k]

\* An ordered file system keeps every disk good when a file grows at the end.
LEMMA OrderedPut ==
    ASSUME OrderedFS, IsDir(fs), DisksGood, DOMAIN acked \subseteq Nat,
           NEW f \in Nat, NEW part \in FileRec, NEW rec \in FileRec,
           PutFile(f, part, rec), UNCHANGED <<acked, freed>>,
           GoodDir(Put(fs, f, part)), GoodDir(Put(fs, f, rec)),
           f \in DOMAIN fs => Extends(part, fs[f]) /\ Extends(rec, fs[f])
    PROVE  DisksGood'
  <1>1. fs' = Put(fs, f, rec) /\ disk' = disk \cup {Put(fs, f, part), Put(fs, f, rec)}
    BY DEF PutFile, Bases
  <1>2. ASSUME NEW b \in DOMAIN acked, b >= freed
        PROVE  DirHolds(Put(fs, f, part), b, acked[b]) /\ DirHolds(Put(fs, f, rec), b, acked[b])
    <2>1. DirHolds(fs, b, acked[b]) /\ b \in Nat
      BY Zenon, <1>2 DEF DisksGood, AckedIn
    <2>2. DirHolds(Put(fs, f, part), b, acked[b])
      BY <2>1, HoldsPut DEF Extends
    <2>3. DirHolds(Put(fs, f, rec), b, acked[b])
      BY <2>1, HoldsPut DEF Extends
    <2> QED
      BY <2>2, <2>3
  <1>3. \A d \in disk' : GoodDir(d)
    BY Zenon, <1>1 DEF DisksGood
  <1>4. \A d \in disk' : \A b \in DOMAIN acked : b >= freed => DirHolds(d, b, acked[b])
    BY Zenon, <1>1, <1>2 DEF DisksGood, AckedIn
  <1> QED
    BY <1>1, <1>3, <1>4 DEF DisksGood, AckedIn

-----------------------------------------------------------------------------
(* Every step preserves DurInv.                                            *)

\* An empty directory has every acknowledged block: there is none.
LEMMA DurInvInit == Init => DurInv
  <1> SUFFICES ASSUME Init PROVE DurInv
    BY Zenon
  <1>1. fs = <<>> /\ disk = {<<>>} /\ acked = <<>> /\ DOMAIN acked = {} /\ freed = 0
        /\ DOMAIN fs = {} /\ proc = "down" /\ writer.pc = "idle" /\ deleter.pc = "idle"
    BY DEF Init, IdleWriter, IdleDeleter
  <1> QED
    BY Zenon, <1>1 DEF DurInv, DisksGood, GoodDir, AckedIn, FilesExact, DeleterFrees, WriterBlocks,
                NotCreated, AckedBelow

\* storage_init accepts every directory a crash can leave.
LEMMA DurInvStorageInit ==
    ASSUME SetFacts, OrderedFS, QueueInv, DurInv, StorageInit
    PROVE  DurInv'
  <1> USE DEF QueueInv, DurInv
  <1>0. proc = "down" /\ writer = IdleWriter /\ deleter = IdleDeleter
        /\ UNCHANGED <<writer, deleter, acked, freed>>
    BY Zenon DEF StorageInit, NotRunning, ghosts
  <1>1. IsDir(fs) /\ GoodDir(fs) /\ AckedIn(fs)
    BY Zenon DEF TypeQ, DisksGood
  <1>2. Cardinality(DOMAIN fs) \in Nat
    BY <1>1 DEF IsDir, SetFacts, FiniteSize
  <1>3. PICK q \in [1 .. Cardinality(DOMAIN fs) -> DOMAIN fs] :
          /\ FindFiles(q)
          /\ IF Contiguous(q)
             THEN /\ proc' = "up"
                  /\ files' = [i \in DOMAIN q |->
                                  [start |-> q[i], len |-> Len(fs[q[i]].data)]]
                  /\ nextblk' = EndOfFiles(q)
                  /\ TruncateLast(q)
             ELSE /\ proc' = "refused"
                  /\ UNCHANGED <<files, minblk, nextblk, dirs>>
    BY Zenon DEF StorageInit
  <1> DEFINE N == Cardinality(DOMAIN fs)
  <1>4. q \in Seq(Nat) /\ Len(q) = N /\ DOMAIN q = 1 .. N
    <2>1. q \in [1 .. N -> Nat]
      BY <1>1, <1>3 DEF IsDir
    <2> QED
      BY <1>2, <2>1, FunIsSeq
  <1>5. \A i, j \in 1 .. N : i < j => q[i] < q[j]
    BY <1>3, <1>4 DEF FindFiles
  <1>6. \A f \in DOMAIN fs : \E i \in 1 .. N : q[i] = f
    BY <1>3, <1>4 DEF FindFiles
  <1>7. \A i \in 1 .. N : q[i] \in DOMAIN fs /\ q[i] \in Nat
                          /\ fs[q[i]] \in FileRec /\ Len(fs[q[i]].data) \in Nat
    BY <1>1, <1>3, DirFacts
  <1>8. ASSUME NEW i \in 1 .. N - 1
        PROVE  ~fs[q[i]].torn /\ q[i + 1] = q[i] + Len(fs[q[i]].data)
    <2>1. i \in 1 .. N /\ i + 1 \in 1 .. N /\ q[i] < q[i + 1]
      BY <1>2, <1>5
    <2> DEFINE end == q[i] + Len(fs[q[i]].data)
    <2>2. ~fs[q[i]].torn /\ end \in DOMAIN fs /\ q[i] < end /\ end <= q[i + 1]
      BY <1>1, <1>7, <2>1 DEF GoodDir
    <2>3. PICK j \in 1 .. N : q[j] = end
      BY <1>6, <2>2
    <2>4. j > i
      BY <1>2, <1>5, <1>7, <2>1, <2>2, <2>3
    <2>5. j = i + 1 \/ q[i + 1] < q[j]
      BY <1>2, <1>5, <2>1, <2>4
    <2> QED
      BY <1>7, <2>1, <2>2, <2>3, <2>5
  <1>9. Contiguous(q)
    <2>1. \A i \in DOMAIN q \ {Len(q)} : i \in 1 .. N - 1
      BY <1>2, <1>4
    <2> QED
      BY Zenon, <1>8, <2>1 DEF Contiguous
  <1>10. proc' = "up" /\ nextblk' = EndOfFiles(q) /\ TruncateLast(q)
         /\ files' = [i \in 1 .. N |-> [start |-> q[i], len |-> Len(fs[q[i]].data)]]
    BY <1>3, <1>4, <1>9
  <1>11. Len(files') = N /\ \A i \in 1 .. N : files'[i].start = q[i]
                                           /\ files'[i].len = Len(fs[q[i]].data)
    <2>1. files' \in [1 .. N -> FileState]
      BY Zenon, <1>7, <1>10 DEF FileState
    <2> QED
      BY <1>2, <1>10, <2>1, FunIsSeq
  <1>12. N # 0 => /\ Last(q) = q[N] /\ N \in 1 .. N /\ q # <<>>
                  /\ \A f \in DOMAIN fs : f <= q[N] /\ (f # q[N] => f < q[N])
    <2>1. N # 0 => Last(q) = q[N] /\ N \in 1 .. N /\ q # <<>>
      BY <1>2, <1>4 DEF Last
    <2>2. \A i \in 1 .. N : i = N \/ i < N
      BY <1>2
    <2>3. N # 0 => \A i \in 1 .. N : q[i] = q[N] \/ q[i] < q[N]
      BY <1>5, <2>1, <2>2
    <2> QED
      BY <1>6, <1>7, <2>1, <2>3
  <1>13. N = 0 => q = <<>> /\ DOMAIN fs = {}
    <2>1. N = 0 => 1 .. N = {}
      BY <1>2
    <2>2. N = 0 => q = <<>>
      BY <1>4, SMT
    <2> QED
      BY <1>6, <2>1, <2>2
  <1> DEFINE last == q[N]
             rec == [fs[last] EXCEPT !.torn = FALSE]
  <1>14. \/ fs' = fs /\ disk' = disk /\ (N # 0 => ~fs[last].torn)
         \/ N # 0 /\ PutFile(last, rec, rec)
    BY Zenon, <1>7, <1>10, <1>12, <1>13 DEF TruncateLast, dirs, FileRec
  <1>15. N # 0 => last \in DOMAIN fs /\ rec \in FileRec /\ rec.data = fs[last].data /\ ~rec.torn
    <2> SUFFICES ASSUME N # 0
                 PROVE  last \in DOMAIN fs /\ rec \in FileRec
                        /\ rec.data = fs[last].data /\ ~rec.torn
      BY Zenon
    <2>1. last \in DOMAIN fs /\ fs[last] \in FileRec
      BY Zenon, <1>7, <1>12
    <2>2. rec = [data |-> fs[last].data, torn |-> FALSE] /\ fs[last].data \in Seq(Nat)
      BY Zenon, <2>1, FileRecExcept
    <2> QED
      BY Zenon, <2>1, <2>2 DEF FileRec
  <1>16. /\ DOMAIN fs' = DOMAIN fs
         /\ \A f \in DOMAIN fs : fs'[f].data = fs[f].data /\ ~fs'[f].torn
    <2>1. \A f \in DOMAIN fs : N # 0 /\ (f # last => ~fs[f].torn)
      BY <1>1, <1>12, <1>13, <1>15 DEF GoodDir
    <2>2. CASE fs' = fs /\ disk' = disk /\ (N # 0 => ~fs[last].torn)
      BY Zenon, <2>1, <2>2
    <2>3. CASE N # 0 /\ PutFile(last, rec, rec)
      <3>1. fs' = [g \in DOMAIN fs |-> IF g = last THEN rec ELSE fs[g]]
        <4>1. DOMAIN fs \cup {last} = DOMAIN fs
          BY Zenon, <1>15, <2>3
        <4> QED
          BY Zenon, <2>3, <4>1 DEF PutFile, Put
      <3> QED
        BY <1>15, <2>1, <2>3, <3>1
    <2> QED
      BY <1>14, <2>2, <2>3
  <1>17. DisksGood'
    <2>1. CASE fs' = fs /\ disk' = disk
      BY Zenon, <1>0, <2>1 DEF DisksGood, AckedIn
    <2>2. CASE N # 0 /\ PutFile(last, rec, rec)
      <3>1. GoodDir(Put(fs, last, rec))
        BY <1>1, <1>12, <1>15, <2>2, GoodPutLast
      <3>2. Extends(rec, fs[last])
        BY <1>7, <1>12, <1>15, <2>2 DEF Extends
      <3> QED
        BY <1>0, <1>1, <1>7, <1>12, <1>15, <2>2, <3>1, <3>2, OrderedPut
    <2> QED
      BY Zenon, <1>14, <2>1, <2>2
  <1>18. FilesExact'
    <2>1. Written' = 0
      BY Zenon, <1>0 DEF Written, IdleWriter
    <2>2. \A i \in 1 .. Len(files') : files'[i].start \in DOMAIN fs' =>
              Len(fs'[files'[i].start].data) = files'[i].len + 0
      BY <1>7, <1>11, <1>16
    <2>3. \A f \in DOMAIN fs' : ~fs'[f].torn /\ \E i \in 1 .. Len(files') : files'[i].start = f
      BY <1>6, <1>11, <1>16
    <2> QED
      BY <2>1, <2>2, <2>3 DEF FilesExact
  <1>19. AckedBelow'
    <2> SUFFICES ASSUME NEW b \in DOMAIN acked, b >= freed
                 PROVE  b < EndOfFiles(q)
      BY <1>0, <1>10 DEF AckedBelow
    <2>1. PICK f \in DOMAIN fs : f <= b /\ b < f + Len(fs[f].data)
      BY Zenon, <1>1 DEF AckedIn, DirHolds
    <2>2. N # 0 /\ EndOfFiles(q) = last + Len(fs[last].data) /\ last \in Nat
          /\ Len(fs[last].data) \in Nat /\ last \in DOMAIN fs
      BY <1>7, <1>12, <1>13, <2>1 DEF EndOfFiles
    <2>3. f # last => f + Len(fs[f].data) <= last
      BY <1>1, <1>12, <2>1, <2>2 DEF GoodDir
    <2>4. b \in Nat /\ f \in Nat /\ Len(fs[f].data) \in Nat
      BY Zenon, <1>1, <2>1, DirFacts
    <2> QED
      BY <2>1, <2>2, <2>3, <2>4
  <1> QED
    BY <1>0, <1>10, <1>17, <1>18, <1>19
    DEF DeleterFrees, WriterBlocks, NotCreated, IdleWriter, IdleDeleter

\* Where the files of a running daemon's directory are.
LEMMA UpFacts ==
    ASSUME QueueInv, DurInv, proc = "up", NEW f \in DOMAIN fs
    PROVE  /\ f \in Nat /\ ~fs[f].torn /\ Len(fs[f].data) \in Nat
           /\ f >= minblk => \E i \in 1 .. Len(files) : files[i].start = f
           /\ f < minblk => deleter.pc = "unlink" /\ deleter.fileno = f
                            /\ f + Len(fs[f].data) = minblk
           /\ files # <<>> => f <= Last(files).start
  <1>1. f \in Nat /\ Len(fs[f].data) \in Nat
    BY Zenon, DirFacts DEF QueueInv, TypeQ
  <1>2. ~fs[f].torn
    BY Zenon DEF DurInv, FilesExact
  <1>3. minblk \in Nat
    BY Zenon DEF QueueInv, TypeQ
  <1>4. CASE \E i \in 1 .. Len(files) : files[i].start = f
    <2>1. files # <<>>
      BY <1>4
    <2> QED
      BY <1>1, <1>2, <1>3, <1>4, <2>1, QueueFacts
  <1>5. CASE deleter.pc = "unlink" /\ deleter.fileno = f /\ f + Len(fs[f].data) = minblk
    <2>1. f < minblk
      BY Zenon, <1>5 DEF QueueInv, DeleterOK
    <2>2. files # <<>> => minblk <= Last(files).start /\ Last(files).start \in Nat
      BY QueueFacts
    <2> QED
      BY <1>1, <1>2, <1>3, <1>5, <2>1, <2>2
  <1> QED
    BY Zenon, <1>4, <1>5 DEF DurInv, FilesExact

\* storage_write, first locked section.
LEMMA DurInvWriteBegin ==
    ASSUME QueueInv, QueueInv', DurInv, NEW n \in 1 .. MaxAppend, WriteBegin(n)
    PROVE  DurInv'
  <1>0. /\ UNCHANGED <<proc, minblk, nextblk, deleter, fs, disk, acked, freed>>
        /\ proc = "up" /\ writer.pc = "idle" /\ n \in Nat
    BY LbsStorageAssumption DEF WriteBegin, dirs
  <1>1. Written = 0 /\ Written' = 0
    <2>1. writer'.pc = "creat" \/ (writer'.pc = "write" /\ writer'.n = n /\ writer'.left = n)
      BY DEF WriteBegin
    <2> QED
      BY <1>0, <2>1 DEF Written
  <1>2. DisksGood' /\ DeleterFrees' /\ AckedBelow'
    BY Zenon, <1>0 DEF DurInv, DisksGood, AckedIn, DeleterFrees, AckedBelow
  <1>3. WriterBlocks'
    <2>1. writer'.pc \in {"creat", "write"}
      BY DEF WriteBegin
    <2>2. nextblk .. nextblk + 0 - 1 = {}
      BY DEF QueueInv, TypeQ
    <2> QED
      BY Zenon, <1>0, <1>1, <2>1, <2>2 DEF WriterBlocks
  <1>4. CASE ~NewFile(n)
    <2>1. UNCHANGED files /\ writer'.pc = "write"
      BY <1>4 DEF WriteBegin
    <2>2. FilesExact' /\ NotCreated'
      BY Zenon, <1>0, <1>1, <2>1 DEF DurInv, FilesExact, NotCreated
    <2> QED
      BY Zenon, <1>0, <1>2, <1>3, <2>2 DEF DurInv
  <1>5. CASE NewFile(n)
    <2> DEFINE L == Len(files)
               new == [start |-> nextblk, len |-> 0]
    <2>1. files' = Append(files, new) /\ writer'.fnum = nextblk
      BY <1>5 DEF WriteBegin, ElasticAdd
    <2>2. /\ L \in Nat /\ Len(files') = L + 1 /\ files'[L + 1] = new
          /\ \A i \in 1 .. L : files'[i] = files[i]
      <3>1. files \in Seq(FileState) /\ new \in FileState
        BY Zenon DEF QueueInv, TypeQ, FileState
      <3> QED
        BY <2>1, <3>1
    <2>3. nextblk \notin DOMAIN fs
      <3>1. SUFFICES ASSUME nextblk \in DOMAIN fs PROVE FALSE
        BY Zenon
      <3>2. nextblk >= minblk
        <4>1. files = <<>> => nextblk = minblk /\ nextblk \in Nat
          BY Zenon DEF QueueInv, StorageInvariants, TypeQ
        <4>2. files # <<>> => minblk <= nextblk
          BY Zenon, QueueFacts
        <4> QED
          BY <4>1, <4>2 DEF QueueInv, TypeQ
      <3>3. PICK i \in 1 .. L : files[i].start = nextblk
        BY Zenon, <1>0, <3>1, <3>2, UpFacts
      <3>4. files'[i].start < files'[L + 1].start
        <4>1. i \in 1 .. L + 1 /\ L + 1 \in 1 .. L + 1 /\ i < L + 1
          BY <2>2
        <4> QED
          BY Zenon, <2>2, <4>1 DEF QueueInv, Sorted
      <3>5. nextblk < nextblk
        BY <2>2, <3>3, <3>4
      <3>6. nextblk \in Nat
        BY Zenon DEF QueueInv, TypeQ
      <3> QED
        BY <3>5, <3>6
    <2>4. FilesExact'
      <3>1. \A i \in 1 .. L : files[i].start \in DOMAIN fs =>
              Len(fs[files[i].start].data) = files[i].len + 0
        BY Zenon, <1>0, <1>1 DEF DurInv, FilesExact
      <3>2. \A i \in 1 .. L + 1 : i \in 1 .. L \/ i = L + 1
        BY <2>2
      <3>3. \A i \in 1 .. Len(files') :
              files'[i].start \in DOMAIN fs' =>
                Len(fs'[files'[i].start].data)
                  = files'[i].len + (IF i = Len(files') THEN Written' ELSE 0)
        BY <1>0, <1>1, <2>2, <2>3, <3>1, <3>2
      <3>4. \A f \in DOMAIN fs :
              (\E i \in 1 .. L : files[i].start = f) => \E i \in 1 .. L + 1 : files'[i].start = f
        BY <2>2
      <3> QED
        BY <1>0, <2>2, <3>3, <3>4 DEF DurInv, FilesExact
    <2> QED
      BY Zenon, <1>0, <1>2, <1>3, <2>1, <2>3, <2>4 DEF DurInv, NotCreated
  <1> QED
    BY Zenon, <1>4, <1>5

\* storage_write: the new file is created.
LEMMA DurInvWriteCreat ==
    ASSUME OrderedFS, QueueInv, QueueInv', DurInv, WriteCreat
    PROVE  DurInv'
  <1> DEFINE f == writer.fnum
  <1>0. /\ UNCHANGED <<proc, files, minblk, nextblk, deleter, acked, freed>>
        /\ writer.pc = "creat" /\ writer' = [writer EXCEPT !.pc = "write"]
        /\ PutFile(f, EmptyFile, EmptyFile)
    BY Zenon DEF WriteCreat, queue, ghosts
  <1>1. /\ proc = "up" /\ files # <<>> /\ f = Last(files).start /\ f = nextblk
        /\ f \in Nat /\ writer.left = writer.n /\ writer.n \in Nat /\ nextblk \in Nat
        /\ minblk \in Nat /\ IsDir(fs)
    <2>1. proc = "up"
      BY Zenon, <1>0 DEF QueueInv, NotRunning, IdleWriter
    <2> QED
      BY Zenon, <1>0, <2>1 DEF QueueInv, WriterOK, TypeQ
  <1>2. writer'.pc = "write" /\ writer'.n = writer.n /\ writer'.left = writer.left
    BY Zenon, <1>0 DEF QueueInv, TypeQ
  <1>3. Written = 0 /\ Written' = 0
    BY <1>0, <1>1, <1>2 DEF Written
  <1>4. f \notin DOMAIN fs
    BY Zenon, <1>0 DEF DurInv, NotCreated
  <1>5. fs' = Put(fs, f, EmptyFile)
    BY Zenon, <1>0 DEF PutFile
  <1>6. /\ DOMAIN fs' = DOMAIN fs \cup {f} /\ fs'[f] = EmptyFile
        /\ \A g \in DOMAIN fs : fs'[g] = fs[g]
    BY <1>4, <1>5 DEF Put
  <1>7. \A g \in DOMAIN fs : LET end == g + Len(fs[g].data) IN
           ~fs[g].torn /\ end \in DOMAIN fs \cup {f} /\ g < end /\ end <= f
    <2> SUFFICES ASSUME NEW g \in DOMAIN fs
                 PROVE  LET end == g + Len(fs[g].data) IN
                        ~fs[g].torn /\ end \in DOMAIN fs \cup {f} /\ g < end /\ end <= f
      BY Zenon
    <2>1. /\ g \in Nat /\ ~fs[g].torn /\ Len(fs[g].data) \in Nat
          /\ g >= minblk => \E i \in 1 .. Len(files) : files[i].start = g
          /\ g < minblk => g + Len(fs[g].data) = minblk
      BY Zenon, <1>1, UpFacts
    <2>2. \A i \in 1 .. Len(files) : files[i].start \in DOMAIN fs \cup {f}
      BY Zenon, <1>1 DEF QueueInv, FilesOnDisk, Last
    <2>3. CASE g < minblk
      <3>1. minblk = files[1].start /\ 1 \in 1 .. Len(files) /\ minblk <= f
        BY <1>1, QueueFacts DEF QueueInv, StorageInvariants
      <3> QED
        BY <1>1, <2>1, <2>2, <2>3, <3>1
    <2>4. CASE g >= minblk
      <3>1. PICK i \in 1 .. Len(files) : files[i].start = g
        BY <2>1, <2>4
      <3>2. i # Len(files) /\ i + 1 \in 1 .. Len(files)
        <4>1. i # Len(files)
          BY Zenon, <1>1, <1>4, <3>1 DEF Last
        <4> QED
          BY <1>1, <4>1, QueueFacts
      <3>3. Len(fs[g].data) = files[i].len
        <4>1. Len(fs[g].data) = files[i].len + 0
          BY <1>1, <3>1, <3>2 DEF DurInv, FilesExact
        <4>2. files[i].len \in Nat
          BY QueueFacts
        <4> QED
          BY <4>1, <4>2
      <3>4. files[i + 1].start = files[i].start + files[i].len
        BY <3>2 DEF QueueInv, StorageInvariants, End
      <3>5. files[i].start < files[i + 1].start /\ files[i + 1].start <= f
        BY <1>1, <3>2, QueueFacts DEF QueueInv, Sorted
      <3> QED
        BY <2>1, <2>2, <3>1, <3>2, <3>3, <3>4, <3>5
    <2> QED
      BY <1>1, <2>1, <2>3, <2>4
  <1>8. GoodDir(fs')
    BY <1>1, <1>5, <1>7, GoodPutNew DEF DurInv, DisksGood
  <1>9. \A b, id : b \in Nat /\ DirHolds(fs, b, id) => DirHolds(fs', b, id)
    BY Zenon, <1>6 DEF DirHolds
  <1>10. disk' = disk \cup {fs'}
    BY <1>0, <1>5 DEF PutFile, Bases
  <1>11. DisksGood'
    <2>1. AckedIn(fs')
      BY Zenon, <1>9 DEF DurInv, DisksGood, AckedIn
    <2> QED
      BY <1>0, <1>8, <1>10, <2>1 DEF DurInv, DisksGood, AckedIn
  <1>12. FilesExact'
    <2>1. files[Len(files)].start = f /\ Len(files) \in 1 .. Len(files)
      BY <1>1, QueueFacts DEF Last, QueueInv, TypeQ
    <2>2. files[Len(files)].len = 0
      BY <1>1, QueueFacts
    <2>3. \A i \in 1 .. Len(files) : files[i].start \in DOMAIN fs' =>
            Len(fs'[files[i].start].data)
                = files[i].len + (IF i = Len(files) THEN Written' ELSE 0)
      <3> SUFFICES ASSUME NEW i \in 1 .. Len(files), files[i].start \in DOMAIN fs'
                   PROVE  Len(fs'[files[i].start].data)
                            = files[i].len + (IF i = Len(files) THEN Written' ELSE 0)
        BY Zenon
      <3>1. CASE i = Len(files)
        <4>1. Len(EmptyFile.data) = 0
          BY Zenon DEF EmptyFile
        <4> QED
          BY <1>3, <1>6, <2>1, <2>2, <3>1, <4>1
      <3>2. CASE i # Len(files)
        <4>1. files[i].start # f
          <5>1. files[i].start < files[Len(files)].start
            <6>1. i < Len(files)
              BY <1>1, <3>2, QueueFacts
            <6> QED
              BY <2>1, <6>1 DEF QueueInv, Sorted
          <5> QED
            BY <1>1, <2>1, <5>1
        <4> QED
          BY <1>1, <1>6, <3>2, <4>1 DEF DurInv, FilesExact
      <3> QED
        BY <3>1, <3>2
    <2>4. \A g \in DOMAIN fs' :
            /\ ~fs'[g].torn
            /\ \/ \E i \in 1 .. Len(files) : files[i].start = g
               \/ /\ deleter.pc = "unlink" /\ deleter.fileno = g
                  /\ g + Len(fs'[g].data) = minblk
      BY <1>1, <1>6, <2>1 DEF DurInv, FilesExact, EmptyFile
    <2> QED
      BY <1>0, <2>3, <2>4 DEF FilesExact
  <1>13. WriterBlocks' /\ NotCreated'
    <2>1. nextblk .. nextblk + 0 - 1 = {}
      BY <1>1
    <2> QED
      BY <1>0, <1>2, <1>3, <2>1 DEF WriterBlocks, NotCreated
  <1> QED
    BY Zenon, <1>0, <1>11, <1>12, <1>13 DEF DurInv, DeleterFrees, AckedBelow

\* A change of the file the writer works on, on an ordered file system.
LEMMA DurInvTail ==
    ASSUME OrderedFS, QueueInv, DurInv, writer.pc \notin {"idle", "creat"},
           NEW part \in FileRec, NEW rec \in FileRec,
           Extends(part, fs[writer.fnum]), Extends(rec, fs[writer.fnum]),
           PutFile(writer.fnum, part, rec), UNCHANGED <<acked, freed>>
    PROVE  /\ DisksGood'
           /\ writer.fnum \in DOMAIN fs
           /\ DOMAIN fs' = DOMAIN fs /\ fs'[writer.fnum] = rec
           /\ \A g \in DOMAIN fs : g # writer.fnum => fs'[g] = fs[g]
           /\ \A b \in Nat : \A id : DirHolds(fs, b, id) => DirHolds(fs', b, id)
  <1> DEFINE f == writer.fnum
  <1>1. /\ proc = "up" /\ files # <<>> /\ f = Last(files).start /\ f \in DOMAIN fs
        /\ IsDir(fs) /\ f \in Nat
    <2>1. proc = "up"
      BY DEF QueueInv, NotRunning, IdleWriter
    <2> QED
      BY <2>1 DEF QueueInv, WriterOK, TypeQ
  <1>2. \A g \in DOMAIN fs : g <= f
    BY <1>1, UpFacts
  <1>3. fs' = Put(fs, f, rec)
    BY Zenon DEF PutFile
  <1>4. GoodDir(Put(fs, f, part)) /\ GoodDir(Put(fs, f, rec))
    BY <1>1, <1>2, GoodPutLast DEF DurInv, DisksGood
  <1>5. \A b \in Nat : \A id : DirHolds(fs, b, id) => DirHolds(Put(fs, f, rec), b, id)
    BY <1>1, HoldsPut DEF Extends
  <1>7. DisksGood'
    BY <1>1, <1>4, OrderedPut DEF DurInv
  <1> QED
    BY Zenon, <1>1, <1>3, <1>5, <1>7 DEF Put

\* disk_write: one more block.
LEMMA DurInvWriteBlock ==
    ASSUME OrderedFS, QueueInv, QueueInv', DurInv, WriteBlock
    PROVE  DurInv'
  <1> DEFINE f == writer.fnum
             file == fs[f]
             part == [file EXCEPT !.torn = TRUE]
             rec == [file EXCEPT !.data = Append(@, writer.id)]
  <1>0. /\ UNCHANGED <<proc, files, minblk, nextblk, deleter, acked, freed>>
        /\ writer.pc = "write" /\ PutFile(f, part, rec)
    BY Zenon DEF WriteBlock, queue, ghosts
  <1>1. /\ proc = "up" /\ files # <<>> /\ f = Last(files).start /\ f \in DOMAIN fs
        /\ IsDir(fs) /\ f \in Nat /\ writer.n \in Nat /\ writer.left \in 1 .. writer.n
        /\ nextblk \in Nat /\ writer.id \in Nat
    <2>1. proc = "up"
      BY <1>0 DEF QueueInv, NotRunning, IdleWriter
    <2> QED
      BY <1>0, <2>1 DEF QueueInv, WriterOK, TypeQ
  <1>2. /\ writer'.pc \in {"write", "fsync"} /\ writer'.n = writer.n
        /\ writer'.left = writer.left - 1 /\ writer'.id = writer.id
    BY DEF WriteBlock, QueueInv, TypeQ
  <1>3. /\ Written = writer.n - writer.left /\ Written' = Written + 1
        /\ Written \in Nat
    BY <1>0, <1>1, <1>2 DEF Written
  <1>4. /\ file \in FileRec /\ file.data \in Seq(Nat) /\ ~file.torn
        /\ Len(file.data) \in Nat
    BY <1>1, DirFacts, UpFacts
  <1>5. /\ rec \in FileRec /\ part \in FileRec
        /\ rec.data = Append(file.data, writer.id) /\ ~rec.torn
        /\ part.data = file.data
    <2>1. Append(file.data, writer.id) \in Seq(Nat)
      BY <1>1, <1>4
    <2>2. /\ rec = [data |-> Append(file.data, writer.id), torn |-> file.torn]
          /\ part = [data |-> file.data, torn |-> TRUE] /\ file.torn \in BOOLEAN
      BY Zenon, <1>4, FileRecExcept
    <2> QED
      BY Zenon, <1>4, <2>1, <2>2 DEF FileRec
  <1> HIDE DEF rec, part
  <1>6. /\ Len(rec.data) = Len(file.data) + 1
        /\ rec.data[Len(file.data) + 1] = writer.id
        /\ \A k \in 1 .. Len(file.data) : rec.data[k] = file.data[k]
    <2> DEFINE D == file.data
    <2>1. D \in Seq(Nat) /\ writer.id \in Nat /\ rec.data = Append(D, writer.id)
      BY <1>1, <1>4, <1>5
    <2> HIDE DEF D
    <2>2. /\ Len(rec.data) = Len(D) + 1 /\ rec.data[Len(D) + 1] = writer.id
          /\ \A k \in 1 .. Len(D) : rec.data[k] = D[k]
      BY ONLY <2>1
    <2> QED
      BY Zenon, <2>2 DEF D
  <1>7. Extends(rec, file) /\ Extends(part, file)
    <2> DEFINE L == Len(file.data)
    <2>1. L \in Nat /\ Len(rec.data) = L + 1 /\ Len(part.data) = L
      BY <1>4, <1>5, <1>6
    <2> HIDE DEF L
    <2>2. Len(rec.data) >= L /\ Len(part.data) >= L
      BY ONLY <2>1
    <2>3. \A k \in 1 .. Len(file.data) : part.data[k] = file.data[k]
      BY Zenon, <1>5
    <2> QED
      BY ONLY <1>6, <2>2, <2>3 DEF Extends, L
  <1>8. /\ DisksGood'
        /\ DOMAIN fs' = DOMAIN fs /\ fs'[f] = rec
        /\ \A g \in DOMAIN fs : g # f => fs'[g] = fs[g]
        /\ \A b \in Nat : \A id : DirHolds(fs, b, id) => DirHolds(fs', b, id)
    BY <1>0, <1>5, <1>7, DurInvTail
  <1>9. Len(file.data) = Last(files).len + Written
    <2>1. Len(files) \in 1 .. Len(files) /\ files[Len(files)].start = f
      BY <1>1, QueueFacts
    <2>2. Len(file.data) = files[Len(files)].len + Written
      BY <1>1, <2>1 DEF DurInv, FilesExact
    <2> QED
      BY <2>2 DEF Last
  <1>10. FilesExact'
    <2>1. \A i \in 1 .. Len(files) : files[i].start \in DOMAIN fs' =>
            Len(fs'[files[i].start].data)
                = files[i].len + (IF i = Len(files) THEN Written' ELSE 0)
      <3> SUFFICES ASSUME NEW i \in 1 .. Len(files), files[i].start \in DOMAIN fs'
                   PROVE  Len(fs'[files[i].start].data)
                            = files[i].len + (IF i = Len(files) THEN Written' ELSE 0)
        BY Zenon
      <3>1. CASE i = Len(files)
        <4>1. files[i].start = f /\ files[i].len = Last(files).len /\ files[i].len \in Nat
          BY <1>1, <3>1, QueueFacts
        <4> QED
          BY <1>3, <1>4, <1>6, <1>8, <1>9, <3>1, <4>1
      <3>2. CASE i # Len(files)
        <4>1. i < Len(files) /\ Len(files) \in 1 .. Len(files)
          BY <1>1, <3>2, QueueFacts
        <4>2. files[i].start < files[Len(files)].start
          BY <4>1 DEF QueueInv, Sorted
        <4>3. files[i].start # f
          BY <1>1, <4>2, QueueFacts
        <4> QED
          BY <1>1, <1>8, <3>2, <4>3 DEF DurInv, FilesExact
      <3> QED
        BY Zenon, <3>1, <3>2
    <2>2. ASSUME NEW g \in DOMAIN fs
          PROVE  /\ ~fs'[g].torn
                 /\ \/ \E i \in 1 .. Len(files) : files[i].start = g
                    \/ /\ deleter.pc = "unlink" /\ deleter.fileno = g
                       /\ g + Len(fs'[g].data) = minblk
      <3>1. CASE g = f
        <4>1. Len(files) \in 1 .. Len(files) /\ files[Len(files)].start = f
          BY <1>1, QueueFacts
        <4> QED
          BY Zenon, <1>5, <1>8, <3>1, <4>1
      <3>2. CASE g # f
        BY <1>1, <1>8, <3>2 DEF DurInv, FilesExact
      <3> QED
        BY <3>1, <3>2
    <2> QED
      BY <1>0, <1>8, <2>1, <2>2 DEF FilesExact
  <1>11. WriterBlocks'
    <2>1. ASSUME NEW b \in nextblk .. nextblk + Written
          PROVE  DirHolds(fs', b, writer.id)
      <3>1. CASE b < nextblk + Written
        <4>1. b \in nextblk .. nextblk + Written - 1 /\ b \in Nat
          BY <1>1, <1>3, <3>1
        <4> QED
          BY Zenon, <1>0, <1>8, <4>1 DEF DurInv, WriterBlocks
      <3>2. CASE b = nextblk + Written
        <4>1. nextblk = f + Last(files).len /\ Last(files).len \in Nat
          BY Zenon, <1>1, QueueFacts
        <4>2. b = f + Len(file.data)
          BY <1>1, <1>3, <1>4, <1>9, <3>2, <4>1
        <4>3. b - f + 1 = Len(file.data) + 1 /\ f <= b /\ b < f + Len(rec.data)
          <5>1. f \in Nat /\ Len(file.data) \in Nat
            BY <1>1, <1>4
          <5>2. Len(rec.data) = Len(file.data) + 1
            BY Zenon, <1>6
          <5> HIDE DEF f, file
          <5> QED
            BY <4>2, <5>1, <5>2
        <4>4. f \in DOMAIN fs' /\ fs'[f] = rec /\ rec.data[b - f + 1] = writer.id
          <5>1. rec.data[Len(file.data) + 1] = writer.id
            BY Zenon, <1>6
          <5> HIDE DEF f, file, rec
          <5> QED
            BY <1>1, <1>8, <4>3, <5>1
        <4> HIDE DEF f, file, rec
        <4> QED
          BY ONLY <4>3, <4>4, Zenon DEF DirHolds
      <3> QED
        BY <1>1, <1>3, <3>1, <3>2
    <2>2. nextblk + Written' - 1 = nextblk + Written
      BY <1>1, <1>3
    <2> QED
      BY Zenon, <1>0, <1>2, <2>1, <2>2 DEF WriterBlocks
  <1> QED
    BY <1>0, <1>2, <1>8, <1>10, <1>11 DEF DurInv, DeleterFrees, AckedBelow, NotCreated

\* fsync, of a file or of the directory: an ordered file system then has
\* nothing but the directory as it is.
LEMMA DurInvSync ==
    ASSUME QueueInv, DurInv, disk' = {fs},
           UNCHANGED <<proc, files, minblk, nextblk, fs, acked, freed>>,
           writer'.n = writer.n, writer'.left = writer.left, writer'.id = writer.id,
           writer'.fnum = writer.fnum,
           writer'.pc = writer.pc \/ (/\ writer.pc \in {"fsync", "syncdir"}
                                     /\ writer'.pc \in {"syncdir", "commit"}),
           deleter' = deleter \/ (deleter.pc = "syncdir"
                                 /\ deleter' = [deleter EXCEPT !.pc = "check"])
    PROVE  DurInv'
  <1>1. Written' = Written
    BY Zenon DEF Written
  <1>2. DisksGood'
    BY Zenon DEF DurInv, DisksGood, AckedIn
  <1>3. deleter'.blkno = deleter.blkno /\ (deleter'.pc = "unlink" <=> deleter.pc = "unlink")
        /\ deleter'.fileno = deleter.fileno /\ (deleter'.pc # "idle" => deleter.pc # "idle")
    BY DEF QueueInv, TypeQ
  <1>4. FilesExact'
    BY Zenon, <1>1, <1>3 DEF DurInv, FilesExact
  <1>5. DeleterFrees' /\ NotCreated' /\ AckedBelow'
    BY Zenon, <1>3 DEF DurInv, DeleterFrees, NotCreated, AckedBelow
  <1>6. WriterBlocks'
    <2>1. writer'.pc \in {"syncdir", "commit"} => Written = writer.n
      <3>1. writer.pc \in {"fsync", "syncdir", "commit"} => writer.left = 0 /\ writer.n \in Nat
        BY Zenon DEF QueueInv, WriterOK, TypeQ
      <3> QED
        BY <3>1 DEF Written
    <2>2. writer'.pc \notin {"idle", "creat"} =>
            \A b \in nextblk .. nextblk + Written - 1 : DirHolds(fs, b, writer.id)
      BY Zenon DEF DurInv, WriterBlocks
    <2> QED
      BY <1>1, <2>1, <2>2 DEF WriterBlocks
  <1> QED
    BY <1>2, <1>4, <1>5, <1>6 DEF DurInv

\* The fsyncs of disk_write and disk_syncdir only narrow what a power loss may leave.
LEMMA DurInvSyncs ==
    ASSUME OrderedFS, QueueInv, DurInv, WriteFsync \/ WriteSyncDir \/ DeleteSyncDir
    PROVE  DurInv'
  <1>1. disk' = {fs} /\ UNCHANGED <<proc, files, minblk, nextblk, fs, acked, freed>>
    BY Zenon DEF WriteFsync, WriteSyncDir, DeleteSyncDir, Fsync, SyncDir, queue, ghosts
  <1>2. CASE WriteFsync \/ WriteSyncDir
    <2>1. /\ writer'.n = writer.n /\ writer'.left = writer.left /\ writer'.id = writer.id
          /\ writer'.fnum = writer.fnum /\ writer.pc \in {"fsync", "syncdir"}
          /\ writer'.pc \in {"syncdir", "commit"} /\ deleter' = deleter
      BY <1>2 DEF WriteFsync, WriteSyncDir, QueueInv, TypeQ
    <2> QED
      BY Zenon, <1>1, <2>1, DurInvSync
  <1>3. CASE DeleteSyncDir
    <2>1. /\ writer' = writer /\ deleter.pc = "syncdir"
          /\ deleter' = [deleter EXCEPT !.pc = "check"]
      BY Zenon, <1>3 DEF DeleteSyncDir
    <2> QED
      BY Zenon, <1>1, <2>1, DurInvSync
  <1> QED
    BY Zenon, <1>2, <1>3

\* storage_write, second locked section.
LEMMA DurInvWriteCommit ==
    ASSUME QueueInv, QueueInv', DurInv, WriteCommit
    PROVE  DurInv'
  <1> DEFINE L == Len(files)
             n == writer.n
             new == nextblk .. nextblk + n - 1
  <1>0. /\ UNCHANGED <<proc, minblk, deleter, fs, disk, freed>>
        /\ writer.pc = "commit" /\ writer' = IdleWriter /\ nextblk' = nextblk + n
        /\ files' = [files EXCEPT ![L].len = @ + n]
        /\ acked' = [b \in DOMAIN acked \cup new |->
                        IF b >= nextblk THEN writer.id ELSE acked[b]]
    BY Zenon DEF WriteCommit, dirs
  <1>1. /\ proc = "up" /\ files # <<>> /\ n \in Nat /\ nextblk \in Nat /\ writer.left = 0
        /\ freed \in Nat /\ DOMAIN acked \subseteq Nat
    <2>1. proc = "up"
      BY <1>0 DEF QueueInv, NotRunning, IdleWriter
    <2> QED
      BY Zenon, <1>0, <2>1 DEF QueueInv, WriterOK, TypeQ, DurInv
  <1>2. Written = n /\ Written' = 0
    BY <1>0, <1>1 DEF Written, IdleWriter
  <1>3. /\ DOMAIN acked' = DOMAIN acked \cup new /\ DOMAIN acked' \subseteq Nat
        /\ \A b \in DOMAIN acked' : b >= freed =>
              \/ b \in new /\ acked'[b] = writer.id
              \/ b \in DOMAIN acked /\ b < nextblk /\ acked'[b] = acked[b]
    <2>1. DOMAIN acked' = DOMAIN acked \cup new /\ DOMAIN acked' \subseteq Nat
      BY <1>0, <1>1
    <2>2. ASSUME NEW b \in DOMAIN acked', b >= freed
          PROVE  \/ b \in new /\ acked'[b] = writer.id
                 \/ b \in DOMAIN acked /\ b < nextblk /\ acked'[b] = acked[b]
      <3>1. b \in DOMAIN acked => b < nextblk
        BY Zenon, <1>1, <2>2 DEF DurInv, AckedBelow
      <3>2. b \in new => b >= nextblk
        BY <1>1
      <3>3. acked'[b] = IF b >= nextblk THEN writer.id ELSE acked[b]
        BY Zenon, <1>0, <2>1
      <3>4. b \in Nat
        BY Zenon, <2>1
      <3> QED
        BY <1>1, <2>1, <3>1, <3>2, <3>3, <3>4
    <2> QED
      BY Zenon, <2>1, <2>2
  <1>4. DisksGood'
    <2>1. ASSUME NEW d \in disk, NEW b \in DOMAIN acked', b >= freed
          PROVE  DirHolds(d, b, acked'[b])
      <3>1. CASE b \in new /\ acked'[b] = writer.id
        BY Zenon, <1>0, <3>1 DEF DurInv, WriterBlocks
      <3>2. CASE b \in DOMAIN acked /\ acked'[b] = acked[b]
        BY Zenon, <2>1, <3>2 DEF DurInv, DisksGood, AckedIn
      <3> QED
        BY Zenon, <1>3, <2>1, <3>1, <3>2
    <2> QED
      BY Zenon, <1>0, <2>1 DEF DurInv, DisksGood, AckedIn
  <1>5. AckedBelow'
    <2>1. \A b \in DOMAIN acked' : b >= freed => b < nextblk + n
      BY <1>1, <1>3
    <2> QED
      BY Zenon, <1>0, <2>1 DEF AckedBelow
  <1>6. FilesExact'
    <2>1. /\ L \in Nat /\ L \in 1 .. L /\ Len(files') = L
          /\ \A i \in 1 .. L : i # L => files'[i] = files[i]
          /\ files'[L].start = files[L].start
          /\ files'[L].len = files[L].len + n /\ files[L].len \in Nat
      <3>1. /\ L \in Nat /\ L >= 1 /\ files \in Seq(FileState)
            /\ \A i \in 1 .. L : files[i] \in FileState /\ files[i].len \in Nat
        BY Zenon, <1>1, QueueFacts DEF QueueInv, TypeQ
      <3>2. files' \in Seq(FileState)
        BY Zenon DEF QueueInv, TypeQ
      <3>3. DOMAIN files = 1 .. L /\ DOMAIN files' = DOMAIN files
        BY <1>0, <3>1
      <3>4. Len(files') = L
        BY <3>1, <3>2, <3>3
      <3>5. \A i \in 1 .. L : i # L => files'[i] = files[i]
        BY Zenon, <1>0, <3>3
      <3>6. files'[L] = [files[L] EXCEPT !.len = @ + n]
        BY <1>0, <3>1, <3>3
      <3>7. files'[L].start = files[L].start /\ files'[L].len = files[L].len + n
        BY <3>1, <3>6 DEF FileState
      <3> QED
        BY <3>1, <3>4, <3>5, <3>7
    <2>2. \A i \in 1 .. L : files[i].start \in DOMAIN fs =>
            Len(fs[files[i].start].data) = files[i].len + (IF i = L THEN n ELSE 0)
      BY Zenon, <1>1, <1>2 DEF DurInv, FilesExact
    <2>3. \A i \in 1 .. L : files'[i].start \in DOMAIN fs =>
            Len(fs[files'[i].start].data) = files'[i].len + 0
      <3> SUFFICES ASSUME NEW i \in 1 .. L, files'[i].start \in DOMAIN fs
                   PROVE  Len(fs[files'[i].start].data) = files'[i].len + 0
        BY Zenon
      <3>1. CASE i = L
        <4>1. Len(fs[files[L].start].data) = files[L].len + n
          BY Zenon, <2>1, <2>2, <3>1
        <4> QED
          BY <1>1, <2>1, <3>1, <4>1
      <3>2. CASE i # L
        <4>1. files'[i] = files[i]
          BY Zenon, <2>1, <3>2
        <4> QED
          BY Zenon, <2>2, <3>2, <4>1
      <3> QED
        BY Zenon, <3>1, <3>2
    <2>4. \A i \in 1 .. Len(files') : files'[i].start \in DOMAIN fs' =>
            Len(fs'[files'[i].start].data)
                = files'[i].len + (IF i = Len(files') THEN Written' ELSE 0)
      BY Zenon, <1>0, <1>2, <2>1, <2>3
    <2>5. \A f \in DOMAIN fs' :
            /\ ~fs'[f].torn
            /\ \/ \E i \in 1 .. Len(files') : files'[i].start = f
               \/ /\ deleter'.pc = "unlink" /\ deleter'.fileno = f
                  /\ f + Len(fs'[f].data) = minblk'
      <3>1. \A i \in 1 .. L : files'[i].start = files[i].start
        BY Zenon, <2>1
      <3>2. \A f \in DOMAIN fs :
              (\E i \in 1 .. L : files[i].start = f) => \E i \in 1 .. L : files'[i].start = f
        BY Zenon, <3>1
      <3> QED
        BY <1>0, <1>1, <2>1, <3>2 DEF DurInv, FilesExact
    <2> QED
      BY Zenon, <2>4, <2>5 DEF FilesExact
  <1>7. DeleterFrees' /\ WriterBlocks' /\ NotCreated'
    BY Zenon, <1>0 DEF DurInv, DeleterFrees, WriterBlocks, NotCreated, IdleWriter
  <1> QED
    BY <1>0, <1>3, <1>4, <1>5, <1>6, <1>7 DEF DurInv

\* storage_delete: a FREE arrives.
LEMMA DurInvDeleteBegin ==
    ASSUME QueueInv, DurInv, NEW b \in Nat, DeleteBegin(b)
    PROVE  DurInv'
  <1>0. /\ UNCHANGED <<proc, files, minblk, nextblk, writer, fs, disk, acked>>
        /\ proc = "up" /\ deleter.pc = "idle" /\ deleter'.pc = "check" /\ deleter'.blkno = b
        /\ freed' = IF b > freed THEN b ELSE freed
    BY Zenon DEF DeleteBegin, queue, dirs
  <1>1. freed' \in Nat /\ freed \in Nat /\ freed <= freed' /\ b <= freed'
        /\ DOMAIN acked \subseteq Nat
    BY <1>0 DEF DurInv
  <1>2. \A c \in DOMAIN acked : c >= freed' => c >= freed
    BY <1>1
  <1>3. DisksGood' /\ AckedBelow'
    BY Zenon, <1>0, <1>2 DEF DurInv, DisksGood, AckedIn, AckedBelow
  <1>4. FilesExact'
    BY Zenon, <1>0 DEF DurInv, FilesExact, Written
  <1>5. DeleterFrees' /\ WriterBlocks' /\ NotCreated'
    BY Zenon, <1>0, <1>1 DEF DurInv, DeleterFrees, WriterBlocks, NotCreated, Written
  <1> QED
    BY Zenon, <1>0, <1>1, <1>3, <1>4, <1>5 DEF DurInv

\* storage_delete: the locked section of the loop.
LEMMA DurInvDeleteCheck ==
    ASSUME QueueInv, QueueInv', DurInv, DeleteCheck
    PROVE  DurInv'
  <1> DEFINE L == Len(files)
  <1>0. /\ UNCHANGED <<proc, writer, fs, disk, acked, freed>> /\ deleter.pc = "check"
        /\ Written' = Written
    BY Zenon DEF DeleteCheck, dirs, ghosts, Written
  <1>1. CASE deleter' = IdleDeleter /\ UNCHANGED <<files, minblk, nextblk>>
    BY Zenon, <1>0, <1>1 DEF DurInv, DisksGood, AckedIn, FilesExact, DeleterFrees, WriterBlocks,
                      NotCreated, AckedBelow, IdleDeleter
  <1>2. CASE /\ ~(L < 2 \/ End(files[1]) > deleter.blkno)
             /\ deleter' = [deleter EXCEPT !.pc = "unlink", !.fileno = files[1].start]
             /\ files' = Tail(files) /\ minblk' = files[2].start /\ nextblk' = nextblk
    <2>1. files # <<>>
      BY <1>2 DEF QueueInv, TypeQ
    <2>2. /\ L \in Nat /\ L >= 2 /\ Len(files') = L - 1
          /\ \A i \in 1 .. L - 1 : files'[i] = files[i + 1]
      <3>1. files \in Seq(FileState) /\ L \in Nat
        BY DEF QueueInv, TypeQ
      <3> QED
        BY <1>2, <2>1, <3>1
    <2>3. deleter'.pc = "unlink" /\ deleter'.fileno = files[1].start
          /\ deleter'.blkno = deleter.blkno /\ deleter.blkno \in Nat
      BY Zenon, <1>2 DEF QueueInv, TypeQ
    <2>4. 1 \in 1 .. L /\ 1 # L /\ files[1].start \in Nat /\ files[1].len \in Nat
      BY <2>1, <2>2, QueueFacts
    <2>5. minblk' = files[1].start + files[1].len /\ minblk' <= deleter.blkno
      <3>1. End(files[1]) = files[2].start
        BY <2>2 DEF QueueInv, StorageInvariants
      <3> QED
        BY <1>2, <2>3, <2>4, <3>1 DEF End
    <2>6. proc = "up"
      BY <1>0 DEF QueueInv, NotRunning, IdleDeleter
    <2>7. \A i \in 1 .. L : files[i].start \in DOMAIN fs =>
            Len(fs[files[i].start].data) = files[i].len + (IF i = L THEN Written ELSE 0)
      BY Zenon, <2>6 DEF DurInv, FilesExact
    <2>8. \A i \in 1 .. Len(files') : files'[i].start \in DOMAIN fs' =>
            Len(fs'[files'[i].start].data)
                = files'[i].len + (IF i = Len(files') THEN Written' ELSE 0)
      <3>1. ASSUME NEW i \in 1 .. L - 1
            PROVE  i + 1 \in 1 .. L /\ (i + 1 = L <=> i = L - 1) /\ files'[i] = files[i + 1]
        BY <2>2
      <3> QED
        BY <1>0, <2>2, <2>7, <3>1
    <2>9. \A f \in DOMAIN fs :
            /\ ~fs[f].torn
            /\ \/ \E i \in 1 .. L - 1 : files'[i].start = f
               \/ files[1].start = f /\ f + Len(fs[f].data) = minblk'
      <3> SUFFICES ASSUME NEW f \in DOMAIN fs
                   PROVE  /\ ~fs[f].torn
                          /\ \/ \E i \in 1 .. L - 1 : files'[i].start = f
                             \/ files[1].start = f /\ f + Len(fs[f].data) = minblk'
        BY Zenon
      <3>1. ~fs[f].torn /\ \E i \in 1 .. L : files[i].start = f
        BY Zenon, <1>0, <2>6 DEF DurInv, FilesExact
      <3>2. PICK i \in 1 .. L : files[i].start = f
        BY Zenon, <3>1
      <3>3. CASE i = 1
        <4>1. Len(fs[f].data) = files[1].len + 0
          BY Zenon, <2>4, <2>7, <3>2, <3>3
        <4> QED
          BY <2>4, <2>5, <3>1, <3>2, <3>3, <4>1
      <3>4. CASE i # 1
        <4>1. i - 1 \in 1 .. L - 1 /\ (i - 1) + 1 = i
          BY <2>2, <3>4
        <4>2. files'[i - 1] = files[i]
          BY Zenon, <2>2, <4>1
        <4> QED
          BY <3>1, <3>2, <4>1, <4>2
      <3> QED
        BY Zenon, <3>3, <3>4
    <2>10. FilesExact'
      BY <1>0, <2>2, <2>3, <2>8, <2>9 DEF FilesExact
    <2>11. DeleterFrees'
      BY <1>0, <2>3, <2>5 DEF DurInv, DeleterFrees
    <2> QED
      BY Zenon, <1>0, <1>2, <2>10, <2>11 DEF DurInv, DisksGood, AckedIn, WriterBlocks, NotCreated, AckedBelow
  <1> QED
    BY Zenon, <1>1, <1>2 DEF DeleteCheck, ElasticDelete, queue

\* storage_delete: unlink.
LEMMA DurInvDeleteUnlink ==
    ASSUME OrderedFS, QueueInv, QueueInv', DurInv, DeleteUnlink
    PROVE  DurInv'
  <1> DEFINE f == deleter.fileno
             e == Keep(fs, DOMAIN fs \ {f})
  <1>0. /\ UNCHANGED <<proc, files, minblk, nextblk, writer, acked, freed>>
        /\ deleter.pc = "unlink" /\ deleter' = [deleter EXCEPT !.pc = "syncdir"]
        /\ fs' = e /\ disk' = disk \cup {e} /\ Written' = Written
    BY Zenon DEF DeleteUnlink, Unlink, Bases, queue, ghosts, Written
  <1>1. /\ proc = "up" /\ f \in Nat /\ f < minblk /\ minblk \in Nat /\ nextblk \in Nat
        /\ IsDir(fs) /\ fs \in disk /\ deleter'.pc = "syncdir" /\ deleter'.blkno = deleter.blkno
        /\ minblk <= deleter.blkno /\ deleter.blkno <= freed /\ freed \in Nat
        /\ deleter.blkno \in Nat /\ DOMAIN acked \subseteq Nat
    <2>1. proc = "up"
      BY Zenon, <1>0 DEF QueueInv, NotRunning, IdleDeleter
    <2> QED
      BY <1>0, <2>1 DEF QueueInv, TypeQ, DeleterOK, DurInv, DisksGood, DeleterFrees
  <1>2. DOMAIN e = DOMAIN fs \ {f} /\ \A g \in DOMAIN e : e[g] = fs[g]
    BY Zenon DEF Keep
  <1>3. \A g \in DOMAIN fs : f <= g
    BY <1>1, UpFacts
  <1>4. GoodDir(e)
    BY <1>1, <1>3, GoodKeep DEF DurInv, DisksGood
  <1>5. f \in DOMAIN fs => f + Len(fs[f].data) = minblk
    BY <1>1, UpFacts
  <1>6. \A b \in Nat : b >= minblk => \A id : DirHolds(fs, b, id) => DirHolds(e, b, id)
    BY Zenon, <1>1, <1>5, HoldsKeep
  <1>7. AckedIn(e)
    BY <1>1, <1>6 DEF DurInv, DisksGood, AckedIn
  <1>8. DisksGood'
    <2>1. \A d \in disk' : GoodDir(d) /\ AckedIn(d)
      BY <1>0, <1>4, <1>7 DEF DurInv, DisksGood
    <2> QED
      BY <1>0, <2>1 DEF DisksGood, AckedIn
  <1>9. FilesExact'
    <2>1. \A i \in 1 .. Len(files) : files[i].start \in DOMAIN e =>
            Len(e[files[i].start].data)
                = files[i].len + (IF i = Len(files) THEN Written ELSE 0)
      BY Zenon, <1>1, <1>2 DEF DurInv, FilesExact
    <2>2. \A g \in DOMAIN e : ~e[g].torn /\ \E i \in 1 .. Len(files) : files[i].start = g
      BY Zenon, <1>1, <1>2 DEF DurInv, FilesExact
    <2> QED
      BY Zenon, <1>0, <2>1, <2>2 DEF FilesExact
  <1>10. WriterBlocks'
    <2>1. minblk <= nextblk
      <3>1. files = <<>> => minblk = nextblk
        BY Zenon DEF QueueInv, StorageInvariants
      <3> QED
        BY <1>1, <3>1, QueueFacts
    <2>2. writer.pc \notin {"idle", "creat"} =>
            \A b \in nextblk .. nextblk + Written - 1 : DirHolds(e, b, writer.id)
      <3>1. \A b \in nextblk .. nextblk + Written - 1 : b \in Nat /\ b >= minblk
        BY <1>1, <2>1
      <3> QED
        BY Zenon, <1>6, <3>1 DEF DurInv, WriterBlocks
    <2>3. writer.pc \in {"syncdir", "commit"} => Written = writer.n
      <3>1. writer.pc \in {"syncdir", "commit"} => writer.left = 0 /\ writer.n \in Nat
        BY Zenon DEF QueueInv, WriterOK, TypeQ
      <3> QED
        BY <3>1 DEF Written
    <2>4. writer.pc \in {"syncdir", "commit"} =>
            \A d \in disk' : \A b \in nextblk .. nextblk + writer.n - 1 : DirHolds(d, b, writer.id)
      BY Zenon, <1>0, <2>2, <2>3 DEF DurInv, WriterBlocks
    <2> QED
      BY <1>0, <2>2, <2>4 DEF WriterBlocks
  <1>11. DeleterFrees' /\ NotCreated' /\ AckedBelow'
    BY <1>0, <1>1, <1>2 DEF DurInv, DeleterFrees, NotCreated, AckedBelow
  <1> QED
    BY <1>0, <1>8, <1>9, <1>10, <1>11 DEF DurInv

\* The process dies, with or without the power.
LEMMA DurInvDown ==
    ASSUME OrderedFS, QueueInv, DurInv, Down, UNCHANGED <<acked, freed>>,
           TornWrite \/ (fs' \in disk /\ disk' = {fs'})
    PROVE  DurInv'
  <1>1. DisksGood'
    <2>1. CASE fs' \in disk /\ disk' = {fs'}
      BY <2>1 DEF DurInv, DisksGood, AckedIn
    <2>2. CASE UNCHANGED dirs
      BY <2>2 DEF DurInv, DisksGood, AckedIn, dirs
    <2>3. CASE TornWrite /\ ~UNCHANGED dirs
      <3> DEFINE rec == [fs[writer.fnum] EXCEPT !.torn = TRUE]
      <3>1. writer.pc = "write" /\ writer.fnum \in DOMAIN fs
            /\ PutFile(writer.fnum, rec, rec) /\ IsDir(fs)
        BY <2>3 DEF TornWrite, QueueInv, WriterOK, TypeQ
      <3>2. fs[writer.fnum] \in FileRec /\ Len(fs[writer.fnum].data) \in Nat
        BY <3>1, DirFacts
      <3>3. rec = [data |-> fs[writer.fnum].data, torn |-> TRUE]
            /\ fs[writer.fnum].data \in Seq(Nat)
        BY Zenon, <3>2, FileRecExcept
      <3>4. rec \in FileRec /\ rec.data = fs[writer.fnum].data
        BY Zenon, <3>3 DEF FileRec
      <3> HIDE DEF rec
      <3>5. Extends(rec, fs[writer.fnum])
        BY <3>2, <3>4 DEF Extends
      <3> QED
        BY <3>1, <3>4, <3>5, DurInvTail
    <2> QED
      BY <2>1, <2>2, <2>3 DEF TornWrite
  <1> QED
    BY Zenon, <1>1 DEF DurInv, Down, FilesExact, DeleterFrees, WriterBlocks, NotCreated, AckedBelow,
                IdleWriter, IdleDeleter

\* Every step of the threads, of a crash and of storage_init keeps DurInv.
LEMMA DurInvNext ==
    ASSUME SetFacts, OrderedFS, QueueInv, DurInv, [Next]_vars
    PROVE  DurInv'
  <1>0. QueueInv'
    BY Zenon, QueueInvNext
  <1>1. CASE StorageInit
    BY <1>1, DurInvStorageInit
  <1>2. CASE \E n \in 1 .. MaxAppend : WriteBegin(n)
    BY <1>0, <1>2, DurInvWriteBegin
  <1>3. CASE Write
    BY <1>0, <1>3, DurInvWriteCreat, DurInvWriteBlock, DurInvSyncs, DurInvWriteCommit DEF Write
  <1>4. CASE \E b \in 0 .. MaxBlk + FreeBeyond : DeleteBegin(b)
    <2>1. \A b \in 0 .. MaxBlk + FreeBeyond : b \in Nat
      BY LbsStorageAssumption
    <2> QED
      BY <1>4, <2>1, DurInvDeleteBegin
  <1>5. CASE Delete
    BY Zenon, <1>0, <1>5, DurInvDeleteCheck, DurInvDeleteUnlink, DurInvSyncs DEF Delete
  <1>6. CASE UNCHANGED <<proc, queue, writer, deleter, dirs, ghosts>>
    BY Zenon, <1>6 DEF queue, dirs, ghosts, DurInv, DisksGood, AckedIn, FilesExact, DeleterFrees,
                WriterBlocks, NotCreated, AckedBelow, Written
  <1>7. CASE \E r \in Readers, b \in 0 .. MaxBlk : ReadLookup(r, b)
    BY Zenon, <1>6, <1>7 DEF ReadLookup
  <1>8. CASE \E r \in Readers : Read(r)
    <2>1. PICK r \in Readers : Read(r)
      BY Zenon, <1>8
    <2>2. CASE ReadError(r)
      BY <2>2, DurInvDown DEF ReadError
    <2>3. CASE ~ReadError(r)
      BY Zenon, <1>6, <2>1, <2>3 DEF Read, ReadPath, ReadBlock, ReadReturn
    <2> QED
      BY <2>2, <2>3
  <1>9. CASE Kill \/ PowerLoss
    BY <1>9, DurInvDown DEF Kill, PowerLoss
  <1>10. CASE UNCHANGED vars
    BY <1>6, <1>10 DEF vars
  <1> QED
    BY <1>1, <1>2, <1>3, <1>4, <1>5, <1>7, <1>8, <1>9, <1>10 DEF Next

\* The block that storage_read's lookup finds is the one the directory holds.
LEMMA LookupFinds ==
    ASSUME QueueInv, DurInv, proc = "up", NEW b \in Nat, b >= freed, b < nextblk,
           NEW id, DirHolds(fs, b, id)
    PROVE  Held(b) /\ BlockAt(b) = id
  <1>1. /\ b \in Nat /\ freed \in Nat /\ minblk \in Nat /\ nextblk \in Nat /\ b < nextblk
        /\ IsDir(fs)
    BY Zenon DEF DurInv, QueueInv, TypeQ
  <1>2. PICK f \in DOMAIN fs :
          f <= b /\ b < f + Len(fs[f].data) /\ fs[f].data[b - f + 1] = id
    BY Zenon DEF DirHolds
  <1>3. f \in Nat /\ Len(fs[f].data) \in Nat
    BY <1>1, DirFacts
  <1>4. f >= minblk
    <2>1. SUFFICES ASSUME f < minblk PROVE FALSE
      BY <1>1, <1>3
    <2>2. deleter.pc = "unlink" /\ f + Len(fs[f].data) = minblk
      BY <2>1, UpFacts
    <2>3. minblk <= deleter.blkno /\ deleter.blkno <= freed /\ deleter.blkno \in Nat
      BY <2>2 DEF DurInv, DeleterFrees, QueueInv, TypeQ
    <2> QED
      BY <1>1, <1>2, <1>3, <2>2, <2>3
  <1>5. PICK i \in 1 .. Len(files) : files[i].start = f
    BY <1>4, UpFacts
  <1>6. files # <<>>
    BY <1>5
  <1>7. /\ Len(files) \in Nat /\ Last(files) = files[Len(files)]
        /\ \A j \in 1 .. Len(files) : files[j].start \in Nat /\ files[j].len \in Nat
        /\ nextblk = End(Last(files))
    BY <1>6, QueueFacts DEF QueueInv, StorageInvariants
  <1>8. b < End(files[i])
    <2>1. CASE i = Len(files)
      BY <1>1, <1>7, <2>1
    <2>2. CASE i # Len(files)
      <3>1. Len(fs[f].data) = files[i].len + 0
        BY <1>5, <2>2 DEF DurInv, FilesExact
      <3> QED
        BY <1>2, <1>3, <1>5, <1>7, <3>1 DEF End
    <2> QED
      BY <2>1, <2>2
  <1>9. \A j \in 1 .. i - 1 : b >= End(files[j])
    <2> SUFFICES ASSUME NEW j \in 1 .. i - 1 PROVE b >= End(files[j])
      BY Zenon
    <2>1. j \in 1 .. Len(files) - 1 /\ j + 1 \in 1 .. Len(files) /\ (j + 1 = i \/ j + 1 < i)
      BY <1>7
    <2>2. End(files[j]) = files[j + 1].start
      BY Zenon, <2>1 DEF QueueInv, StorageInvariants
    <2>3. files[j + 1].start <= files[i].start
      <3>1. CASE j + 1 = i
        BY <1>7, <3>1
      <3>2. CASE j + 1 < i
        <4>1. files[j + 1].start < files[i].start
          BY Zenon, <2>1, <3>2 DEF QueueInv, Sorted
        <4> QED
          BY <1>7, <2>1, <4>1
      <3> QED
        BY <2>1, <3>1, <3>2
    <2> QED
      BY <1>1, <1>2, <1>3, <1>5, <1>7, <2>1, <2>2, <2>3
  <1>10. FileIndex(b) = i
    <2>1. ASSUME NEW k \in 1 .. Len(files), b < End(files[k]),
                 \A j \in 1 .. k - 1 : b >= End(files[j])
          PROVE  k = i
      <3>1. \A j \in 1 .. Len(files) : End(files[j]) \in Nat
        BY <1>7 DEF End
      <3>2. k < i => k \in 1 .. i - 1
        BY <1>7
      <3>3. i < k => i \in 1 .. k - 1
        BY <1>7
      <3>4. ~(k < i) /\ ~(i < k)
        BY <1>1, <1>8, <1>9, <2>1, <3>1, <3>2, <3>3
      <3> QED
        BY <1>7, <3>4
    <2> QED
      BY Zenon, <1>8, <1>9, <2>1 DEF FileIndex
  <1> QED
    BY <1>1, <1>2, <1>3, <1>4, <1>5, <1>10 DEF Held, BlockAt

\* So it finds every acknowledged block that is not freed.
LEMMA AckedFound ==
    ASSUME QueueInv, DurInv, proc = "up", NEW b \in DOMAIN acked, b >= freed
    PROVE  Held(b) /\ BlockAt(b) = acked[b]
  <1>1. b \in Nat /\ b < nextblk /\ DirHolds(fs, b, acked[b])
    BY Zenon DEF DurInv, AckedBelow, DisksGood, AckedIn
  <1> QED
    BY Zenon, <1>1, LookupFinds

-----------------------------------------------------------------------------
(***************************************************************************)
(* LbsStorage implements BlockStore on an ordered file system, if clients  *)
(* free only blocks that are there.                                        *)
(*                                                                         *)
(* The argument: the directories that a power loss may leave differ only in*)
(* where their blocks end and in what was freed.  The end of the directory *)
(* is where storage_write is; the first of those ends is what BlockStore   *)
(* calls stable.  A step then moves the one or the other end, or none.     *)
(***************************************************************************)
\* e is where the blocks of d end; the file that ends there has blocks.
IsEnd(d, e) ==
    /\ e \in Nat /\ \A f \in DOMAIN d : f + Len(d[f].data) <= e
    /\ e = 0 \/ \E f \in DOMAIN d : Len(d[f].data) > 0 /\ f + Len(d[f].data) = e

\* All the blocks from `freed' on that d has are in fs, which has no fewer.
Older(d) ==
    /\ EndOf(d) <= EndOf(fs)
    /\ \A b \in Nat : freed <= b /\ b < EndOf(d) =>
          \E id : DirHolds(d, b, id) /\ DirHolds(fs, b, id)

\* Every directory that a power loss may leave has an end, and one ends first.
Ends ==
    /\ \A d \in disk : IsEnd(d, EndOf(d)) /\ Older(d)
    /\ \E d \in disk : \A e \in disk : EndOf(d) <= EndOf(e)

\* The writer's place is the end of the directory.
AtEnd ==
    /\ proc = "up" => minblk <= freed /\ EndOf(fs) = nextblk + Written
    /\ writer.pc = "idle" => writer = IdleWriter
    /\ writer.pc # "idle" => writer.n > 0
    /\ deleter.pc # "idle" => deleter.blkno < nextblk

\* Together these are inductive, given QueueInv and DurInv.
RefInv == Ends /\ AtEnd

\* A step of the directory that takes no block away but those freed.
BlocksStay ==
    \A b \in Nat : \A id : freed <= b /\ DirHolds(fs, b, id) => DirHolds(fs', b, id)

\* EndOf, by which the refinement says where a directory's blocks end, is that place.
LEMMA EndIs ==
    ASSUME NEW d, IsDir(d), NEW e, IsEnd(d, e)
    PROVE  EndOf(d) = e
  <1> DEFINE S == {0} \cup {f + Len(d[f].data) : f \in DOMAIN d}
  <1>1. \A f \in DOMAIN d : f + Len(d[f].data) \in Nat
    BY DirFacts
  <1>2. e \in S /\ \A f \in DOMAIN d : f + Len(d[f].data) <= e
    BY Zenon DEF IsEnd
  <1>3. ASSUME NEW x \in S, \A f \in DOMAIN d : f + Len(d[f].data) <= x
        PROVE  x = e
    <2>1. x \in Nat /\ e \in Nat /\ x <= e
      BY <1>1, <1>3 DEF IsEnd
    <2>2. e <= x
      BY <1>1, <1>3, <2>1 DEF IsEnd
    <2> QED
      BY <2>1, <2>2
  <1> HIDE DEF S
  <1> QED
    BY <1>2, <1>3 DEF EndOf, S

\* A block is in one file: BlockIn, what storage_init would serve, is what is held.
LEMMA HoldsOne ==
    ASSUME NEW d, IsDir(d), GoodDir(d), NEW b \in Nat, NEW id, DirHolds(d, b, id)
    PROVE  BlockIn(d, b) = id
  <1>1. PICK f \in DOMAIN d : f <= b /\ b < f + Len(d[f].data) /\ d[f].data[b - f + 1] = id
    BY Zenon DEF DirHolds
  <1>2. ASSUME NEW g \in DOMAIN d, g <= b, b < g + Len(d[g].data)
        PROVE  g = f
    <2>1. f \in Nat /\ g \in Nat /\ Len(d[f].data) \in Nat /\ Len(d[g].data) \in Nat
      BY Zenon, DirFacts
    <2>2. f < g => f + Len(d[f].data) <= g
      BY Zenon DEF GoodDir
    <2>3. g < f => g + Len(d[g].data) <= f
      BY Zenon DEF GoodDir
    <2> QED
      BY <1>1, <1>2, <2>1, <2>2, <2>3
  <1>3. f = CHOOSE g \in DOMAIN d : g <= b /\ b < g + Len(d[g].data)
    BY Zenon, <1>1, <1>2
  <1> QED
    BY Zenon, <1>1, <1>3 DEF BlockIn

\* No file of a directory holds a block past its end.
LEMMA HeldBelow ==
    ASSUME NEW d, IsDir(d), NEW e, IsEnd(d, e), NEW b \in Nat, NEW id, DirHolds(d, b, id)
    PROVE  b < e
  <1>1. PICK f \in DOMAIN d : f <= b /\ b < f + Len(d[f].data)
    BY Zenon DEF DirHolds
  <1>2. f \in Nat /\ Len(d[f].data) \in Nat /\ e \in Nat /\ f + Len(d[f].data) <= e
    BY Zenon, DirFacts DEF IsEnd
  <1> QED
    BY <1>1, <1>2

\* write(2), or open(2) with O_CREAT, at the end of the files moves the end.
LEMMA EndPut ==
    ASSUME NEW d, IsDir(d), NEW e, IsEnd(d, e), NEW f \in Nat, NEW rec \in FileRec,
           f \in DOMAIN d => Len(rec.data) >= Len(d[f].data),
           f + Len(rec.data) >= e, Len(rec.data) > 0 \/ f + Len(rec.data) = e
    PROVE  IsEnd(Put(d, f, rec), f + Len(rec.data))
  <1> DEFINE p == Put(d, f, rec)
             x == f + Len(rec.data)
  <1>1. /\ DOMAIN p = DOMAIN d \cup {f} /\ p[f] = rec
        /\ \A g \in DOMAIN d : g # f => p[g] = d[g]
    BY Zenon DEF Put
  <1>2. Len(rec.data) \in Nat /\ x \in Nat /\ e \in Nat
    BY FileRecExcept DEF IsEnd
  <1>3. \A g \in DOMAIN d : g \in Nat /\ Len(d[g].data) \in Nat /\ g + Len(d[g].data) <= e
    BY Zenon, DirFacts DEF IsEnd
  <1> HIDE DEF p
  <1>4. ASSUME NEW g \in DOMAIN p PROVE g + Len(p[g].data) <= x
    BY <1>1, <1>2, <1>3
  <1>5. x = 0 \/ \E g \in DOMAIN p : Len(p[g].data) > 0 /\ g + Len(p[g].data) = x
    <2>1. CASE Len(rec.data) > 0
      BY Zenon, <1>1, <2>1
    <2>2. CASE x = e /\ e # 0 /\ ~(Len(rec.data) > 0)
      <3>1. PICK g \in DOMAIN d : Len(d[g].data) > 0 /\ g + Len(d[g].data) = e
        BY Zenon, <2>2 DEF IsEnd
      <3>2. g # f
        BY <1>2, <1>3, <2>2, <3>1
      <3> QED
        BY <1>1, <2>2, <3>1, <3>2
    <2> QED
      BY Zenon, <2>1, <2>2
  <1> QED
    BY Zenon, <1>2, <1>4, <1>5 DEF IsEnd, p

\* unlink(2) of a file that ends before the end leaves the end where it is.
LEMMA EndKeep ==
    ASSUME NEW d, IsDir(d), NEW e, IsEnd(d, e), NEW f \in Nat,
           f \in DOMAIN d => f + Len(d[f].data) < e
    PROVE  IsEnd(Keep(d, DOMAIN d \ {f}), e)
  <1> DEFINE k == Keep(d, DOMAIN d \ {f})
  <1>1. DOMAIN k = DOMAIN d \ {f} /\ \A g \in DOMAIN k : k[g] = d[g]
    BY Zenon DEF Keep
  <1>2. \A g \in DOMAIN d : g \in Nat /\ Len(d[g].data) \in Nat /\ g + Len(d[g].data) <= e
    BY Zenon, DirFacts DEF IsEnd
  <1> HIDE DEF k
  <1>3. e \in Nat
    BY Zenon DEF IsEnd
  <1>4. e = 0 \/ \E g \in DOMAIN k : Len(k[g].data) > 0 /\ g + Len(k[g].data) = e
    <2>1. CASE e # 0
      <3>1. PICK g \in DOMAIN d : Len(d[g].data) > 0 /\ g + Len(d[g].data) = e
        BY Zenon, <2>1 DEF IsEnd
      <3>2. g # f
        BY <1>2, <1>3, <3>1
      <3> QED
        BY Zenon, <1>1, <3>1, <3>2
    <2> QED
      BY Zenon, <2>1
  <1> QED
    BY Zenon, <1>1, <1>2, <1>3, <1>4 DEF IsEnd, k

\* All that the refinement rests on.
StoreInv == QueueInv /\ DurInv /\ RefInv

\* What BlockStore's state is.
View ==
    /\ absNext \in Nat /\ absNext <= EndOf(fs) /\ EndOf(fs) <= absNext + writer.n
    /\ EndOf(fs) \in Nat /\ writer.n \in Nat /\ freed \in Nat /\ writer.id \in Nat
    /\ absStable \in Nat /\ \A d \in disk : absStable <= EndOf(d)
    /\ \E d \in disk : absStable = EndOf(d)
    /\ absLog = [b \in {c \in Nat : freed <= c /\ c < absNext} |-> absLog[b]]
    /\ \A b \in Nat : freed <= b /\ b < absNext => DirHolds(fs, b, absLog[b])
    /\ \A b \in Nat : \A id : freed <= b /\ b < absNext /\ DirHolds(fs, b, id) => absLog[b] = id

\* absStable is the end of the shortest directory that a power loss may leave.
LEMMA LeastIs ==
    ASSUME \A d \in disk : EndOf(d) \in Nat, NEW d \in disk,
           \A e \in disk : EndOf(d) <= EndOf(e)
    PROVE  absStable = EndOf(d)
  <1>1. ASSUME NEW x \in {EndOf(e) : e \in disk}, \A e \in disk : x <= EndOf(e)
        PROVE  x = EndOf(d)
    <2>1. PICK e \in disk : x = EndOf(e)
      BY Zenon
    <2>2. x <= EndOf(d) /\ EndOf(d) <= x /\ x \in Nat /\ EndOf(d) \in Nat
      BY Zenon, <1>1, <2>1
    <2> QED
      BY <2>2
  <1>2. EndOf(d) \in {EndOf(e) : e \in disk}
    BY Zenon
  <1> QED
    BY Zenon, <1>1, <1>2 DEF absStable

\* While the daemon runs, storage_read finds what the directory holds; so BlockStore's
\* log is what the directory holds, whether or not the daemon runs.
LEMMA InvView == StoreInv => View
  <1> SUFFICES ASSUME StoreInv PROVE View
    BY Zenon
  <1>1. QueueInv /\ DurInv /\ Ends /\ AtEnd
    BY Zenon DEF StoreInv, RefInv
  <1>2. /\ fs \in disk /\ IsDir(fs) /\ GoodDir(fs) /\ IsEnd(fs, EndOf(fs)) /\ Older(fs)
        /\ freed \in Nat /\ writer.n \in Nat /\ writer.id \in Nat /\ nextblk \in Nat
    BY Zenon, <1>1 DEF QueueInv, TypeQ, DurInv, DisksGood, Ends
  <1>3. \A d \in disk : EndOf(d) \in Nat
    BY Zenon, <1>1 DEF Ends, IsEnd
  <1>4. PICK d0 \in disk : \A e \in disk : EndOf(d0) <= EndOf(e)
    BY Zenon, <1>1 DEF Ends
  <1>5. absStable = EndOf(d0)
    BY Zenon, <1>3, <1>4, LeastIs
  <1>6. absNext \in Nat /\ absNext <= EndOf(fs) /\ EndOf(fs) <= absNext + writer.n
    <2>1. CASE proc = "up"
      <3>1. Written \in Nat /\ Written <= writer.n
        <4>1. writer.pc \in {"idle", "creat"} \/ (writer.left \in Nat /\ writer.left <= writer.n)
          BY <1>1, <1>2 DEF QueueInv, TypeQ, WriterOK
        <4> QED
          BY <1>2, <4>1 DEF Written
      <3> QED
        BY <1>1, <1>2, <2>1, <3>1 DEF AtEnd, absNext
    <2>2. CASE proc # "up"
      BY <1>2, <1>3, <2>2 DEF absNext
    <2> QED
      BY Zenon, <2>1, <2>2
  <1>7. ASSUME NEW b \in Nat, freed <= b, b < absNext
        PROVE  \E id : DirHolds(fs, b, id)
    <2>1. b < EndOf(fs)
      BY <1>2, <1>3, <1>6, <1>7
    <2> QED
      BY Zenon, <1>2, <1>7, <2>1 DEF Older
  <1>8. ASSUME NEW b \in Nat, freed <= b, b < absNext, NEW id, DirHolds(fs, b, id)
        PROVE  /\ proc = "up" => Held(b) /\ BlockAt(b) = id
               /\ BlockIn(fs, b) = id
    <2>1. BlockIn(fs, b) = id
      BY Zenon, <1>2, <1>8, HoldsOne
    <2>2. CASE proc = "up"
      <3>1. b >= freed /\ b < nextblk
        BY Zenon, <1>2, <1>8, <2>2 DEF absNext
      <3>2. Held(b) /\ BlockAt(b) = id
        BY Zenon, <1>1, <1>8, <2>2, <3>1, LookupFinds
      <3> QED
        BY Zenon, <2>1, <3>2
    <2> QED
      BY Zenon, <2>1, <2>2
  <1> DEFINE S == {c \in Nat : freed <= c /\ c < absNext}
  <1>9. {c \in freed .. absNext - 1 : proc = "up" => Held(c)} = S
    <2>1. \A c : c \in freed .. absNext - 1 <=> c \in S
      BY <1>2, <1>6
    <2>2. \A c \in S : proc = "up" => Held(c)
      BY Zenon, <1>7, <1>8
    <2> QED
      BY Zenon, <2>1, <2>2
  <1>10. absLog = [b \in S |-> IF proc = "up" THEN BlockAt(b) ELSE BlockIn(fs, b)]
    BY Zenon, <1>9 DEF absLog
  <1> HIDE DEF S
  <1>11. absLog = [b \in S |-> absLog[b]]
    BY Zenon, <1>10
  <1>12. ASSUME NEW b \in Nat, freed <= b, b < absNext, NEW id, DirHolds(fs, b, id)
         PROVE  absLog[b] = id
    <2>1. b \in S
      BY Zenon, <1>12 DEF S
    <2>2. absLog[b] = IF proc = "up" THEN BlockAt(b) ELSE BlockIn(fs, b)
      BY Zenon, <1>10, <2>1
    <2>3. (proc = "up" => BlockAt(b) = id) /\ BlockIn(fs, b) = id
      BY Zenon, <1>8, <1>12
    <2> QED
      BY Zenon, <2>2, <2>3
  <1>13. ASSUME NEW b \in Nat, freed <= b, b < absNext
         PROVE  DirHolds(fs, b, absLog[b])
    BY Zenon, <1>7, <1>12, <1>13
  <1>14. /\ absStable \in Nat /\ \A d \in disk : absStable <= EndOf(d)
         /\ \E d \in disk : absStable = EndOf(d)
    BY Zenon, <1>3, <1>4, <1>5
  <1>15. absLog = [b \in {c \in Nat : freed <= c /\ c < absNext} |-> absLog[b]]
    BY Zenon, <1>11 DEF S
  <1> QED
    BY Zenon, <1>2, <1>3, <1>6, <1>12, <1>13, <1>14, <1>15 DEF View

\* The same after a step.
LEMMA NextView == StoreInv' => View'
  BY InvView, PTL

\* The directory changes and nothing is synced: the end does not move back, and
\* every block from `freed' on stays.
LEMMA EndsGrow ==
    ASSUME Ends, fs \in disk, NEW N, disk' = disk \cup N, freed' = freed,
           EndOf(fs) <= EndOf(fs'), EndOf(fs') \in Nat,
           BlocksStay,
           \A d \in N : IsEnd(d, EndOf(d)) /\ EndOf(fs) <= EndOf(d) /\ Older(d)'
    PROVE  Ends' /\ absStable' = absStable
  <1>1. \A d \in disk' : EndOf(d) \in Nat
    BY Zenon DEF Ends, IsEnd
  <1>2. ASSUME NEW d \in disk PROVE IsEnd(d, EndOf(d)) /\ Older(d)'
    <2>1. IsEnd(d, EndOf(d)) /\ Older(d)
      BY Zenon DEF Ends
    <2>2. EndOf(d) <= EndOf(fs) /\ EndOf(d) \in Nat /\ EndOf(fs) \in Nat
      BY Zenon, <1>1, <2>1 DEF Older
    <2>3. EndOf(d) <= EndOf(fs')
      BY <2>2
    <2>4. ASSUME NEW b \in Nat, freed <= b, b < EndOf(d)
          PROVE  \E id : DirHolds(d, b, id) /\ DirHolds(fs', b, id)
      BY Zenon, <2>1, <2>4 DEF Older, BlocksStay
    <2> QED
      BY Zenon, <2>1, <2>3, <2>4 DEF Older
  <1>3. PICK d0 \in disk : \A e \in disk : EndOf(d0) <= EndOf(e)
    BY Zenon DEF Ends
  <1>4. ASSUME NEW e \in disk' PROVE EndOf(d0) <= EndOf(e)
    <2>1. CASE e \in N
      <3>1. EndOf(d0) <= EndOf(fs) /\ EndOf(fs) <= EndOf(e)
        BY <1>3, <2>1
      <3>2. EndOf(d0) \in Nat /\ EndOf(fs) \in Nat /\ EndOf(e) \in Nat
        BY Zenon, <1>1
      <3> QED
        BY <3>1, <3>2
    <2> QED
      BY <1>3, <2>1
  <1>5. d0 \in disk' /\ \A d \in disk : EndOf(d) \in Nat
    BY Zenon, <1>1
  <1>6. absStable = EndOf(d0)
    BY Zenon, <1>3, <1>5, LeastIs
  <1>7. absStable' = EndOf(d0)
    <2>1. ASSUME NEW x \in {EndOf(e) : e \in disk'}, \A e \in disk' : x <= EndOf(e)
          PROVE  x = EndOf(d0)
      <3>1. PICK e \in disk' : x = EndOf(e)
        BY Zenon, <2>1
      <3>2. x <= EndOf(d0) /\ EndOf(d0) <= x /\ x \in Nat /\ EndOf(d0) \in Nat
        BY <1>1, <1>4, <1>5, <2>1, <3>1
      <3> QED
        BY <3>2
    <2>2. EndOf(d0) \in {EndOf(e) : e \in disk'}
      BY Zenon, <1>5
    <2> QED
      BY <1>4, <2>1, <2>2 DEF absStable
  <1>8. \A d \in disk' : IsEnd(d, EndOf(d)) /\ Older(d)'
    BY Zenon, <1>2
  <1> QED
    BY Zenon, <1>4, <1>5, <1>6, <1>7, <1>8 DEF Ends

\* fsync(2), or a loss of power: one directory is left, one that the disk may have.
LEMMA EndsOne ==
    ASSUME Ends, NEW d \in disk, fs' = d, disk' = {d}, freed' = freed
    PROVE  Ends' /\ absStable' = EndOf(d)
  <1>1. IsEnd(d, EndOf(d)) /\ Older(d) /\ EndOf(d) \in Nat
    BY Zenon DEF Ends, IsEnd
  <1>2. Older(d)'
    <2>1. EndOf(d) <= EndOf(d)
      BY <1>1
    <2>2. \A b \in Nat : freed <= b /\ b < EndOf(d) => \E id : DirHolds(d, b, id)
      BY Zenon, <1>1 DEF Older
    <2> QED
      BY Zenon, <2>1, <2>2 DEF Older
  <1>3. absStable' = EndOf(d)
    <2>1. {EndOf(e) : e \in disk'} = {EndOf(d)}
      BY Zenon
    <2>2. \A e \in disk' : EndOf(d) <= EndOf(e)
      BY <1>1
    <2> QED
      BY Zenon, <2>1, <2>2 DEF absStable
  <1>4. Ends'
    <2>1. \A e \in disk' : IsEnd(e, EndOf(e)) /\ Older(e)'
      BY Zenon, <1>1, <1>2
    <2>2. d \in disk' /\ \A e \in disk' : EndOf(d) <= EndOf(e)
      BY <1>1
    <2> QED
      BY Zenon, <2>1, <2>2 DEF Ends
  <1> QED
    BY <1>3, <1>4

\* The blocks end where the tail of the queue does, once its file is there.
TailEnd ==
    proc = "up" /\ writer.pc # "creat" /\ IsEnd(fs, EndOf(fs)) =>
        EndOf(fs) = nextblk + Written

\* S->nextblk, and the blocks that storage_write has added, reach the end of the files.
LEMMA UpEnd == QueueInv /\ DurInv => TailEnd
  <1> SUFFICES ASSUME QueueInv, DurInv, proc = "up", writer.pc # "creat", IsEnd(fs, EndOf(fs))
               PROVE  EndOf(fs) = nextblk + Written
    BY Zenon DEF TailEnd
  <1>1. IsDir(fs) /\ GoodDir(fs) /\ nextblk \in Nat /\ minblk \in Nat /\ EndOf(fs) \in Nat
    BY Zenon DEF QueueInv, TypeQ, DurInv, DisksGood, IsEnd
  <1>2. CASE files = <<>>
    <2>1. minblk = 0 /\ nextblk = 0
      BY Zenon, <1>2 DEF QueueInv, StorageInvariants
    <2>2. ASSUME NEW f \in DOMAIN fs PROVE FALSE
      <3>1. f \in Nat /\ \E i \in 1 .. Len(files) : files[i].start = f
        BY <1>1, <2>1, UpFacts
      <3> QED
        BY <1>2, <3>1
    <2>3. writer.pc = "idle"
      BY Zenon, <1>2 DEF QueueInv, WriterOK
    <2>4. Written = 0
      BY Zenon, <2>3 DEF Written
    <2> QED
      BY <2>1, <2>2, <2>4 DEF IsEnd
  <1>3. CASE files # <<>>
    <2> DEFINE l == Last(files).start
    <2>1. /\ Len(files) \in 1 .. Len(files) /\ files[Len(files)].start = l /\ l \in Nat
          /\ Last(files).len \in Nat /\ nextblk = l + Last(files).len
          /\ Last(files) = files[Len(files)]
      BY <1>3, QueueFacts
    <2>2. l \in DOMAIN fs
      BY Zenon, <2>1 DEF QueueInv, FilesOnDisk
    <2>3. Len(fs[l].data) = Last(files).len + Written
      BY Zenon, <2>1, <2>2 DEF DurInv, FilesExact
    <2>4. Len(fs[l].data) \in Nat /\ Written \in Int
      <3>1. writer.n \in Nat /\ writer.left \in Nat
        BY Zenon DEF QueueInv, TypeQ
      <3> QED
        BY <1>1, <2>2, <3>1, DirFacts DEF Written
    <2> HIDE DEF l
    <2>5. l + Len(fs[l].data) = nextblk + Written
      BY <1>1, <2>1, <2>3, <2>4
    <2>6. l + Len(fs[l].data) <= EndOf(fs)
      BY Zenon, <2>2 DEF IsEnd
    <2>7. EndOf(fs) <= l + Len(fs[l].data)
      <3>1. CASE EndOf(fs) # 0
        <4>1. PICK g \in DOMAIN fs : g + Len(fs[g].data) = EndOf(fs)
          BY Zenon, <3>1 DEF IsEnd
        <4>2. g <= l
          BY Zenon, <1>3, UpFacts DEF l
        <4>3. g < l => g + Len(fs[g].data) <= l
          BY Zenon, <1>1, <2>2 DEF GoodDir
        <4>4. g \in Nat
          BY Zenon, <1>1, DirFacts
        <4> QED
          BY <1>1, <2>1, <2>4, <4>1, <4>2, <4>3, <4>4
      <3> QED
        BY <2>1, <2>4, <3>1
    <2>8. l + Len(fs[l].data) \in Nat
      BY <2>1, <2>4
    <2> QED
      BY <1>1, <2>5, <2>6, <2>7, <2>8
  <1> QED
    BY Zenon, <1>2, <1>3

\* The same after a step.
LEMMA NextUpEnd == QueueInv' /\ DurInv' => TailEnd'
  BY UpEnd, PTL

\* The queue begins with the first file.
QueueFirst ==
    proc = "up" =>
    /\ minblk <= nextblk
    /\ deleter.pc = "idle" => \A f \in DOMAIN fs : minblk <= f

\* S->minblk is where the first file begins, unless storage_delete is at work.
LEMMA UpFirst == QueueInv /\ DurInv => QueueFirst
  <1> SUFFICES ASSUME QueueInv, DurInv, proc = "up" PROVE QueueFirst
    BY Zenon DEF QueueFirst
  <1>1. minblk \in Nat /\ nextblk \in Nat
    BY Zenon DEF QueueInv, TypeQ
  <1>2. minblk <= nextblk
    <2>1. CASE files = <<>>
      BY <1>1, <2>1 DEF QueueInv, StorageInvariants
    <2> QED
      BY Zenon, <2>1, QueueFacts
  <1>3. ASSUME deleter.pc = "idle", NEW f \in DOMAIN fs PROVE minblk <= f
    BY <1>1, <1>3, UpFacts
  <1> QED
    BY Zenon, <1>2, <1>3 DEF QueueFirst

\* The same after a step.
LEMMA NextUpFirst == QueueInv' /\ DurInv' => QueueFirst'
  BY UpFirst, PTL

\* What storage_write has added comes right after BlockStore's blocks.
LEMMA WrittenEnd ==
    ASSUME StoreInv
    PROVE  /\ EndOf(fs) = absNext + Written /\ Written \in 0 .. writer.n
           /\ proc # "up" => writer = IdleWriter
           /\ \A b \in Nat : absNext <= b /\ b < absNext + Written => DirHolds(fs, b, writer.id)
  <1>1. QueueInv /\ DurInv /\ Ends /\ AtEnd /\ View
    BY Zenon, InvView DEF StoreInv, RefInv
  <1>2. proc # "up" => writer = IdleWriter
    BY Zenon, <1>1 DEF QueueInv, NotRunning
  <1>3. Written \in 0 .. writer.n
    <2>1. writer.pc \in {"idle", "creat"} \/ (writer.left \in Nat /\ writer.left <= writer.n)
      BY <1>1 DEF QueueInv, TypeQ, WriterOK
    <2>2. writer.n \in Nat
      BY Zenon, <1>1 DEF View
    <2> QED
      BY <2>1, <2>2 DEF Written
  <1>4. EndOf(fs) = absNext + Written
    <2>1. CASE proc = "up"
      BY Zenon, <1>1, <2>1 DEF AtEnd, absNext
    <2>2. CASE proc # "up"
      <3>1. Written = 0
        BY <1>2, <2>2 DEF Written, IdleWriter
      <3>2. EndOf(fs) \in Nat
        BY Zenon, <1>1 DEF View
      <3> QED
        BY <2>2, <3>1, <3>2 DEF absNext
    <2> QED
      BY Zenon, <2>1, <2>2
  <1>5. ASSUME NEW b \in Nat, absNext <= b, b < absNext + Written
        PROVE  DirHolds(fs, b, writer.id)
    <2>1. absNext \in Nat /\ Written # 0
      BY <1>1, <1>3, <1>5 DEF View
    <2>2. writer.pc \notin {"idle", "creat"}
      BY Zenon, <2>1 DEF Written
    <2>3. proc = "up"
      BY <1>2, <2>2 DEF IdleWriter
    <2>4. absNext = nextblk
      BY Zenon, <2>3 DEF absNext
    <2>5. b \in nextblk .. nextblk + Written - 1
      BY <1>1, <1>3, <1>5, <2>1, <2>4 DEF View
    <2> QED
      BY Zenon, <1>1, <2>2, <2>5 DEF DurInv, WriterBlocks
  <1> QED
    BY <1>2, <1>3, <1>4, <1>5

\* A step of storage.c that keeps the blocks leaves BlockStore's log as it is.
LEMMA SameLog ==
    ASSUME View, View', UNCHANGED <<absNext, freed>>,
           BlocksStay
    PROVE  absLog' = absLog
  <1> DEFINE S == {c \in Nat : freed <= c /\ c < absNext}
  <1>1. absLog = [b \in S |-> absLog[b]] /\ absLog' = [b \in S |-> absLog'[b]]
    BY Zenon DEF View
  <1>2. ASSUME NEW b \in S PROVE absLog'[b] = absLog[b]
    <2>1. DirHolds(fs', b, absLog[b])
      BY Zenon DEF View, BlocksStay
    <2> QED
      BY Zenon, <2>1 DEF View
  <1> HIDE DEF S
  <1> QED
    BY Zenon, <1>1, <1>2

\* One that makes k blocks of storage_write's part of the store adds them to the log.
LEMMA GrownLog ==
    ASSUME StoreInv, View', freed' = freed, NEW k \in Nat, absNext' = absNext + k,
           k <= Written,
           BlocksStay
    PROVE  absLog' = Abstract!Grown(k)
  <1>1. View /\ Written \in 0 .. writer.n
        /\ \A b \in Nat : absNext <= b /\ b < absNext + Written => DirHolds(fs, b, writer.id)
    BY Zenon, InvView, WrittenEnd
  <1>2. absNext \in Nat /\ freed \in Nat /\ Written \in Nat
    BY <1>1 DEF View
  <1> DEFINE S == {c \in Nat : freed <= c /\ c < absNext}
             T == {c \in Nat : freed <= c /\ c < absNext + k}
             G == DOMAIN absLog \cup {c \in absNext .. absNext + k - 1 : c >= freed}
  <1>3. DOMAIN absLog = S /\ absLog' = [b \in T |-> absLog'[b]]
    BY Zenon, <1>1 DEF View
  <1>4. G = T
    BY <1>2, <1>3
  <1>5. ASSUME NEW b \in T
        PROVE  absLog'[b] = IF b < absNext THEN absLog[b] ELSE absPend.id
    <2>1. CASE b < absNext
      <3>1. DirHolds(fs', b, absLog[b])
        BY Zenon, <1>1, <2>1 DEF View, BlocksStay
      <3>2. absLog'[b] = absLog[b]
        BY Zenon, <3>1 DEF View
      <3> QED
        BY Zenon, <2>1, <3>2
    <2>2. CASE ~(b < absNext)
      <3>1. absNext <= b /\ b < absNext + Written
        BY <1>2, <2>2
      <3>2. DirHolds(fs', b, writer.id)
        BY Zenon, <1>1, <3>1 DEF BlocksStay
      <3>3. absLog'[b] = writer.id
        BY Zenon, <3>2 DEF View
      <3> QED
        BY Zenon, <2>2, <3>3 DEF absPend
    <2> QED
      BY Zenon, <2>1, <2>2
  <1> HIDE DEF S, T
  <1>6. absLog' = [b \in T |-> IF b < absNext THEN absLog[b] ELSE absPend.id]
    BY Zenon, <1>3, <1>5
  <1>7. absLog' = [b \in G |-> IF b < absNext THEN absLog[b] ELSE absPend.id]
    BY Zenon, <1>4, <1>6
  <1> QED
    BY Zenon, <1>7 DEF Abstract!Grown

\* After a step, the tail of storage.c's queue ends where the directory does.
LEMMA EndNext ==
    ASSUME QueueInv', DurInv', Ends', proc' = "up", writer'.pc # "creat"
    PROVE  EndOf(fs') = nextblk' + Written'
  <1>1. TailEnd'
    BY Zenon, NextUpEnd
  <1>2. IsEnd(fs, EndOf(fs))'
    BY Zenon DEF DurInv, DisksGood, Ends
  <1> QED
    BY Zenon, <1>1, <1>2 DEF TailEnd

\* open, write or ftruncate of the last file: no block is lost.
LEMMA EndsPut ==
    ASSUME OrderedFS, QueueInv, DurInv, Ends, freed' = freed, NEW f \in Nat,
           NEW part \in FileRec, NEW rec \in FileRec, PutFile(f, part, rec),
           f \in DOMAIN fs => Extends(part, fs[f]) /\ Extends(rec, fs[f]),
           QueueInv', f + Len(part.data) = EndOf(fs),
           Len(rec.data) = Len(part.data) \/ Len(rec.data) = Len(part.data) + 1
    PROVE  /\ Ends' /\ absStable' = absStable
           /\ EndOf(fs') = f + Len(rec.data)
           /\ BlocksStay
  <1> PICK p, r : p = Put(fs, f, part) /\ r = Put(fs, f, rec)
    BY Zenon
  <1>1. /\ fs \in disk /\ IsDir(fs) /\ IsEnd(fs, EndOf(fs)) /\ Older(fs) /\ EndOf(fs) \in Nat
        /\ Len(part.data) \in Nat /\ Len(rec.data) \in Nat /\ fs' = r /\ freed \in Nat
    <2>1. Len(part.data) \in Nat /\ Len(rec.data) \in Nat
      BY FileRecExcept
    <2> QED
      BY Zenon, <2>1 DEF QueueInv, TypeQ, DurInv, DisksGood, Ends, IsEnd, PutFile
  <1>2. disk' = disk \cup {p, r}
    BY DEF PutFile, Bases
  <1>3. IsEnd(p, f + Len(part.data)) /\ IsEnd(r, f + Len(rec.data))
    <2>1. /\ f \in DOMAIN fs => /\ Len(part.data) >= Len(fs[f].data)
                                /\ Len(rec.data) >= Len(fs[f].data)
          /\ f + Len(part.data) >= EndOf(fs) /\ f + Len(rec.data) >= EndOf(fs)
          /\ Len(rec.data) > 0 \/ f + Len(rec.data) = EndOf(fs)
      <3>1. \A l, m, e \in Nat : f + l = e /\ (m = l \/ m = l + 1) =>
              /\ f + l >= e /\ f + m >= e /\ (m > 0 \/ f + m = e)
        BY ONLY f \in Nat
      <3> QED
        BY Zenon, <1>1, <3>1 DEF Extends
    <2> QED
      BY Zenon, <1>1, <2>1, EndPut
  <1>4. IsDir(p) /\ IsDir(r)
    <2>1. \A d \in disk' : IsDir(d)
      BY Zenon DEF QueueInv, TypeQ, IsDir
    <2> QED
      BY Zenon, <1>2, <2>1
  <1>5. EndOf(p) = EndOf(fs) /\ EndOf(r) = f + Len(rec.data)
    BY Zenon, <1>3, <1>4, EndIs
  <1>6. /\ \A b \in Nat : \A id : DirHolds(fs, b, id) => DirHolds(p, b, id)
        /\ \A b \in Nat : \A id : DirHolds(fs, b, id) => DirHolds(r, b, id)
    BY Zenon, <1>1, HoldsPut DEF Extends
  <1>7. EndOf(fs) <= EndOf(r) /\ EndOf(r) \in Nat
    BY <1>1, <1>5
  <1>8. ASSUME NEW b \in Nat, freed <= b, b < EndOf(r)
        PROVE  \E id : DirHolds(r, b, id)
    <2>1. CASE b < EndOf(fs)
      BY Zenon, <1>1, <1>6, <1>8, <2>1 DEF Older
    <2>2. CASE ~(b < EndOf(fs))
      <3>1. f <= b /\ b < f + Len(rec.data)
        BY <1>1, <1>5, <1>8, <2>2
      <3>2. f \in DOMAIN r /\ r[f] = rec
        BY Zenon DEF Put
      <3>3. DirHolds(r, b, rec.data[b - f + 1])
        BY Zenon, <3>1, <3>2 DEF DirHolds
      <3> QED
        BY Zenon, <3>3
    <2> QED
      BY Zenon, <2>1, <2>2
  <1>9. Older(r)'
    <2>1. EndOf(r) <= EndOf(r)
      BY <1>7
    <2> QED
      BY Zenon, <1>1, <1>8, <2>1 DEF Older
  <1>10. Older(p)'
    <2>1. ASSUME NEW b \in Nat, freed <= b, b < EndOf(p)
          PROVE  \E id : DirHolds(p, b, id) /\ DirHolds(r, b, id)
      BY Zenon, <1>1, <1>5, <1>6, <2>1 DEF Older
    <2>2. EndOf(p) <= EndOf(r)
      BY Zenon, <1>5, <1>7
    <2> QED
      BY Zenon, <1>1, <2>1, <2>2 DEF Older
  <1>11. \A d \in {p, r} : IsEnd(d, EndOf(d)) /\ EndOf(fs) <= EndOf(d) /\ Older(d)'
    <2>1. EndOf(fs) <= EndOf(p)
      BY <1>1, <1>5
    <2>2. IsEnd(p, EndOf(p)) /\ IsEnd(r, EndOf(r))
      BY Zenon, <1>3, <1>5
    <2> QED
      BY Zenon, <1>7, <1>9, <1>10, <2>1, <2>2
  <1>12. BlocksStay
    BY Zenon, <1>1, <1>6 DEF BlocksStay
  <1>13. Ends' /\ absStable' = absStable
    <2> DEFINE N == {p, r}
    <2>1. disk' = disk \cup N /\ EndOf(fs) <= EndOf(fs') /\ EndOf(fs') \in Nat
      BY Zenon, <1>1, <1>2, <1>7
    <2>2. \A d \in N : IsEnd(d, EndOf(d)) /\ EndOf(fs) <= EndOf(d) /\ Older(d)'
      BY Zenon, <1>11
    <2> HIDE DEF N
    <2> QED
      BY Zenon, <1>1, <1>12, <2>1, <2>2, EndsGrow
  <1> QED
    BY Zenon, <1>1, <1>5, <1>12, <1>13

\* The file that storage_write works on ends where the blocks end.
LEMMA TailFile ==
    ASSUME StoreInv, writer.pc \notin {"idle", "creat"}
    PROVE  /\ proc = "up" /\ writer.fnum \in Nat /\ writer.fnum \in DOMAIN fs
           /\ fs[writer.fnum] \in FileRec /\ Len(fs[writer.fnum].data) \in Nat
           /\ writer.fnum + Len(fs[writer.fnum].data) = EndOf(fs)
  <1> DEFINE f == writer.fnum
  <1>1. QueueInv /\ DurInv /\ AtEnd
    BY Zenon DEF StoreInv, RefInv
  <1>2. proc = "up"
    BY <1>1 DEF QueueInv, NotRunning, IdleWriter
  <1>3. /\ files # <<>> /\ f = Last(files).start /\ f \in DOMAIN fs /\ IsDir(fs) /\ f \in Nat
        /\ nextblk \in Nat
    BY Zenon, <1>1 DEF QueueInv, WriterOK, TypeQ
  <1>4. fs[f] \in FileRec /\ Len(fs[f].data) \in Nat
    BY Zenon, <1>3, DirFacts
  <1>5. /\ Len(files) \in 1 .. Len(files) /\ files[Len(files)].start = f
        /\ Last(files) = files[Len(files)]
        /\ Last(files).len \in Nat /\ nextblk = f + Last(files).len
    BY <1>1, <1>3, QueueFacts
  <1>6. Len(fs[f].data) = Last(files).len + Written
    BY Zenon, <1>1, <1>2, <1>3, <1>5 DEF DurInv, FilesExact
  <1>7. Written \in Int
    <2>1. writer.n \in Nat /\ writer.left \in Nat
      BY Zenon, <1>1 DEF QueueInv, TypeQ
    <2> QED
      BY <2>1 DEF Written
  <1>8. EndOf(fs) = nextblk + Written
    BY Zenon, <1>1, <1>2 DEF AtEnd
  <1> HIDE DEF f
  <1>9. f + Len(fs[f].data) = EndOf(fs)
    BY <1>3, <1>5, <1>6, <1>7, <1>8
  <1> QED
    BY Zenon, <1>2, <1>3, <1>4, <1>9 DEF f

\* A file to which disk_write has added a block, or part of one.
LEMMA NewBlock ==
    ASSUME NEW file \in FileRec, NEW id \in Nat
    PROVE  LET part == [file EXCEPT !.torn = TRUE]
               rec == [file EXCEPT !.data = Append(@, id)] IN
           /\ rec \in FileRec /\ part \in FileRec
           /\ rec.data = Append(file.data, id) /\ rec.torn = file.torn
           /\ part.data = file.data
           /\ Len(part.data) = Len(file.data) /\ Len(rec.data) = Len(file.data) + 1
           /\ rec.data[Len(file.data) + 1] = id
           /\ Extends(rec, file) /\ Extends(part, file)
  <1> DEFINE part == [file EXCEPT !.torn = TRUE]
             rec == [file EXCEPT !.data = Append(@, id)]
             D == file.data
  <1>1. /\ rec = [data |-> Append(D, id), torn |-> file.torn]
        /\ part = [data |-> D, torn |-> TRUE] /\ file.torn \in BOOLEAN /\ D \in Seq(Nat)
    BY Zenon, FileRecExcept
  <1> HIDE DEF part, rec, D
  <1>2. Append(D, id) \in Seq(Nat)
    BY <1>1
  <1>3. rec \in FileRec /\ part \in FileRec /\ rec.data = Append(D, id) /\ part.data = D
        /\ rec.torn = file.torn
    BY Zenon, <1>1, <1>2 DEF FileRec
  <1>4. /\ Len(Append(D, id)) = Len(D) + 1 /\ Append(D, id)[Len(D) + 1] = id /\ Len(D) \in Nat
        /\ \A k \in 1 .. Len(D) : Append(D, id)[k] = D[k]
    BY <1>1
  <1>5. Len(D) >= Len(D) /\ Len(D) + 1 >= Len(D)
    BY <1>4
  <1>6. /\ Len(rec.data) = Len(D) + 1 /\ rec.data[Len(D) + 1] = id /\ Len(part.data) = Len(D)
        /\ \A k \in 1 .. Len(D) : rec.data[k] = D[k]
    BY Zenon, <1>3, <1>4
  <1>7. Extends(rec, file) /\ Extends(part, file)
    BY Zenon, <1>3, <1>5, <1>6 DEF Extends, D
  <1> QED
    BY Zenon, <1>3, <1>6, <1>7 DEF part, rec, D

\* A step of storage.c that keeps the blocks and their number is none of BlockStore's.
LEMMA SameView ==
    ASSUME View, View', UNCHANGED <<absNext, absStable, freed>>, absPend' = absPend, BlocksStay
    PROVE  UNCHANGED Abstract!blockstore
  <1>1. absLog' = absLog
    BY Zenon, SameLog
  <1> QED
    BY Zenon, <1>1 DEF Abstract!blockstore

\* A step of storage.c that leaves the directory alone leaves its blocks alone.
LEMMA SameDirs ==
    ASSUME Ends, UNCHANGED <<fs, disk, freed>>
    PROVE  Ends' /\ absStable' = absStable /\ BlocksStay
  BY Zenon DEF Ends, Older, absStable, BlocksStay

\* storage_write, first locked section: an APPEND begins.
LEMMA RefWriteBegin ==
    ASSUME StoreInv, QueueInv', DurInv', NEW n \in 1 .. MaxAppend, WriteBegin(n)
    PROVE  RefInv' /\ Abstract!AppendStart(appends + 1, n)
  <1>1. /\ UNCHANGED <<proc, minblk, nextblk, deleter, fs, disk, freed>>
        /\ proc = "up" /\ writer.pc = "idle"
    BY Zenon DEF WriteBegin, dirs
  <1>2. /\ writer'.pc \in {"creat", "write"} /\ writer'.id = appends + 1 /\ writer'.n = n
        /\ writer'.left = n
    BY DEF WriteBegin
  <1>3. Ends /\ AtEnd /\ View /\ nextblk \in Nat /\ n \in Nat /\ n > 0
    BY InvView, LbsStorageAssumption DEF StoreInv, RefInv, QueueInv, TypeQ
  <1>4. Written = 0 /\ Written' = 0
    BY <1>1, <1>2, <1>3 DEF Written
  <1>5. Ends' /\ absStable' = absStable /\ BlocksStay
    BY Zenon, <1>1, <1>3, SameDirs
  <1>6. AtEnd'
    BY Zenon, <1>1, <1>2, <1>3, <1>4 DEF AtEnd
  <1>7. RefInv' /\ View'
    BY Zenon, <1>5, <1>6, NextView DEF RefInv, StoreInv
  <1>8. absNext' = absNext
    BY Zenon, <1>1 DEF absNext
  <1>9. absLog' = absLog
    BY Zenon, <1>1, <1>3, <1>5, <1>7, <1>8, SameLog
  <1>10. absPend = Abstract!NoAppend /\ absPend' = [id |-> appends + 1, n |-> n]
    <2>1. writer = IdleWriter
      BY Zenon, <1>1, <1>3 DEF AtEnd
    <2> QED
      BY Zenon, <1>2, <2>1 DEF absPend, IdleWriter, NoBlock, Abstract!NoAppend
  <1> QED
    BY Zenon, <1>1, <1>5, <1>7, <1>8, <1>9, <1>10 DEF Abstract!AppendStart

\* storage_write: open.
LEMMA RefWriteCreat ==
    ASSUME OrderedFS, StoreInv, QueueInv', DurInv', WriteCreat
    PROVE  RefInv' /\ UNCHANGED Abstract!blockstore
  <1>1. /\ UNCHANGED <<proc, minblk, nextblk, deleter, freed>>
        /\ writer.pc = "creat" /\ PutFile(writer.fnum, EmptyFile, EmptyFile)
        /\ writer' = [writer EXCEPT !.pc = "write"]
    BY Zenon DEF WriteCreat, queue, ghosts
  <1>2. QueueInv /\ DurInv /\ Ends /\ AtEnd /\ View
    BY Zenon, InvView DEF StoreInv, RefInv
  <1>3. /\ writer.fnum \in Nat /\ writer.fnum = nextblk /\ writer.fnum \notin DOMAIN fs
        /\ writer.left = writer.n /\ writer.n \in Nat /\ nextblk \in Nat
        /\ writer'.pc = "write" /\ writer'.left = writer.left /\ writer'.n = writer.n
        /\ writer'.id = writer.id
    BY Zenon, <1>1, <1>2 DEF QueueInv, TypeQ, WriterOK, DurInv, NotCreated
  <1>4. proc = "up"
    BY Zenon, <1>1, <1>2 DEF QueueInv, NotRunning, IdleWriter
  <1>5. EmptyFile \in FileRec /\ Len(EmptyFile.data) = 0
    BY DEF EmptyFile, FileRec
  <1>6. EndOf(fs) = nextblk /\ EndOf(fs) \in Nat
    <2>1. Written = 0
      BY Zenon, <1>1 DEF Written
    <2> QED
      BY <1>2, <1>3, <1>4, <2>1 DEF AtEnd
  <1>7. /\ writer.fnum + Len(EmptyFile.data) = EndOf(fs)
        /\ Len(EmptyFile.data) = Len(EmptyFile.data)
    BY <1>3, <1>5, <1>6
  <1>8. Ends' /\ absStable' = absStable /\ BlocksStay
    BY Zenon, <1>1, <1>2, <1>3, <1>5, <1>7, EndsPut
  <1>9. EndOf(fs') = nextblk' + Written'
    BY <1>1, <1>3, <1>4, <1>8, EndNext
  <1>10. AtEnd'
    BY <1>1, <1>2, <1>3, <1>4, <1>9 DEF AtEnd
  <1>11. RefInv' /\ View'
    BY Zenon, <1>8, <1>10, NextView DEF RefInv, StoreInv
  <1>12. absNext' = absNext /\ absPend' = absPend
    BY Zenon, <1>1, <1>3, <1>4 DEF absNext, absPend
  <1> QED
    BY Zenon, <1>1, <1>2, <1>8, <1>11, <1>12, SameView

\* disk_write: one more block.
LEMMA RefWriteBlock ==
    ASSUME OrderedFS, StoreInv, QueueInv', DurInv', WriteBlock
    PROVE  RefInv' /\ UNCHANGED Abstract!blockstore
  <1> DEFINE f == writer.fnum
             file == fs[f]
             part == [file EXCEPT !.torn = TRUE]
             rec == [file EXCEPT !.data = Append(@, writer.id)]
  <1>1. /\ UNCHANGED <<proc, minblk, nextblk, deleter, freed>>
        /\ writer.pc = "write" /\ PutFile(f, part, rec)
    BY Zenon DEF WriteBlock, queue, ghosts
  <1>2. QueueInv /\ DurInv /\ Ends /\ AtEnd /\ View
    BY Zenon, InvView DEF StoreInv, RefInv
  <1>3. /\ writer'.pc \in {"write", "fsync"} /\ writer'.n = writer.n /\ writer'.id = writer.id
        /\ writer.id \in Nat
    BY Zenon, <1>2 DEF WriteBlock, QueueInv, TypeQ
  <1>4. /\ proc = "up" /\ f \in Nat /\ f \in DOMAIN fs /\ file \in FileRec
        /\ f + Len(file.data) = EndOf(fs)
    BY Zenon, <1>1, TailFile
  <1>5. /\ rec \in FileRec /\ part \in FileRec /\ Len(part.data) = Len(file.data)
        /\ Len(rec.data) = Len(file.data) + 1
        /\ Extends(rec, file) /\ Extends(part, file)
    BY Zenon, <1>3, <1>4, NewBlock
  <1> HIDE DEF part, rec, f
  <1>6. f + Len(part.data) = EndOf(fs) /\ Len(rec.data) = Len(part.data) + 1
    BY Zenon, <1>4, <1>5
  <1>7. Ends' /\ absStable' = absStable /\ BlocksStay
    BY Zenon, <1>1, <1>2, <1>4, <1>5, <1>6, EndsPut
  <1>8. EndOf(fs') = nextblk' + Written'
    BY <1>1, <1>3, <1>4, <1>7, EndNext
  <1>9. AtEnd'
    BY <1>1, <1>2, <1>3, <1>4, <1>8 DEF AtEnd
  <1>10. RefInv' /\ View'
    BY Zenon, <1>7, <1>9, NextView DEF RefInv, StoreInv
  <1>11. absNext' = absNext /\ absPend' = absPend
    BY Zenon, <1>1, <1>3, <1>4 DEF absNext, absPend
  <1> QED
    BY Zenon, <1>1, <1>2, <1>7, <1>10, <1>11, SameView

\* fsync, of a file or of the directory: the blocks reach the disk.
LEMMA RefSync ==
    ASSUME OrderedFS, StoreInv, QueueInv', DurInv', WriteFsync \/ WriteSyncDir \/ DeleteSyncDir
    PROVE  RefInv' /\ Abstract!Settle
  <1>1. disk' = {fs} /\ UNCHANGED <<proc, minblk, nextblk, fs, freed>>
    BY Zenon DEF WriteFsync, WriteSyncDir, DeleteSyncDir, Fsync, SyncDir, queue, ghosts
  <1>2. QueueInv /\ DurInv /\ Ends /\ AtEnd /\ View /\ fs \in disk
    BY Zenon, InvView DEF StoreInv, RefInv, DurInv, DisksGood
  <1>3. /\ writer'.n = writer.n /\ writer'.left = writer.left /\ writer'.id = writer.id
        /\ writer' = writer \/ (writer.pc \in {"fsync", "syncdir"}
                                /\ writer'.pc \in {"syncdir", "commit"})
        /\ deleter'.blkno = deleter.blkno /\ (deleter'.pc # "idle" => deleter.pc # "idle")
    <2>1. CASE WriteFsync
      BY <1>2, <2>1 DEF WriteFsync, QueueInv, TypeQ
    <2>2. CASE WriteSyncDir
      BY <1>2, <2>2 DEF WriteSyncDir, QueueInv, TypeQ
    <2>3. CASE DeleteSyncDir
      BY <1>2, <2>3 DEF DeleteSyncDir, QueueInv, TypeQ
    <2> QED
      BY Zenon, <2>1, <2>2, <2>3
  <1>4. Written' = Written
    BY Zenon, <1>3 DEF Written
  <1>5. Ends' /\ absStable' = EndOf(fs)
    BY Zenon, <1>1, <1>2, EndsOne
  <1>6. AtEnd'
    BY <1>1, <1>2, <1>3, <1>4 DEF AtEnd
  <1>7. RefInv' /\ View'
    BY <1>5, <1>6, NextView DEF RefInv, StoreInv
  <1>8. absNext' = absNext /\ absPend' = absPend
    BY Zenon, <1>1, <1>3 DEF absNext, absPend
  <1>9. BlocksStay
    BY Zenon, <1>1 DEF BlocksStay
  <1>10. absLog' = absLog
    BY Zenon, <1>1, <1>2, <1>7, <1>8, <1>9, SameLog
  <1>11. EndOf(fs) \in absStable .. absNext + absPend.n
    <2>1. absPend.n = writer.n
      BY Zenon DEF absPend
    <2>2. /\ absStable \in Nat /\ EndOf(fs) \in Nat /\ absStable <= EndOf(fs)
          /\ absNext \in Nat /\ writer.n \in Nat /\ EndOf(fs) <= absNext + writer.n
      BY Zenon, <1>2 DEF View
    <2> QED
      BY <2>1, <2>2
  <1> QED
    BY Zenon, <1>1, <1>5, <1>7, <1>8, <1>10, <1>11 DEF Abstract!Settle

\* storage_write, second locked section: the APPEND is done.
LEMMA RefWriteCommit ==
    ASSUME StoreInv, QueueInv', DurInv', WriteCommit
    PROVE  RefInv' /\ Abstract!AppendDone
  <1> DEFINE n == writer.n
  <1>1. /\ UNCHANGED <<proc, minblk, deleter, fs, disk, freed>>
        /\ writer.pc = "commit" /\ writer' = IdleWriter /\ nextblk' = nextblk + n
    BY Zenon DEF WriteCommit, dirs
  <1>2. QueueInv /\ DurInv /\ Ends /\ AtEnd /\ View
    BY Zenon, InvView DEF StoreInv, RefInv
  <1>3. /\ proc = "up" /\ writer.left = 0 /\ n \in Nat /\ n > 0 /\ nextblk \in Nat
        /\ deleter.blkno \in Nat
    <2>1. proc = "up"
      BY Zenon, <1>1, TailFile
    <2>2. n \in Nat /\ nextblk \in Nat /\ deleter.blkno \in Nat
      BY <1>2 DEF QueueInv, TypeQ
    <2>3. writer.left = 0
      BY <1>1, <1>2 DEF QueueInv, WriterOK
    <2>4. n > 0
      BY Zenon, <1>1, <1>2 DEF AtEnd
    <2> QED
      BY <2>1, <2>2, <2>3, <2>4
  <1>4. Written = n /\ Written' = 0 /\ absNext = nextblk /\ absNext' = absNext + n
    BY <1>1, <1>3 DEF Written, IdleWriter, absNext
  <1>5. Ends' /\ absStable' = absStable /\ BlocksStay
    BY Zenon, <1>1, <1>2, SameDirs
  <1>6. EndOf(fs) = nextblk + n
    BY <1>2, <1>3, <1>4 DEF AtEnd
  <1>7. AtEnd'
    <2>1. deleter.pc # "idle" => deleter.blkno < nextblk + n
      BY <1>2, <1>3 DEF AtEnd
    <2>2. minblk <= freed /\ EndOf(fs) = nextblk + n + 0
      BY <1>2, <1>3, <1>6 DEF AtEnd
    <2> QED
      BY <1>1, <1>4, <2>1, <2>2 DEF AtEnd, IdleWriter
  <1>8. RefInv' /\ View'
    BY Zenon, <1>5, <1>7, NextView DEF RefInv, StoreInv
  <1>9. absLog' = Abstract!Grown(n)
    BY <1>1, <1>3, <1>4, <1>5, <1>8, GrownLog
  <1>10. ASSUME NEW d \in disk
         PROVE  EndOf(d) = nextblk + n
    <2>1. IsDir(d) /\ IsEnd(d, EndOf(d)) /\ Older(d) /\ EndOf(d) \in Nat
      BY Zenon, <1>2 DEF QueueInv, TypeQ, Ends, IsEnd
    <2>2. nextblk + n - 1 \in nextblk .. nextblk + n - 1 /\ nextblk + n - 1 \in Nat
      BY <1>3
    <2>3. DirHolds(d, nextblk + n - 1, writer.id)
      BY Zenon, <1>1, <1>2, <2>2 DEF DurInv, WriterBlocks
    <2>4. nextblk + n - 1 < EndOf(d)
      BY Zenon, <2>1, <2>2, <2>3, HeldBelow
    <2> QED
      BY <1>3, <1>6, <2>1, <2>4 DEF Older
  <1>11. absStable = absNext + n
    BY Zenon, <1>2, <1>4, <1>10 DEF View
  <1>12. /\ absPend # Abstract!NoAppend /\ absPend' = Abstract!NoAppend /\ absPend.n = n
    BY <1>1, <1>3 DEF absPend, Abstract!NoAppend, IdleWriter, NoBlock
  <1> QED
    BY Zenon, <1>1, <1>4, <1>5, <1>8, <1>9, <1>11, <1>12 DEF Abstract!AppendDone

\* storage_delete: a FREE begins.
LEMMA RefDeleteBegin ==
    ASSUME FreeBeyond = 0, StoreInv, QueueInv', DurInv', NEW b \in Nat, DeleteBegin(b)
    PROVE  RefInv' /\ b \in 0 .. absNext /\ Abstract!Free(b)
  <1>1. /\ UNCHANGED <<proc, minblk, nextblk, writer, fs, disk>> /\ proc = "up"
        /\ deleter'.pc = "check" /\ deleter'.blkno = b /\ b < nextblk + 0
        /\ freed' = IF b > freed THEN b ELSE freed
    BY Zenon DEF DeleteBegin, queue, dirs
  <1>2. Ends /\ AtEnd /\ View /\ nextblk \in Nat /\ minblk \in Nat /\ freed \in Nat
    BY Zenon, InvView DEF StoreInv, RefInv, QueueInv, TypeQ, DurInv
  <1>3. freed' \in Nat /\ freed <= freed' /\ b < nextblk
    BY <1>1, <1>2
  <1>4. absNext' = absNext /\ absPend' = absPend /\ absStable' = absStable /\ Written' = Written
        /\ absNext = nextblk
    BY Zenon, <1>1 DEF absNext, absPend, absStable, Written
  <1>5. Ends'
    <2>1. \A c \in Nat : freed' <= c => freed <= c
      BY <1>2, <1>3
    <2>2. ASSUME NEW d \in disk PROVE Older(d)'
      BY Zenon, <1>1, <1>2, <2>1 DEF Ends, Older
    <2> QED
      BY Zenon, <1>1, <1>2, <2>2 DEF Ends
  <1>6. AtEnd'
    BY <1>1, <1>2, <1>3, <1>4 DEF AtEnd
  <1>7. RefInv' /\ View'
    BY Zenon, <1>5, <1>6, NextView DEF RefInv, StoreInv
  <1> DEFINE S == {c \in Nat : freed <= c /\ c < absNext}
             T == {c \in Nat : freed' <= c /\ c < absNext}
  <1>8. DOMAIN absLog = S
    BY Zenon, <1>2 DEF View
  <1>9. {c \in DOMAIN absLog : c >= freed'} = T
    BY <1>2, <1>3, <1>8
  <1>10. absLog' = [c \in T |-> absLog'[c]]
    BY Zenon, <1>4, <1>7 DEF View
  <1>11. ASSUME NEW c \in T PROVE absLog'[c] = absLog[c]
    <2>1. c \in Nat /\ freed <= c /\ freed' <= c /\ c < absNext
      BY <1>2, <1>3
    <2>2. DirHolds(fs', c, absLog[c])
      BY Zenon, <1>1, <1>2, <2>1 DEF View
    <2> QED
      BY Zenon, <1>4, <1>7, <2>1, <2>2 DEF View
  <1>12. absLog' = [c \in T |-> absLog[c]]
    BY Zenon, <1>10, <1>11
  <1>13. b \in 0 .. absNext /\ b <= absNext
    BY <1>2, <1>3, <1>4
  <1> QED
    BY Zenon, <1>1, <1>4, <1>7, <1>9, <1>12, <1>13 DEF Abstract!Free

\* storage_delete: the locked section of the loop.
LEMMA RefDeleteCheck ==
    ASSUME StoreInv, QueueInv', DurInv', DeleteCheck
    PROVE  RefInv' /\ UNCHANGED Abstract!blockstore
  <1>1. /\ UNCHANGED <<proc, nextblk, writer, fs, disk, freed>> /\ deleter.pc = "check"
        /\ \/ deleter' = IdleDeleter /\ minblk' = minblk
           \/ deleter' = [deleter EXCEPT !.pc = "unlink", !.fileno = files[1].start]
    BY Zenon DEF DeleteCheck, queue, dirs, ghosts
  <1>2. Ends /\ AtEnd /\ View /\ freed \in Nat /\ minblk' \in Nat /\ deleter.blkno \in Nat
    BY Zenon, InvView DEF StoreInv, RefInv, DurInv, QueueInv, TypeQ
  <1>3. Ends' /\ absStable' = absStable /\ BlocksStay
    BY Zenon, <1>1, <1>2, SameDirs
  <1>4. \/ deleter' = IdleDeleter /\ minblk' = minblk
        \/ deleter'.pc = "unlink" /\ deleter'.blkno = deleter.blkno
    <2>1. deleter \in [pc: {"idle", "check", "unlink", "syncdir"}, blkno: Nat, fileno: Nat]
      BY Zenon DEF StoreInv, QueueInv, TypeQ
    <2> QED
      BY Zenon, <1>1, <2>1
  <1>5. deleter'.pc = "unlink" => minblk' <= freed
    <2>1. deleter'.pc = "unlink" =>
            minblk' <= deleter'.blkno /\ deleter'.blkno <= freed /\ deleter'.blkno \in Nat
      BY Zenon, <1>1 DEF DurInv, DeleterFrees, QueueInv, TypeQ
    <2> QED
      BY <1>2, <2>1
  <1>6. AtEnd'
    BY <1>1, <1>2, <1>4, <1>5 DEF AtEnd, Written, IdleDeleter
  <1>7. RefInv' /\ View'
    BY Zenon, <1>3, <1>6, NextView DEF RefInv, StoreInv
  <1>8. absNext' = absNext /\ absPend' = absPend
    BY Zenon, <1>1 DEF absNext, absPend
  <1> QED
    BY Zenon, <1>1, <1>2, <1>3, <1>7, <1>8, SameView

\* storage_delete: unlink.
LEMMA RefDeleteUnlink ==
    ASSUME OrderedFS, StoreInv, QueueInv', DurInv', DeleteUnlink
    PROVE  RefInv' /\ UNCHANGED Abstract!blockstore
  <1> DEFINE f == deleter.fileno
  <1>1. PICK e : e = Keep(fs, DOMAIN fs \ {f})
    BY Zenon
  <1>2. /\ UNCHANGED <<proc, minblk, nextblk, writer, freed>>
        /\ deleter.pc = "unlink" /\ deleter' = [deleter EXCEPT !.pc = "syncdir"]
        /\ fs' = e /\ disk' = disk \cup {e} /\ Written' = Written
    BY Zenon, <1>1 DEF DeleteUnlink, Unlink, Bases, queue, ghosts, Written
  <1>3. QueueInv /\ DurInv /\ Ends /\ AtEnd /\ View /\ fs \in disk
    BY Zenon, InvView DEF StoreInv, RefInv, DurInv, DisksGood
  <1>4. /\ proc = "up" /\ f \in Nat /\ f < minblk /\ minblk \in Nat /\ nextblk \in Nat
        /\ IsDir(fs) /\ IsDir(e) /\ deleter'.pc = "syncdir" /\ deleter'.blkno = deleter.blkno
        /\ minblk <= deleter.blkno /\ deleter.blkno < nextblk /\ freed \in Nat
        /\ deleter.blkno \in Nat /\ minblk <= freed
    <2>1. proc = "up"
      BY Zenon, <1>2, <1>3 DEF QueueInv, NotRunning, IdleDeleter
    <2>2. IsDir(e)
      BY Zenon, <1>2 DEF QueueInv, TypeQ
    <2> QED
      BY <1>2, <1>3, <2>1, <2>2 DEF QueueInv, TypeQ, DeleterOK, DurInv, DeleterFrees, AtEnd
  <1>5. f \in DOMAIN fs => f + Len(fs[f].data) = minblk
    BY Zenon, <1>3, <1>4, UpFacts
  <1>6. IsEnd(fs, EndOf(fs)) /\ EndOf(fs) \in Nat /\ minblk < EndOf(fs) /\ Older(fs)
    <2>1. IsEnd(fs, EndOf(fs)) /\ EndOf(fs) \in Nat /\ absNext <= EndOf(fs) /\ Older(fs)
      BY Zenon, <1>3 DEF Ends, View
    <2> QED
      BY <1>4, <2>1 DEF absNext
  <1>7. IsEnd(e, EndOf(fs))
    <2>1. f \in DOMAIN fs => f + Len(fs[f].data) < EndOf(fs)
      BY Zenon, <1>5, <1>6
    <2> QED
      BY Zenon, <1>1, <1>4, <1>6, <2>1, EndKeep
  <1>8. EndOf(e) = EndOf(fs)
    BY Zenon, <1>4, <1>7, EndIs
  <1>9. \A b \in Nat : \A id : freed <= b /\ DirHolds(fs, b, id) => DirHolds(e, b, id)
    <2>1. \A b \in Nat : freed <= b => minblk <= b
      BY <1>4
    <2> QED
      BY Zenon, <1>1, <1>4, <1>5, <2>1, HoldsKeep
  <1>10. Older(e)'
    <2>1. \A b \in Nat : freed <= b /\ b < EndOf(fs) => \E id : DirHolds(e, b, id)
      BY Zenon, <1>6, <1>9 DEF Older
    <2>2. EndOf(e) <= EndOf(fs')
      BY <1>2, <1>6, <1>8
    <2> QED
      BY Zenon, <1>2, <1>8, <2>1, <2>2 DEF Older
  <1>11. BlocksStay
    BY Zenon, <1>2, <1>9 DEF BlocksStay
  <1>12. Ends' /\ absStable' = absStable
    <2>1. EndOf(fs) <= EndOf(fs') /\ EndOf(fs') \in Nat
      BY <1>2, <1>6, <1>8
    <2>2. PICK N : N = {e}
      BY Zenon
    <2>3. \A d \in N : IsEnd(d, EndOf(d)) /\ EndOf(fs) <= EndOf(d) /\ Older(d)'
      BY <1>2, <1>7, <1>8, <1>10, <2>1, <2>2
    <2>4. disk' = disk \cup N
      BY Zenon, <1>2, <2>2
    <2> QED
      BY Zenon, <1>2, <1>3, <1>11, <2>1, <2>3, <2>4, EndsGrow
  <1>13. AtEnd'
    BY Zenon, <1>2, <1>3, <1>4, <1>8 DEF AtEnd
  <1>14. RefInv' /\ View'
    BY Zenon, <1>12, <1>13, NextView DEF RefInv, StoreInv
  <1>15. absNext' = absNext /\ absPend' = absPend
    BY Zenon, <1>2, <1>4 DEF absNext, absPend
  <1> QED
    BY Zenon, <1>2, <1>3, <1>11, <1>12, <1>14, <1>15, SameView

\* The last file that storage_init finds ends where the blocks do.
LEMMA LastEnds ==
    ASSUME NEW d, IsDir(d), GoodDir(d), NEW e, IsEnd(d, e), NEW f \in DOMAIN d,
           \A g \in DOMAIN d : g <= f
    PROVE  f + Len(d[f].data) = e
  <1>1. /\ f \in Nat /\ Len(d[f].data) \in Nat /\ e \in Nat /\ f + Len(d[f].data) <= e
    BY Zenon, DirFacts DEF IsEnd
  <1>2. CASE e = 0
    BY <1>1, <1>2
  <1>3. CASE \E g \in DOMAIN d : Len(d[g].data) > 0 /\ g + Len(d[g].data) = e
    <2>1. PICK g \in DOMAIN d : g + Len(d[g].data) = e
      BY Zenon, <1>3
    <2>2. g \in Nat /\ g <= f
      BY Zenon, DirFacts
    <2>3. g < f => g + Len(d[g].data) <= f
      BY Zenon, <2>1 DEF GoodDir
    <2> QED
      BY <1>1, <2>1, <2>2, <2>3
  <1> QED
    BY Zenon, <1>2, <1>3 DEF IsEnd

\* A write is torn, or storage_init cuts off the part of a block: no block changes.
LEMMA EndsTorn ==
    ASSUME OrderedFS, QueueInv, DurInv, Ends, freed' = freed, QueueInv',
           NEW f \in DOMAIN fs, f + Len(fs[f].data) = EndOf(fs), NEW t \in BOOLEAN,
           LET rec == [fs[f] EXCEPT !.torn = t] IN PutFile(f, rec, rec)
    PROVE  /\ Ends' /\ absStable' = absStable /\ BlocksStay
           /\ EndOf(fs') = EndOf(fs)
  <1>1. f \in Nat /\ fs[f] \in FileRec /\ fs[f].data \in Seq(Nat) /\ Len(fs[f].data) \in Nat
    BY Zenon, DirFacts DEF QueueInv, TypeQ
  <1>2. PICK rec : rec = [fs[f] EXCEPT !.torn = t]
    BY Zenon
  <1>3. PutFile(f, rec, rec)
    BY Zenon, <1>2
  <1>4. rec = [data |-> fs[f].data, torn |-> t]
    BY Zenon, <1>1, <1>2, FileRecExcept
  <1>5. rec \in FileRec /\ rec.data = fs[f].data
    BY Zenon, <1>1, <1>4 DEF FileRec
  <1>6. Extends(rec, fs[f])
    BY <1>1, <1>5 DEF Extends
  <1>7. f + Len(rec.data) = EndOf(fs) /\ Len(rec.data) = Len(rec.data)
    BY Zenon, <1>5
  <1>8. Ends' /\ absStable' = absStable /\ EndOf(fs') = f + Len(rec.data) /\ BlocksStay
    BY Zenon, <1>1, <1>3, <1>5, <1>6, <1>7, EndsPut
  <1> QED
    BY Zenon, <1>7, <1>8

\* What storage_init does to the directory.
LEMMA InitTruncates ==
    ASSUME SetFacts, IsDir(fs), StorageInit, proc' # "refused"
    PROVE  /\ proc' = "up" /\ UNCHANGED <<writer, deleter, freed>>
           /\ \/ UNCHANGED <<fs, disk>>
              \/ \E f \in DOMAIN fs :
                    /\ \A g \in DOMAIN fs : g <= f
                    /\ LET rec == [fs[f] EXCEPT !.torn = FALSE] IN PutFile(f, rec, rec)
  <1> DEFINE N == Cardinality(DOMAIN fs)
  <1>1. N \in Nat /\ UNCHANGED <<writer, deleter, freed>>
    BY Zenon DEF IsDir, SetFacts, FiniteSize, StorageInit, ghosts
  <1>2. PICK q \in [1 .. N -> DOMAIN fs] : FindFiles(q) /\ proc' = "up" /\ TruncateLast(q)
    BY Zenon DEF StorageInit
  <1>3. CASE UNCHANGED dirs
    BY Zenon, <1>1, <1>2, <1>3 DEF dirs
  <1>4. CASE ~UNCHANGED dirs
    <2> DEFINE f == Last(q)
    <2>1. q # <<>> /\ LET rec == [fs[f] EXCEPT !.torn = FALSE] IN PutFile(f, rec, rec)
      BY Zenon, <1>2, <1>4 DEF TruncateLast
    <2>2. q \in Seq(Nat) /\ Len(q) = N /\ DOMAIN q = 1 .. N
      <3>1. q \in [1 .. N -> Nat]
        BY Zenon, <1>2 DEF IsDir
      <3> QED
        BY Zenon, <1>1, <3>1, FunIsSeq
    <2>3. f = q[N] /\ N \in 1 .. N
      BY <1>1, <2>1, <2>2 DEF Last
    <2>4. \A i \in 1 .. N : q[i] \in Nat /\ (i = N \/ i < N)
      BY <1>1, <2>2
    <2>5. \A i \in 1 .. N : q[i] <= q[N]
      BY <1>2, <2>2, <2>3, <2>4 DEF FindFiles
    <2>6. \A g \in DOMAIN fs : g <= f
      BY Zenon, <1>2, <2>2, <2>3, <2>5 DEF FindFiles
    <2>7. f \in DOMAIN fs
      BY Zenon, <1>2, <2>3
    <2> QED
      BY Zenon, <1>1, <1>2, <2>1, <2>6, <2>7
  <1> QED
    BY Zenon, <1>3, <1>4

\* storage_init: the store is the one that the directory had.
LEMMA RefStorageInit ==
    ASSUME SetFacts, OrderedFS, StoreInv, QueueInv', DurInv', StorageInit
    PROVE  RefInv' /\ UNCHANGED Abstract!blockstore
  <1>1. QueueInv /\ DurInv /\ Ends /\ View /\ IsDir(fs) /\ GoodDir(fs)
        /\ IsEnd(fs, EndOf(fs)) /\ EndOf(fs) \in Nat /\ freed \in Nat
    BY Zenon, InvView DEF StoreInv, RefInv, DurInv, DisksGood, QueueInv, TypeQ, Ends, IsEnd
  <1>2. proc = "down" /\ writer = IdleWriter /\ deleter = IdleDeleter
    BY Zenon, <1>1 DEF StorageInit, QueueInv, NotRunning
  <1>3. proc' = "up" /\ UNCHANGED <<writer, deleter, freed>>
    BY Zenon, <1>1, InitTruncates DEF DurInv
  <1>4. Ends' /\ absStable' = absStable /\ BlocksStay /\ EndOf(fs') = EndOf(fs)
    <2>1. CASE UNCHANGED <<fs, disk>>
      BY Zenon, <1>1, <1>3, <2>1, SameDirs
    <2>2. CASE ~UNCHANGED <<fs, disk>>
      <3>1. PICK f \in DOMAIN fs :
              /\ \A g \in DOMAIN fs : g <= f
              /\ LET rec == [fs[f] EXCEPT !.torn = FALSE] IN PutFile(f, rec, rec)
        BY <1>1, <2>2, InitTruncates DEF DurInv
      <3>2. f + Len(fs[f].data) = EndOf(fs)
        BY Zenon, <1>1, <3>1, LastEnds
      <3>3. FALSE \in BOOLEAN
        BY Zenon
      <3> QED
        BY Zenon, <1>1, <1>3, <3>1, <3>2, <3>3, EndsTorn
    <2> QED
      BY Zenon, <2>1, <2>2
  <1>5. writer'.pc = "idle" /\ deleter'.pc = "idle" /\ Written' = 0 /\ writer' = IdleWriter
    BY Zenon, <1>2, <1>3 DEF IdleWriter, IdleDeleter, Written
  <1>6. nextblk' = EndOf(fs) /\ nextblk' \in Nat /\ minblk' \in Nat
    <2>1. EndOf(fs') = nextblk' + Written'
      BY Zenon, <1>3, <1>4, <1>5, EndNext
    <2>2. nextblk' \in Nat /\ minblk' \in Nat
      BY Zenon DEF QueueInv, TypeQ
    <2>3. EndOf(fs) = nextblk' + 0
      BY Zenon, <1>4, <1>5, <2>1
    <2>4. \A x \in Nat : x + 0 = x
      OBVIOUS
    <2> QED
      BY Zenon, <2>2, <2>3, <2>4
  <1>7. minblk' <= freed
    <2>1. minblk' <= nextblk' /\ \A f \in DOMAIN fs' : minblk' <= f
      BY Zenon, <1>3, <1>5, NextUpFirst DEF QueueFirst
    <2>2. CASE freed >= EndOf(fs)
      BY <1>1, <1>6, <2>1, <2>2
    <2>3. CASE freed < EndOf(fs)
      <3>1. freed <= freed
        BY <1>1
      <3>2. \E id : DirHolds(fs', freed, id)
        BY Zenon, <1>1, <1>3, <1>4, <2>3, <3>1 DEF Ends, Older, DurInv, DisksGood
      <3>3. PICK f \in DOMAIN fs' : f <= freed
        BY Zenon, <3>2 DEF DirHolds
      <3>4. f \in Nat /\ minblk' <= f
        BY Zenon, <2>1, <3>3 DEF QueueInv, TypeQ, IsDir
      <3> QED
        BY <1>1, <1>6, <3>3, <3>4
    <2> QED
      BY <1>1, <2>2, <2>3
  <1>8. AtEnd'
    BY <1>1, <1>3, <1>4, <1>5, <1>6, <1>7 DEF AtEnd
  <1>9. RefInv' /\ View'
    BY Zenon, <1>4, <1>8, NextView DEF RefInv, StoreInv
  <1>10. absNext' = absNext /\ absPend' = absPend
    BY Zenon, <1>2, <1>3, <1>6 DEF absNext, absPend
  <1> QED
    BY Zenon, <1>1, <1>3, <1>4, <1>9, <1>10, SameView

\* The process dies: the directory stays, but for part of a block.
LEMMA RefKill ==
    ASSUME OrderedFS, StoreInv, QueueInv', DurInv', TornWrite, Down, freed' = freed
    PROVE  RefInv' /\ Abstract!Kill
  <1>1. QueueInv /\ DurInv /\ Ends /\ View
    BY Zenon, InvView DEF StoreInv, RefInv
  <1>2. proc' = "down" /\ writer' = IdleWriter /\ deleter' = IdleDeleter
    BY Zenon DEF Down
  <1>3. Ends' /\ absStable' = absStable /\ BlocksStay /\ EndOf(fs') = EndOf(fs)
    <2>1. CASE UNCHANGED dirs
      BY Zenon, <1>1, <2>1, SameDirs DEF dirs
    <2>2. CASE ~UNCHANGED dirs
      <3>1. PICK f : f = writer.fnum
        BY Zenon
      <3>2. writer.pc = "write" /\ LET rec == [fs[f] EXCEPT !.torn = TRUE] IN PutFile(f, rec, rec)
        BY Zenon, <2>2, <3>1 DEF TornWrite
      <3>3. f \in DOMAIN fs /\ f + Len(fs[f].data) = EndOf(fs) /\ TRUE \in BOOLEAN
        BY Zenon, <3>1, <3>2, TailFile
      <3> QED
        BY Zenon, <1>1, <3>2, <3>3, EndsTorn
    <2> QED
      BY Zenon, <2>1, <2>2
  <1>4. AtEnd'
    BY Zenon, <1>2 DEF AtEnd, IdleWriter, IdleDeleter
  <1>5. RefInv' /\ View'
    BY Zenon, <1>3, <1>4, NextView DEF RefInv, StoreInv
  <1>6. EndOf(fs) = absNext + Written /\ Written \in 0 .. writer.n
    BY Zenon, WrittenEnd
  <1>7. PICK k : k = Written
    BY Zenon
  <1>8. k \in Nat /\ k <= Written /\ k \in 0 .. absPend.n
    BY <1>6, <1>7 DEF absPend
  <1>9. absNext' = absNext + k
    BY Zenon, <1>2, <1>3, <1>6, <1>7 DEF absNext
  <1>10. absLog' = Abstract!Grown(k)
    BY Zenon, <1>3, <1>5, <1>8, <1>9, GrownLog
  <1>11. absStable <= absNext + k
    BY Zenon, <1>1, <1>6, <1>7 DEF View, DurInv, DisksGood
  <1>12. absPend' = Abstract!NoAppend
    BY Zenon, <1>2 DEF absPend, IdleWriter, NoBlock, Abstract!NoAppend
  <1> QED
    BY Zenon, <1>3, <1>5, <1>8, <1>9, <1>10, <1>11, <1>12 DEF Abstract!Kill

\* The log with k blocks of the APPEND that storage_write is at.
LEMMA GrownIs ==
    ASSUME View, NEW k \in Nat
    PROVE  /\ DOMAIN Abstract!Grown(k) = {c \in Nat : freed <= c /\ c < absNext + k}
           /\ \A b \in DOMAIN Abstract!Grown(k) :
                 Abstract!Grown(k)[b] = IF b < absNext THEN absLog[b] ELSE writer.id
  <1> DEFINE G == DOMAIN absLog \cup {c \in absNext .. absNext + k - 1 : c >= freed}
  <1>1. Abstract!Grown(k) = [b \in G |-> IF b < absNext THEN absLog[b] ELSE absPend.id]
    BY Zenon DEF Abstract!Grown
  <1>2. absNext \in Nat /\ freed \in Nat /\ DOMAIN absLog = {c \in Nat : freed <= c /\ c < absNext}
    BY Zenon DEF View
  <1>3. G = {c \in Nat : freed <= c /\ c < absNext + k}
    BY <1>2
  <1>4. absPend.id = writer.id
    BY Zenon DEF absPend
  <1> HIDE DEF G
  <1>5. DOMAIN Abstract!Grown(k) = G
    BY Zenon, <1>1
  <1>6. \A b \in G : Abstract!Grown(k)[b] = IF b < absNext THEN absLog[b] ELSE writer.id
    BY Zenon, <1>1, <1>4
  <1> QED
    BY Zenon, <1>3, <1>5, <1>6

\* The power is lost: one of the directories that the disk may have is left.
LEMMA RefPowerLoss ==
    ASSUME StoreInv, QueueInv', DurInv', fs' \in disk, disk' = {fs'}, Down, freed' = freed
    PROVE  RefInv' /\ Abstract!PowerLoss
  <1>1. QueueInv /\ DurInv /\ Ends /\ View /\ IsDir(fs) /\ GoodDir(fs)
        /\ writer.n \in Nat /\ freed \in Nat /\ fs \in disk
    BY Zenon, InvView DEF StoreInv, RefInv, QueueInv, TypeQ, DurInv, DisksGood
  <1>2. proc' = "down" /\ writer' = IdleWriter /\ deleter' = IdleDeleter
    BY Zenon DEF Down
  <1>3. PICK d \in disk : d = fs'
    BY Zenon
  <1>4. Ends' /\ absStable' = EndOf(d)
    BY Zenon, <1>1, <1>3, EndsOne
  <1>5. AtEnd'
    BY Zenon, <1>2 DEF AtEnd, IdleWriter, IdleDeleter
  <1>6. RefInv' /\ View'
    BY Zenon, <1>4, <1>5, NextView DEF RefInv, StoreInv
  <1>7. PICK last : last = EndOf(d)
    BY Zenon
  <1>8. absNext' = last /\ absStable' = last
    BY Zenon, <1>2, <1>3, <1>4, <1>7 DEF absNext
  <1>9. /\ last \in Nat /\ last <= EndOf(fs) /\ absStable <= last
        /\ absNext \in Nat /\ absStable \in Nat /\ EndOf(fs) \in Nat
        /\ EndOf(fs) <= absNext + writer.n /\ Older(d)
    BY Zenon, <1>1, <1>7 DEF Ends, IsEnd, Older, View
  <1>10. last \in absStable .. absNext + absPend.n /\ absPend.n = writer.n
    BY <1>1, <1>9 DEF absPend
  <1> DEFINE G == Abstract!Grown(absPend.n)
             T == {c \in Nat : freed <= c /\ c < last}
  <1>11. /\ DOMAIN G = {c \in Nat : freed <= c /\ c < absNext + writer.n}
         /\ \A b \in DOMAIN G : G[b] = IF b < absNext THEN absLog[b] ELSE writer.id
    BY Zenon, <1>1, <1>10, GrownIs
  <1> HIDE DEF G
  <1>12. {c \in DOMAIN G : c < last} = T /\ T \subseteq DOMAIN G
    BY <1>1, <1>9, <1>11
  <1>13. absLog' = [b \in T |-> absLog'[b]]
    BY Zenon, <1>6, <1>8 DEF View
  <1>14. ASSUME NEW b \in T PROVE absLog'[b] = G[b]
    <2>1. b \in Nat /\ freed <= b /\ b < last /\ G[b] = IF b < absNext THEN absLog[b] ELSE writer.id
      BY Zenon, <1>11, <1>12
    <2>2. PICK id : DirHolds(d, b, id) /\ DirHolds(fs, b, id)
      BY Zenon, <1>7, <1>9, <2>1 DEF Older
    <2>3. absLog'[b] = id
      BY Zenon, <1>3, <1>6, <1>8, <2>1, <2>2 DEF View
    <2>4. CASE b < absNext
      <3>1. absLog[b] = id
        BY Zenon, <1>1, <2>1, <2>2, <2>4 DEF View
      <3> QED
        BY <2>1, <2>3, <2>4, <3>1
    <2>5. CASE ~(b < absNext)
      <3>1. EndOf(fs) = absNext + Written
        BY Zenon, WrittenEnd
      <3>2. absNext <= b /\ b < absNext + Written
        BY <1>9, <2>1, <2>5, <3>1
      <3>3. DirHolds(fs, b, writer.id)
        BY Zenon, <2>1, <3>2, WrittenEnd
      <3>4. id = writer.id
        BY Zenon, <1>1, <2>1, <2>2, <3>3, HoldsOne
      <3> QED
        BY <2>1, <2>3, <2>5, <3>4
    <2> QED
      BY Zenon, <2>4, <2>5
  <1>15. absLog' = [b \in {c \in DOMAIN G : c < last} |-> G[b]]
    BY Zenon, <1>12, <1>13, <1>14
  <1>16. absPend' = Abstract!NoAppend
    BY Zenon, <1>2 DEF absPend, IdleWriter, NoBlock, Abstract!NoAppend
  <1> QED
    BY Zenon, <1>6, <1>8, <1>10, <1>15, <1>16 DEF Abstract!PowerLoss, G

\* storage_read changes nothing that BlockStore sees.
LEMMA RefRead ==
    ASSUME StoreInv, QueueInv', DurInv', UNCHANGED <<proc, queue, writer, deleter, dirs, freed>>
    PROVE  RefInv' /\ UNCHANGED Abstract!blockstore
  <1>1. UNCHANGED <<proc, minblk, nextblk, writer, deleter, fs, disk, freed>>
    BY Zenon DEF queue, dirs
  <1>2. Ends /\ AtEnd /\ View
    BY Zenon, InvView DEF StoreInv, RefInv
  <1>3. Ends' /\ absStable' = absStable /\ BlocksStay
    BY Zenon, <1>1, <1>2, SameDirs
  <1>4. AtEnd'
    BY Zenon, <1>1, <1>2 DEF AtEnd, Written
  <1>5. RefInv' /\ View'
    BY Zenon, <1>3, <1>4, NextView DEF RefInv, StoreInv
  <1>6. absNext' = absNext /\ absPend' = absPend
    BY Zenon, <1>1 DEF absNext, absPend
  <1> QED
    BY Zenon, <1>1, <1>2, <1>3, <1>5, <1>6, SameView

\* The step of BlockStore that a step of the daemon is.
AbstractStep == [Abstract!Step({appends + 1}, 1 .. MaxAppend)]_(Abstract!blockstore)

\* A new storage directory is an empty BlockStore.
LEMMA RefInit == ASSUME SetFacts, Init PROVE StoreInv /\ Abstract!Init
  <1>1. /\ proc = "down" /\ fs = <<>> /\ disk = {<<>>} /\ freed = 0 /\ writer = IdleWriter
        /\ deleter = IdleDeleter
    BY Zenon DEF Init
  <1>2. QueueInv /\ DurInv
    BY Zenon, QueueInvInit, DurInvInit
  <1>3. IsDir(fs) /\ DOMAIN fs = {}
    BY <1>1, <1>2 DEF QueueInv, TypeQ
  <1>4. IsEnd(fs, 0)
    BY Zenon, <1>3 DEF IsEnd
  <1>5. EndOf(fs) = 0
    BY Zenon, <1>3, <1>4, EndIs
  <1>6. Older(fs)
    BY <1>5 DEF Older
  <1>7. Ends
    <2>1. disk = {fs} /\ 0 <= 0
      BY <1>1
    <2> QED
      BY Zenon, <1>4, <1>5, <1>6, <2>1 DEF Ends
  <1>8. AtEnd
    BY Zenon, <1>1 DEF AtEnd, IdleWriter, IdleDeleter
  <1>9. StoreInv /\ View
    BY Zenon, <1>2, <1>7, <1>8, InvView DEF StoreInv, RefInv
  <1>10. absNext = 0 /\ absStable = 0
    <2>1. disk = {fs}
      BY Zenon, <1>1
    <2>2. absNext = 0
      BY Zenon, <1>1, <1>5 DEF absNext
    <2> QED
      BY Zenon, <1>5, <1>9, <2>1, <2>2 DEF View
  <1>11. absLog = <<>>
    <2>1. {c \in Nat : freed <= c /\ c < absNext} = 1 .. 0
      BY <1>1, <1>10
    <2>2. absLog = [b \in 1 .. 0 |-> absLog[b]]
      BY Zenon, <1>9, <2>1 DEF View
    <2> QED
      BY <2>2
  <1>12. absPend = Abstract!NoAppend
    BY Zenon, <1>1 DEF absPend, IdleWriter, NoBlock, Abstract!NoAppend
  <1> QED
    BY Zenon, <1>1, <1>9, <1>10, <1>11, <1>12 DEF Abstract!Init

\* Every step of the threads, of a crash and of a restart is one of BlockStore or none.
LEMMA RefNext ==
    ASSUME SetFacts, OrderedFS, FreeBeyond = 0, StoreInv, [Next]_vars
    PROVE  StoreInv' /\ AbstractStep
  <1>1. QueueInv' /\ DurInv'
    BY Zenon, QueueInvNext, DurInvNext DEF StoreInv
  <1> SUFFICES RefInv' /\ AbstractStep
    BY Zenon, <1>1 DEF StoreInv
  <1> DEFINE Stutter == RefInv' /\ UNCHANGED Abstract!blockstore
  <1>2. Stutter => RefInv' /\ AbstractStep
    BY Zenon DEF AbstractStep
  <1>3. CASE StorageInit
    BY Zenon, <1>1, <1>2, <1>3, RefStorageInit
  <1>4. CASE \E n \in 1 .. MaxAppend : WriteBegin(n)
    <2>1. PICK n \in 1 .. MaxAppend : WriteBegin(n)
      BY Zenon, <1>4
    <2>2. RefInv' /\ Abstract!AppendStart(appends + 1, n)
      BY Zenon, <1>1, <2>1, RefWriteBegin
    <2> QED
      BY Zenon, <2>2 DEF AbstractStep, Abstract!Step
  <1>5. CASE WriteCreat
    BY Zenon, <1>1, <1>2, <1>5, RefWriteCreat
  <1>6. CASE WriteBlock
    BY Zenon, <1>1, <1>2, <1>6, RefWriteBlock
  <1>7. CASE WriteFsync \/ WriteSyncDir \/ DeleteSyncDir
    BY Zenon, <1>1, <1>7, RefSync DEF AbstractStep, Abstract!Step
  <1>8. CASE WriteCommit
    BY Zenon, <1>1, <1>8, RefWriteCommit DEF AbstractStep, Abstract!Step
  <1>9. CASE \E b \in 0 .. MaxBlk + FreeBeyond : DeleteBegin(b)
    <2>1. PICK b \in Nat : DeleteBegin(b)
      BY <1>9, LbsStorageAssumption
    <2>2. RefInv' /\ b \in 0 .. absNext /\ Abstract!Free(b)
      BY Zenon, <1>1, <2>1, RefDeleteBegin
    <2> QED
      BY Zenon, <2>2 DEF AbstractStep, Abstract!Step
  <1>10. CASE DeleteCheck
    BY Zenon, <1>1, <1>2, <1>10, RefDeleteCheck
  <1>11. CASE DeleteUnlink
    BY Zenon, <1>1, <1>2, <1>11, RefDeleteUnlink
  <1>12. CASE UNCHANGED <<proc, queue, writer, deleter, dirs, freed>>
    BY Zenon, <1>1, <1>2, <1>12, RefRead
  <1>13. CASE \E r \in Readers, b \in 0 .. MaxBlk : ReadLookup(r, b)
    BY Zenon, <1>12, <1>13 DEF ReadLookup, ghosts
  <1>14. CASE TornWrite /\ Down /\ freed' = freed
    BY Zenon, <1>1, <1>14, RefKill DEF AbstractStep, Abstract!Step
  <1>15. CASE \E r \in Readers : Read(r)
    <2>1. PICK r \in Readers : Read(r)
      BY Zenon, <1>15
    <2>2. CASE ReadError(r)
      BY Zenon, <1>14, <2>2 DEF ReadError
    <2>3. CASE ~ReadError(r)
      BY Zenon, <1>12, <2>1, <2>3 DEF Read, ReadPath, ReadBlock, ReadReturn, ghosts
    <2> QED
      BY Zenon, <2>2, <2>3
  <1>16. CASE Kill
    BY Zenon, <1>14, <1>16 DEF Kill
  <1>17. CASE PowerLoss
    <2>1. RefInv' /\ Abstract!PowerLoss
      BY Zenon, <1>1, <1>17, RefPowerLoss DEF PowerLoss
    <2> QED
      BY Zenon, <2>1 DEF AbstractStep, Abstract!Step
  <1>18. CASE UNCHANGED vars
    BY Zenon, <1>12, <1>18 DEF vars, ghosts
  <1> QED
    BY Zenon, <1>3, <1>4, <1>5, <1>6, <1>7, <1>8, <1>9, <1>10, <1>11, <1>13, <1>15, <1>16, <1>17,
       <1>18 DEF Next, Write, Delete

-----------------------------------------------------------------------------
(***************************************************************************)
(* The theorems.                                                           *)
(***************************************************************************)
INSTANCE SetFactsProofs

\* On an ordered file system, for any number of readers, blocks, crashes and
\* power losses: storage_init accepts the files it finds, and every block
\* reported as written and not freed is in the store, with its contents.
THEOREM AckedBlocksSurvive == OrderedFS /\ Spec => []Durable
  <1> SUFFICES ASSUME OrderedFS PROVE Spec => []Durable
    OBVIOUS
  <1>1. QueueInv /\ DurInv => Durable
    BY AckedFound DEF Durable, DurInv
  <1>2. QueueInv /\ DurInv /\ [Next]_vars => QueueInv' /\ DurInv'
    BY SetFactsHold, QueueInvNext, DurInvNext
  <1>3. Init => QueueInv /\ DurInv
    BY SetFactsHold, QueueInvInit, DurInvInit
  <1> QED
    BY <1>1, <1>2, <1>3, PTL DEF Spec

\* On an ordered file system, and if no FREE goes past the last block, storage.c is a
\* block store: each step of its threads, of a crash, of a loss of power and of
\* storage_init is a step of BlockStore or none at all.
THEOREM StorageIsBlockStore == OrderedFS /\ FreeBeyond = 0 /\ Spec => ImplementsBlockStore
  <1> SUFFICES ASSUME OrderedFS, FreeBeyond = 0 PROVE Spec => ImplementsBlockStore
    BY Zenon
  <1>1. Init => StoreInv /\ Abstract!Init
    BY SetFactsHold, RefInit
  <1>2. StoreInv /\ [Next]_vars =>
          StoreInv' /\ [Abstract!Step({appends + 1}, 1 .. MaxAppend)]_(Abstract!blockstore)
    BY SetFactsHold, RefNext DEF AbstractStep
  <1> QED
    BY <1>1, <1>2, PTL DEF Spec, ImplementsBlockStore

\* ReadInv holds in every reachable state.
LEMMA ReadSafe == Spec => []ReadInv
  <1>1. Init => ReadInv
    BY SetFactsHold, ReadInvInit
  <1>2. ReadInv /\ [Next]_vars => ReadInv'
    BY SetFactsHold, ReadInvNext
  <1> QED
    BY <1>1, <1>2, PTL DEF Spec

\* The invariants that storage_internal.h states of the storage state hold between
\* any two steps of the writer, the deleter and the readers, on any file system,
\* after any crashes.
THEOREM StorageStateInvariants == Spec => []StorageInvariants
  <1>1. ReadInv => StorageInvariants
    BY DEF ReadInv, QueueInv
  <1> QED
    BY <1>1, ReadSafe, PTL

\* The files of the queue are in the directory with the blocks that the queue says
\* they have, whatever the writer and the deleter are in the middle of.
THEOREM QueuedFilesExist == Spec => []FilesOnDisk
  <1>1. ReadInv => FilesOnDisk
    BY DEF ReadInv, QueueInv
  <1> QED
    BY <1>1, ReadSafe, PTL

\* storage_read never returns another block than it was asked for, though the deleter
\* may unlink its file, move its record, or free the array while it reads.
THEOREM ReadsReturnRightBlock == Spec => []ReadsRightBlock
  <1>1. ReadInv => ReadsRightBlock
    BY DEF ReadInv
  <1> QED
    BY <1>1, ReadSafe, PTL
=============================================================================
