----------------------- MODULE LbsStorageRefinement ------------------------
(***************************************************************************)
(* LbsStorage as a BlockStore.  While the daemon runs, the store has the   *)
(* blocks that storage_read would find; while it does not, those that      *)
(* storage_init would.                                                     *)
(***************************************************************************)
EXTENDS LbsStorage

\* The first block number after all those in the files of a directory.
EndOf(dir) ==
    CHOOSE e \in {0} \cup {f + Len(dir[f].data) : f \in DOMAIN dir} :
        \A f \in DOMAIN dir : f + Len(dir[f].data) <= e

\* What a directory has for block b.
BlockIn(dir, b) ==
    LET f == CHOOSE f \in DOMAIN dir : f <= b /\ b < f + Len(dir[f].data)
    IN dir[f].data[b - f + 1]

absNext == IF proc = "up" THEN nextblk ELSE EndOf(fs)

absLog ==
    [b \in {c \in freed .. absNext - 1 : proc = "up" => Held(c)} |->
        IF proc = "up" THEN BlockAt(b) ELSE BlockIn(fs, b)]

\* What every directory has that a power loss may leave.
absStable ==
    CHOOSE e \in {EndOf(dir) : dir \in disk} : \A dir \in disk : e <= EndOf(dir)

absPend == [id |-> writer.id, n |-> writer.n]

Abstract == INSTANCE BlockStore
    WITH log <- absLog, next <- absNext, stable <- absStable, freed <- freed,
         pend <- absPend

\* storage.c on an ordered file system is a block store, if its clients free only
\* blocks that are there: each step of its threads, of a crash and of a restart is
\* a step of BlockStore or none at all.  No two APPENDs have the same number.
ImplementsBlockStore ==
    /\ Abstract!Init
    /\ [][Abstract!Step({appends + 1}, 1 .. MaxAppend)]_(Abstract!blockstore)
=============================================================================
