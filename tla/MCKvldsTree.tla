---------------------------- MODULE MCKvldsTree -----------------------------
(* KvldsTree for model checking, and its refinement of KvStore.            *)
EXTENDS KvldsTree

(***************************************************************************)
(* The refinement mapping.  While kvlds runs, the database is the shadow   *)
(* tree; while it does not, the tree that btree_init would find.           *)
(***************************************************************************)
absDb ==
    IF up THEN Current
    ELSE IF Roots = {} THEN [k \in Keys |-> Lost]
    ELSE TreeAt(content[Max(Roots)].child)

absTodo == IF batch.phase \in {"leaves", "merge", "append", "unshadow"} THEN batch.reqs ELSE <<>>

absRes == IF batch.phase = "synced" THEN batch.opdone ELSE <<>>

Abstract == INSTANCE KvStore
    WITH db <- absDb, todo <- absTodo, res <- absRes, answers <- answers

\* DESIGN's "poweroff-safe": batches commit as a whole, in order and before they
\* are answered; the answers are those of the requests done one after the other;
\* and no crash takes back what was answered.
ImplementsKvStore == [][Abstract!Step(Batches)]_(Abstract!kvstore)

Request(type, key, oval, value) ==
    [type |-> type, key |-> key, oval |-> oval, value |-> value]

\* Each key has a leaf to itself.
Apart == [k \in Keys |-> k]

Sets == {Request("SET", k, 1, 1) : k \in Keys}

SetsAndCad == Sets \cup {Request("CAD", 1, 1, 1)}

\* The other kinds of requests, which may find the value of the key or not.
OtherRequests == {Request("SET", 2, 1, 1)} \cup
    {Request(t, 1, 1, 2) : t \in {"ADD", "MODIFY", "CAS", "DELETE"}}

\* Every kind of event but crashes.
Concurrent ==
    [requests |-> OtherRequests, maxbatch |-> 1, reads |-> TRUE,
     merging |-> TRUE, cleaning |-> TRUE, kinds |-> {}, left |-> 0]

\* Batches, and two crashes of kvlds and what it runs on.
Crash(kinds) ==
    [requests |-> SetsAndCad, maxbatch |-> 2, reads |-> FALSE,
     merging |-> FALSE, cleaning |-> FALSE, kinds |-> kinds, left |-> 2]

MCRuns == {Concurrent, Crash({"kvlds", "lbs"}), Crash({"kvlds", "power"})}

MCLive == {[Concurrent EXCEPT !.requests = {Request("SET", 1, 1, 1)}]}
=============================================================================
