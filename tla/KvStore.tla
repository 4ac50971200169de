------------------------------ MODULE KvStore -------------------------------
(***************************************************************************)
(* What a key-value store promises of its modifying requests (DESIGN,      *)
(* "Key-value store protocol"): they take effect one after the other, all  *)
(* of a batch or none of it, and an answer tells what the request found in *)
(* a database that no crash takes back.                                    *)
(***************************************************************************)
EXTENDS Naturals, Sequences

CONSTANTS
    NoVal       \* the key has no value

VARIABLES
    db,         \* key -> value
    todo,       \* the batch of requests under way
    res,        \* for each request of a batch that is done: did it do anything?
    answers     \* the answers sent last

kvstore == <<db, todo, res, answers>>

Applies(r, v) ==
    \/ r.type = "SET"
    \/ r.type \in {"MODIFY", "DELETE"} /\ v # NoVal
    \/ r.type = "ADD" /\ v = NoVal
    \/ r.type \in {"CAS", "CAD"} /\ v # NoVal /\ v = r.oval

Outcome(r) == IF r.type \in {"DELETE", "CAD"} THEN NoVal ELSE r.value

\* The database after each prefix of the requests.
Serial(d, reqs) ==
    LET after[i \in 0 .. Len(reqs)] ==
          IF i = 0 THEN d
          ELSE LET r == reqs[i] IN
               IF Applies(r, after[i - 1][r.key])
               THEN [after[i - 1] EXCEPT ![r.key] = Outcome(r)]
               ELSE after[i - 1]
    IN after

After(d, reqs) == Serial(d, reqs)[Len(reqs)]

Results(d, reqs) ==
    [i \in DOMAIN reqs |-> Applies(reqs[i], Serial(d, reqs)[i - 1][reqs[i].key])]

Begin(Batches) ==
    /\ todo = <<>> /\ res = <<>>
    /\ todo' \in Batches
    /\ UNCHANGED <<db, res, answers>>

Commit ==
    /\ todo # <<>>
    /\ db' = After(db, todo)
    /\ res' = Results(db, todo)
    /\ todo' = <<>>
    /\ UNCHANGED answers

Answer ==
    /\ res # <<>>
    /\ answers' = res /\ res' = <<>>
    /\ UNCHANGED <<db, todo>>

\* A batch that was not answered may have been done.
Crash ==
    /\ db' \in {db, After(db, todo)}
    /\ todo' = <<>> /\ res' = <<>>
    /\ UNCHANGED answers

Step(Batches) ==
    \/ Begin(Batches)
    \/ Commit
    \/ Answer
    \/ Crash
=============================================================================
