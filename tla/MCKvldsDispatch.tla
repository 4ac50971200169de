-------------------------- MODULE MCKvldsDispatch ---------------------------
(* KvldsDispatch for model checking. *)
EXTENDS KvldsDispatch

\* A RANGE does not fit into the window at all.
MCNmrPages == [t \in NmrTypes |-> IF t = "GET" THEN 1 ELSE 3]
=============================================================================
