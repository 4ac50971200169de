------------------------------- MODULE MCMux --------------------------------
(* Mux for model checking: one client does more than the other.            *)
EXTENDS Mux

CONSTANTS a, b

MCMaxReq == [c \in Clients |-> IF c = a THEN 2 ELSE 1]
MCMaxConnect == [c \in Clients |-> IF c = a THEN 2 ELSE 1]
=============================================================================
