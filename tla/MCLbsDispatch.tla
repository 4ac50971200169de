--------------------------- MODULE MCLbsDispatch ----------------------------
(* LbsDispatch for model checking.                                         *)
EXTENDS LbsDispatch
=============================================================================
