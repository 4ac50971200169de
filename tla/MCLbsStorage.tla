---------------------------- MODULE MCLbsStorage ----------------------------
(* LbsStorage and its refinement of BlockStore, for model checking.        *)
EXTENDS LbsStorageRefinement
=============================================================================
