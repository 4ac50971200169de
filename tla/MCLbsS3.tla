------------------------------ MODULE MCLbsS3 ------------------------------
EXTENDS LbsS3
Spec == Init /\ [][Next]_svars
=============================================================================
