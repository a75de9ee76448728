------------------------ MODULE MCCoordinatorRebalance -------------------------
EXTENDS CoordinatorRebalance

CONSTANT p1
================================================================================
