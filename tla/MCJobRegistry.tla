--------------------------- MODULE MCJobRegistry ---------------------------
EXTENDS JobRegistry

CONSTANTS l1, l2

MCNProcs == [l \in Launch |-> IF l = l1 THEN 2 ELSE 1]
=============================================================================
