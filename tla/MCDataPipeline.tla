--------------------------- MODULE MCDataPipeline ---------------------------
EXTENDS DataPipeline

CONSTANTS a, b

MCKeyLen == [k \in Key |-> IF k = b THEN 4 ELSE 1]
MCValLen == [k \in Key |-> IF k = b THEN 2 ELSE 1]
=============================================================================
