---------------------------- MODULE MCTransport ----------------------------
\* Two processes and two server groups: the first process has a worker of each
\* group and the server of the first one, the second process the other server.
EXTENDS Transport

CONSTANTS p1, p2, w1, w2, s1, s2

MCProcOf == [t \in Thread |-> IF t = s2 THEN p2 ELSE p1]
MCGroupOf == [t \in Thread |-> IF t \in {w1, s1} THEN 1 ELSE 2]
MCMaxRequest == [w \in Worker |-> IF w = w1 THEN 0 ELSE 2]
MCMaxReminder == [p \in Proc |-> IF p = p1 THEN 1 ELSE 0]
=============================================================================
