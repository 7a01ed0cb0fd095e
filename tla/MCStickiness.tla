---------------------------- MODULE MCStickiness ----------------------------
\* A sticky job whose id prefers the first node.
EXTENDS Stickiness

CONSTANTS n1, n2, i1, p1, j1

MCStickyId == [j \in Jobs |-> i1]

MCPlanName == [j \in Jobs |-> p1]

MCScore == [id \in Ids |-> [n \in Nodes |-> IF n = n1 THEN 2 ELSE 1]]
=============================================================================
