----------------------------- MODULE MCInstance -----------------------------
\* A Workshop partition w, a cron partition c and one without a name, a.  The
\* numbers are their executions.
EXTENDS Instance

CONSTANTS w, c, a, w1, w2, c1, c2, a1

MCPartitionOf ==
  [e \in Executions |-> CASE e \in {w1, w2} -> w [] e \in {c1, c2} -> c [] e = a1 -> a]
=============================================================================
