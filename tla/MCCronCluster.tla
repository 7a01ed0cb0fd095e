---------------------------- MODULE MCCronCluster ----------------------------
(* CronCluster for TLC. *)
EXTENDS CronCluster, TLC

CONSTANTS n1, n2, j1

TwoNodes == {n1, n2}
OneJob == {j1}
ParsedOrNot == {"periodic", "invalid"}
OnceOrNot == {"periodic", "@once"}
NodeSymmetry == Permutations(TwoNodes)
OneDelay == {1}
=============================================================================
