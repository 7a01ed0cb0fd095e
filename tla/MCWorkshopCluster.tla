-------------------------- MODULE MCWorkshopCluster --------------------------
(* WorkshopCluster for TLC. *)
EXTENDS WorkshopCluster

CONSTANTS n1, n2, j1

TwoNodes == {n1, n2}
OneJob == {j1}
=============================================================================
