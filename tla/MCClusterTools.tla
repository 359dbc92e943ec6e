---------------------------- MODULE MCClusterTools ----------------------------
(* A small instance of ClusterTools for TLC. *)
EXTENDS ClusterTools

CONSTANTS n1, n2

TwoNodes == {n1, n2}
=============================================================================
