--------------------------- MODULE MCNodePlugin ---------------------------
(* Two nodes; the plugin of the first may be given its name, the other's, one  *)
(* that is no node's, or none.                                                 *)
EXTENDS NodePlugin

CONSTANTS n1, n2, nobody

TwoNodes == {n1, n2}

ThisNode == n1

AnyName == {n1, n2, nobody, None}
=============================================================================
