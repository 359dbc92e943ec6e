------------------------ MODULE MCHybridProvisioner ------------------------
(* Small instances of HybridProvisioner for TLC. *)
EXTENDS VolumeCustody, TLC

CONSTANT kr

OwnNames == [c \in Claims |-> c]

\* All claims are stored under one name, one after the other.
OneName == [c \in Claims |-> 1]

\* Class kr has reclaimPolicy Retain, the others Delete.
MCPolicy == [k \in Classes |-> IF k = kr THEN "Retain" ELSE "Delete"]

\* Every class may be the answer for every node, and so may the error.
AnyChoice == [n \in Nodes |-> Classes \cup {None}]

\* Every node is served; with one class, the answer never changes.
Served == [n \in Nodes |-> Classes]

VolSymmetry == Permutations(Vols)

FullSymmetry == Permutations(Claims) \cup Permutations(Vols)
=============================================================================
