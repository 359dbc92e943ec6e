----------------------- MODULE MCElectedProvisioner -----------------------
(* Two processes take turns at one claim. *)
EXTENDS ElectedProvisioner, TLC

OwnNames == [c \in Claims |-> c]

AllDelete == [k \in Classes |-> "Delete"]

\* What the properties say of a state after an overlap does not depend on what follows it.
BeforeOverlap == ~overlap

Served == [n \in Nodes |-> Classes]

ProcSymmetry == Permutations(Procs)
=============================================================================
