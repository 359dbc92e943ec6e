---------------------------- MODULE NodeCordon ----------------------------
(***************************************************************************)
(* CSINodes, CondonNodes and UncondonNodes (pkg/tools/nodes.go): a caller  *)
(* cordons the nodes that run a CSI driver, does its work and uncordons    *)
(* the nodes that CondonNodes returned, while administrators cordon and    *)
(* uncordon nodes too.  One request to the API is one step.                *)
(***************************************************************************)
EXTENDS Naturals, FiniteSets, Sequences, SequencesExt

CONSTANTS
  Nodes,     \* all nodes, by name and by the id the driver gives them
  MaxFaults  \* bound on API errors and lost replies

ASSUME CordonAssumption ==
  /\ IsFiniteSet(Nodes)
  /\ MaxFaults \in Nat

VARIABLES
  unschedulable,  \* the nodes with spec.unschedulable
  held,           \* those that an administrator has cordoned
  pc,             \* where the caller is
  todo,           \* the rest of the nodes its loop runs over
  cordonedNodes,  \* the list CondonNodes builds and returns
  listed,         \* history: what CSINodes returned
  kept,           \* history: nodes cordoned then by an administrator who has not
                  \* acted on them since
  released,       \* history: nodes an administrator has uncordoned since
  faults

adminVars == <<unschedulable, held, kept, released>>
vars == <<adminVars, pc, todo, cordonedNodes, listed, faults>>

TypeOK ==
  /\ {unschedulable, held, kept, released} \subseteq SUBSET Nodes
  /\ pc \in {"idle", "get", "patch", "work", "uncordon", "done", "failed"}
  /\ {listed, todo, cordonedNodes} \subseteq Seq(Nodes)
  /\ ToSet(todo) \cup ToSet(cordonedNodes) \subseteq ToSet(listed)
  /\ pc \in {"idle", "done", "failed"} => todo = <<>> /\ cordonedNodes = <<>>
  /\ faults \in 0 .. MaxFaults

Init ==
  /\ held \in SUBSET Nodes
  /\ unschedulable = held
  /\ pc = "idle"
  /\ todo = <<>> /\ cordonedNodes = <<>> /\ listed = <<>>
  /\ kept = {} /\ released = {}
  /\ faults = 0

-----------------------------------------------------------------------------
\* (faulty) the list of CondonNodes outlives the error
ReturnWithList(l) == pc' = l /\ todo' = <<>> /\ UNCHANGED cordonedNodes

\* An error ends the function; the list of CondonNodes is lost with it.
Return(l) == pc' = l /\ todo' = <<>> /\ cordonedNodes' = <<>>

Fault == faults < MaxFaults /\ faults' = faults + 1

\* The driver runs on any set of nodes at that moment; they come in the order of the
\* CSINode objects, whatever ids the driver has given them.
CSINodes ==
  /\ pc \in {"idle", "done", "failed"}
  /\ listed' \in SetToAllKPermutations(Nodes)
  /\ todo' = listed'
  /\ cordonedNodes' = <<>>
  /\ pc' = "get"
  /\ kept' = held \cap unschedulable /\ released' = {}
  /\ UNCHANGED <<unschedulable, held, faults>>

\* (faulty) a node that is cordoned already is patched and returned as well
GetNodeUnchecked ==
  /\ pc = "get"
  /\ todo # <<>>
  /\ pc' = "patch"
  /\ UNCHANGED <<adminVars, todo, cordonedNodes, listed, faults>>

GetNode ==
  /\ pc = "get"
  /\ todo # <<>>
  /\ IF Head(todo) \in unschedulable
       THEN todo' = Tail(todo) /\ pc' = "get"
       ELSE todo' = todo /\ pc' = "patch"
  /\ UNCHANGED <<adminVars, cordonedNodes, listed, faults>>

\* (faulty) the patched node is not recorded
PatchNodeUnrecorded ==
  /\ pc = "patch"
  /\ unschedulable' = unschedulable \cup {Head(todo)}
  /\ todo' = Tail(todo) /\ pc' = "get"
  /\ UNCHANGED <<held, kept, released, cordonedNodes, listed, faults>>

PatchNode ==
  /\ pc = "patch"
  /\ unschedulable' = unschedulable \cup {Head(todo)}
  /\ todo' = Tail(todo) /\ pc' = "get"
  /\ cordonedNodes' = Append(cordonedNodes, Head(todo))
  /\ UNCHANGED <<held, kept, released, listed, faults>>

CordonReturns ==
  /\ pc = "get"
  /\ todo = <<>>
  /\ pc' = "work"
  /\ UNCHANGED <<adminVars, todo, cordonedNodes, listed, faults>>

\* The caller has done its work.
Uncordon ==
  /\ pc = "work"
  /\ pc' = "uncordon" /\ todo' = cordonedNodes
  /\ UNCHANGED <<adminVars, cordonedNodes, listed, faults>>

UncondonNode ==
  /\ pc = "uncordon"
  /\ todo # <<>>
  /\ unschedulable' = unschedulable \ {Head(todo)}
  /\ todo' = Tail(todo)
  /\ UNCHANGED <<held, kept, released, pc, cordonedNodes, listed, faults>>

UncordonReturns ==
  /\ pc = "uncordon"
  /\ todo = <<>>
  /\ Return("done")
  /\ UNCHANGED <<adminVars, listed, faults>>

\* (faulty) CondonNodes goes on with the next node
ErrorSkipsNode ==
  /\ pc \in {"get", "patch", "uncordon"} /\ todo # <<>>
  /\ todo' = Tail(todo)
  /\ pc' = IF pc = "patch" THEN "get" ELSE pc
  /\ Fault
  /\ UNCHANGED <<adminVars, cordonedNodes, listed>>

\* A request fails, with the patch lost or only its answer.
ApiError ==
  /\ pc \in {"get", "patch", "uncordon"} /\ todo # <<>>
  /\ Return("failed")
  /\ Fault
  /\ \/ UNCHANGED unschedulable
     \/ pc = "patch" /\ unschedulable' = unschedulable \cup {Head(todo)}
     \/ pc = "uncordon" /\ unschedulable' = unschedulable \ {Head(todo)}
  /\ UNCHANGED <<held, kept, released, listed>>

-----------------------------------------------------------------------------
\* An administrator cordons or uncordons a node.
AdminCordons(n) ==
  /\ n \notin held
  /\ held' = held \cup {n} /\ unschedulable' = unschedulable \cup {n}
  /\ UNCHANGED <<kept, released>>
  /\ UNCHANGED <<pc, todo, cordonedNodes, listed, faults>>

AdminUncordons(n) ==
  /\ n \in unschedulable
  /\ held' = held \ {n} /\ unschedulable' = unschedulable \ {n}
  /\ kept' = kept \ {n} /\ released' = released \cup {n}
  /\ UNCHANGED <<pc, todo, cordonedNodes, listed, faults>>

NodeStep ==
  \/ GetNode
  \/ PatchNode
  \/ UncondonNode
  \/ UncordonReturns

AdminStep == \E n \in Nodes : AdminCordons(n) \/ AdminUncordons(n)

-----------------------------------------------------------------------------
\* A node that an administrator holds since before the call stays cordoned: it is
\* not in the list that CondonNodes returns (nodes.go:61), even when earlier calls
\* have failed half way.
HeldStays == kept \subseteq unschedulable

\* When CondonNodes has returned a list, every node the driver runs on is cordoned
\* until the caller uncordons it, unless an administrator has uncordoned it.
WorkIsSafe == pc = "work" => ToSet(listed) \subseteq unschedulable \cup released

\* After a call of each without an error no node is left cordoned.
NothingLeft == pc = "done" /\ faults = 0 => unschedulable \subseteq held

=============================================================================
