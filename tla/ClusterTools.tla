---------------------------- MODULE ClusterTools ----------------------------
(***************************************************************************)
(* The functions of pkg/tools as a caller uses them that moves a volume:   *)
(* it cordons the nodes of the driver, waits in PVWaitDelete for the       *)
(* volume's deletion and uncordons the nodes.  Other users make and delete *)
(* the volume; administrators cordon nodes.                                *)
(***************************************************************************)
EXTENDS NodeCordon

CONSTANTS
  Caller,  \* the one who waits
  MaxMade  \* bound on the volumes made under one name

ASSUME ToolsAssumption == MaxMade \in Nat \ {0}

VARIABLES exists, made, wait  \* see VolumeWait; faults are counted together

volumeVars == <<exists, made, wait>>
nodeVars == <<adminVars, pc, todo, cordonedNodes, listed>>

Volume == INSTANCE VolumeWait WITH Waiters <- {Caller}

ToolsInit == Init /\ Volume!Init

\* CondonNodes returns and PVWaitDelete is entered.
StartWait == CordonReturns /\ Volume!Call(Caller)

\* Whatever PVWaitDelete answers, the nodes are uncordoned.
EndWait == Uncordon /\ wait[Caller].pc \in Volume!Results /\ UNCHANGED volumeVars

\* The caller's own goroutine.
CallerStep ==
  \/ NodeStep /\ UNCHANGED volumeVars
  \/ StartWait
  \/ Volume!Step(Caller) /\ UNCHANGED nodeVars
  \/ EndWait

Others ==
  \/ AdminStep /\ UNCHANGED volumeVars
  \/ Volume!DeleteVolume /\ UNCHANGED nodeVars
  \/ Volume!MakeVolume /\ UNCHANGED nodeVars

ToolsNext ==
  \/ CSINodes /\ UNCHANGED volumeVars
  \/ CallerStep
  \/ ApiError /\ UNCHANGED volumeVars
  \/ Volume!WaitFails(Caller) /\ UNCHANGED nodeVars
  \/ Others

ToolsSpec == ToolsInit /\ [][ToolsNext]_<<vars, volumeVars>>

\* A caller that has begun goes on; nobody has to delete or make a volume.
FairToolsSpec == ToolsSpec /\ WF_<<vars, volumeVars>>(CallerStep)

-----------------------------------------------------------------------------
\* Types of both halves; no list of an ended call outlives it.
ToolsTypeOK == TypeOK /\ Volume!TypeOK

\* Without faults PVWaitDelete returns nil only if the volume was gone at some moment
\* of the call (pv.go:95 "waits for the specified PersistentVolume to be deleted").
NilMeansGone == wait[Caller].pc = "nil" /\ faults = 0 => wait[Caller].gone

\* A caller that has begun to cordon comes to the end of UncondonNodes or to an
\* error: no volume that stays, and no deletion that PVWaitDelete misses between its
\* Get and its Watch, keeps the nodes cordoned for ever.
WorkEnds == pc = "get" ~> pc \in {"done", "failed"}

=============================================================================
