------------------------ MODULE ElectedProvisioner ------------------------
(***************************************************************************)
(* Several processes of cmd/csi-provisioner with leader election: the      *)
(* elected one provisions, and any of them stops and starts at any time.   *)
(* A process that stops is the crash of HybridProvisioner: the calls it    *)
(* was in are left where they are, and the next leader finds what they     *)
(* did, with its caches filled anew.                                       *)
(***************************************************************************)
EXTENDS VolumeCustody

CONSTANTS LeaseDuration, RenewDeadline, RetryPeriod, Delay, MaxStarts

VARIABLES
  mode, id, starts, holder, unseen, left, hung,
  overlap  \* history: two processes were in calls for one claim at once

INSTANCE LeaderElection

ASSUME DurationAssumption == DurationsType

leaseVars == <<mode, id, starts, holder, unseen, left, hung>>
allVars == <<vars, leaseVars, overlap>>

ElectedTypeOK == TypeOK /\ ElectionTypeOK /\ overlap \in BOOLEAN

ElectedInit == Init /\ ElectionInit /\ overlap = FALSE

\* run: the informers start and are waited for before the controller runs.
Lead(p) ==
  /\ Acquire(p)
  /\ listed' = [listed EXCEPT ![p] = {c \in Claims : HelperExists(c)}]
  /\ seen' = [seen EXCEPT ![p] = [c \in Claims |-> NodeToProvision(c)]]
  /\ UNCHANGED <<clusterVars, call, faults>>

\* (faulty) a leader that gives up does not exit
ExitKeepsCalls(p) ==
  /\ Stop(p)
  /\ UNCHANGED vars

\* A leader exits when it gives up, in the middle of its calls.  Provision can
\* also end the process: it dereferences the selected node, which is nil for a
\* claim of a hybrid class that binds immediately.
Exit(p) ==
  /\ Stop(p)
  /\ call' = [call EXCEPT ![p] = [c \in Claims |-> IdleCall]]
  /\ UNCHANGED <<clusterVars, listed, seen, faults>>

ElectionStep(p) ==
  \/ Lead(p)
  \/ Exit(p)
  \/ (Boot(p) \/ Observe(p) \/ Renew(p)) /\ UNCHANGED vars

\* Only a process that believes it leads handles claims; the cluster goes on without one.
ProvisionStep ==
  \/ \E p \in Procs, c \in Claims :
       Running(p) /\ (CallStep(p, c) \/ ControllerStep(p, c) \/ ApiError(p, c))
  \/ \E c \in Claims : ClusterStep(c)
  \/ \E v \in Vols : Reclaim(v) /\ UNCHANGED callVars

ElectedNext ==
  /\ \/ \E p \in Procs : ElectionStep(p)
     \/ Tick /\ UNCHANGED vars
     \/ ProvisionStep /\ UNCHANGED leaseVars
  /\ overlap' = (overlap \/ ~OneCaller')

ElectedSpec == ElectedInit /\ [][ElectedNext]_allVars

-----------------------------------------------------------------------------
Provisioning(p) == Running(p) \/ \E c \in Claims : ~At(p, c, "idle")

\* main.go:162 "Leader election should be done here": of two processes that lead or have
\* a call of Provision left, one is a leader that has lost the lease and is about to give
\* up; a process that has given up does not go on.
OneProvisions ==
  \A p, q \in Procs :
    p # q /\ Provisioning(p) /\ Provisioning(q) => Leaving(p) \/ Leaving(q)

\* releasePV and bondPVC keep every volume in custody, across changes of the leader in the
\* middle of them, until two leaders have been in calls for one claim at once.
CustodyUntilOverlap == overlap \/ CustodyInv

\* Until then the volume of a live claim keeps its storage, whichever leaders had a part
\* in giving it to the claim ...
KeptUntilOverlap == overlap \/ BoundVolumeKept

\* ... and what a leader returns is complete, though it found the work of another half done.
CompleteUntilOverlap == overlap \/ HandoverComplete

\* CHANGELOG.md:38 "avoid race conditions in releasePV and bondPVC": a leader that is about
\* to give up and the next one, in calls for one claim, do not lose its volume between
\* them, unless a leader has hung.
KeptUnlessHung == hung \/ BoundVolumeKept

=============================================================================
