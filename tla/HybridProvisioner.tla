------------------------- MODULE HybridProvisioner -------------------------
(***************************************************************************)
(* HybridProvisioner.Provision and the functions it calls, run by the      *)
(* workers of the provision controller.  A call of Provision for claim c   *)
(* in process p is call[p][c]; each call of the Kubernetes API is a step   *)
(* of its own, between which users, controllers and other processes act.   *)
(*                                                                         *)
(*   idle -> lookup -> [create] -> [pod] -> watch -> wait -> [unpod] ->    *)
(*   retain -> unfinalize -> delete -> unref -> bondClaim -> [bondVolume]  *)
(*   -> store -> idle                                                      *)
(***************************************************************************)
EXTENDS Cluster

CONSTANTS
  Procs,      \* the running hybrid-csi-provisioner processes
  Choices,    \* Choices[n]: what getStorageClassFromNode may answer for node n
              \* as the listed objects change; None is its error
  RetrySteps, \* defaultCreateProvisionedPVRetryCount
  MaxFaults   \* bound on API errors, lost replies and crashes

ASSUME ProvisionerAssumption ==
  /\ Choices \in [Nodes -> SUBSET (Classes \cup {None})]
  /\ RetrySteps \in Nat \ {0}
  /\ MaxFaults \in Nat

VARIABLES
  call,    \* call[p][c]: the call of Provision for c in p
  listed,  \* listed[p]: the claims whose helper is in p's claimLister cache
  seen,    \* seen[p][c]: the selected node of c if p's controller cache shows
           \* c as a claim to provision, else None
  faults   \* faults so far

callVars == <<call, listed, seen, faults>>
vars == <<clusterVars, callVars>>

PCs == {"idle", "lookup", "create", "pod", "watch", "wait", "unpod", "retain",
        "unfinalize", "delete", "unref", "bondClaim", "bondVolume", "store"}

\* class, node: the choice made and the node it was made for.  vol, keep: the
\* volumeName and the finalizers other than pvc-protection of the claim that
\* the watch delivered (vol = None: nothing delivered).  hasPod: the variable
\* pod holds the helper pod.  tries: failed attempts of the running backoff.
CallType == [pc     : PCs,
             class  : Classes \cup {None},
             node   : Nodes \cup {None},
             vol    : Vols \cup {None},
             keep   : SUBSET Finalizers,
             hasPod : BOOLEAN,
             tries  : 0 .. RetrySteps - 1]

IdleCall == [pc |-> "idle", class |-> None, node |-> None, vol |-> None,
             keep |-> {}, hasPod |-> FALSE, tries |-> 0]

TypeOK ==
  /\ ClusterTypeOK
  /\ call \in [Procs -> [Claims -> CallType]]
  /\ listed \in [Procs -> SUBSET Claims]
  /\ seen \in [Procs -> [Claims -> Nodes \cup {None}]]
  /\ faults \in Nat

Init ==
  /\ ClusterInit
  /\ call = [p \in Procs |-> [c \in Claims |-> IdleCall]]
  /\ listed = [p \in Procs |-> {}]
  /\ seen = [p \in Procs |-> [c \in Claims |-> None]]
  /\ faults = 0

-----------------------------------------------------------------------------
(* How a call moves on. *)

At(p, c, l) == call[p][c].pc = l

Goto(p, c, l) == [call EXCEPT ![p][c] = [@ EXCEPT !.pc = l, !.tries = 0]]

Return(p, c) == [call EXCEPT ![p][c] = IdleCall]

\* (faulty) the backoff is allowed one attempt more
FailAttemptOnceMore(p, c) ==
  IF call[p][c].tries < RetrySteps
    THEN [call EXCEPT ![p][c].tries = @ + 1]
    ELSE Return(p, c)

\* (faulty) the call goes on after the last attempt
FailAttemptIgnored(p, c) ==
  IF call[p][c].tries + 1 < RetrySteps
    THEN [call EXCEPT ![p][c].tries = @ + 1]
    ELSE Goto(p, c, IF At(p, c, "unpod") THEN "retain" ELSE "unref")

\* wait.ExponentialBackoff: a failed attempt is repeated RetrySteps times in all.
FailAttempt(p, c) ==
  IF call[p][c].tries + 1 < RetrySteps
    THEN [call EXCEPT ![p][c].tries = @ + 1]
    ELSE Return(p, c)

\* An API request that took effect: answered, or with its answer lost, which
\* the caller takes for a failure.
Replies == {"ok", "lost"}

Answered(r, good, bad) ==
  /\ r = "lost" => faults < MaxFaults
  /\ faults' = IF r = "lost" THEN faults + 1 ELSE faults
  /\ call' = IF r = "ok" THEN good ELSE bad

\* (faulty) the watch is opened on all claims, not on the name of the helper claim
DeliveredToAll(calls, c, h) ==
  [q \in Procs |->
     [d \in Claims |->
        IF calls[q][d].pc = "wait" /\ calls[q][d].vol = None /\ h.state = "bound"
          THEN [calls[q][d] EXCEPT !.vol = h.vol, !.keep = h.fin \ {"pvc-protection"}]
          ELSE calls[q][d]]]

\* A change of the helper claim of c to h reaches the watches open on its name
\* as a Modified event; waitBindPVC returns the first one with phase Bound.
Delivered(calls, c, h) ==
  [q \in Procs |->
     [calls[q] EXCEPT ![c] =
        IF @.pc = "wait" /\ @.vol = None /\ h.state = "bound"
          THEN [@ EXCEPT !.vol = h.vol, !.keep = h.fin \ {"pvc-protection"}]
          ELSE @]]

\* The first step after the helper claim is known to be there.
Claimed == IF Method = "pod" THEN "pod" ELSE "watch"

-----------------------------------------------------------------------------
(* The provision controller: its caches and the start of a call. *)

ToProvision(c) == Live(c) /\ claim[c].vol = None /\ claim[c].class = None

NodeToProvision(c) == IF ToProvision(c) THEN claim[c].node ELSE None

SyncClaim(p, c) ==
  /\ seen[p][c] # NodeToProvision(c)
  /\ seen' = [seen EXCEPT ![p][c] = NodeToProvision(c)]
  /\ UNCHANGED <<clusterVars, call, listed, faults>>

SyncHelper(p, c) ==
  /\ HelperExists(c) # (c \in listed[p])
  /\ listed' = [listed EXCEPT ![p] = IF HelperExists(c) THEN @ \cup {c}
                                                         ELSE @ \ {c}]
  /\ UNCHANGED <<clusterVars, call, seen, faults>>

\* Provision up to the choice of the class.
Start(p, c) ==
  /\ At(p, c, "idle")
  /\ seen[p][c] # None
  /\ \E k \in Choices[seen[p][c]] \ {None} :
       call' = [call EXCEPT ![p][c] =
                  [@ EXCEPT !.pc = "lookup", !.class = k, !.node = seen[p][c]]]
  /\ UNCHANGED <<clusterVars, listed, seen, faults>>

\* No class serves the node: ProvisioningReschedule makes the controller drop
\* the selected-node annotation, unless the claim changed since it was cached.
Reschedule(p, c) ==
  /\ At(p, c, "idle")
  /\ seen[p][c] # None
  /\ None \in Choices[seen[p][c]]
  /\ NodeToProvision(c) = seen[p][c]
  /\ claim' = [claim EXCEPT ![c].node = None]
  /\ UNCHANGED <<helper, owner, pv, pods, callVars>>

-----------------------------------------------------------------------------
(* createPVbyAnnotation and createPVbyPOD up to the wait. *)

\* The claim lister says whether the helper claim is there, possibly late.
LookupHelper(p, c) ==
  /\ At(p, c, "lookup")
  /\ call' = Goto(p, c, IF c \in listed[p] THEN Claimed ELSE "create")
  /\ UNCHANGED <<clusterVars, listed, seen, faults>>

FreshUIDs == {w \in Vols : owner[w] = None}

\* The API server refuses a second helper claim of that name; running out of
\* Vols is refused like an exceeded quota.
CreateHelper(p, c, r) ==
  /\ At(p, c, "create")
  /\ \/ /\ ~HelperExists(c)
        /\ \E w \in FreshUIDs :
             /\ owner' = [owner EXCEPT ![w] = c]
             /\ helper' = [helper EXCEPT ![c] =
                  [state    |-> "pending",
                   uid      |-> w,
                   vol      |-> None,
                   class    |-> call[p][c].class,
                   node     |-> IF Method = "pod" THEN None ELSE call[p][c].node,
                   deleting |-> FALSE,
                   fin      |-> {"pvc-protection"}]]
        /\ Answered(r, Goto(p, c, Claimed), Return(p, c))
     \/ /\ HelperExists(c) \/ FreshUIDs = {}
        /\ r = "ok"
        /\ call' = Return(p, c)
        /\ UNCHANGED <<helper, owner, faults>>
  /\ UNCHANGED <<claim, pv, pods, listed, seen>>

\* A pod that is there already is accepted, but then the variable pod holds
\* the empty object that came with the AlreadyExists error.
CreatePod(p, c, r) ==
  /\ At(p, c, "pod")
  /\ \/ /\ pods[c] = None
        /\ pods' = [pods EXCEPT ![c] = call[p][c].node]
        /\ Answered(r, [call EXCEPT ![p][c] = [@ EXCEPT !.pc = "watch", !.hasPod = TRUE]],
                       Return(p, c))
     \/ /\ pods[c] # None
        /\ r = "ok"
        /\ call' = Goto(p, c, "watch")
        /\ UNCHANGED <<pods, faults>>
  /\ UNCHANGED <<claim, helper, owner, pv, listed, seen>>

-----------------------------------------------------------------------------
(* waitBindPVC.  The watch opens at the current state, which it reports as  *)
(* an Added event: the loop looks at Modified events only.                  *)

OpenWatch(p, c) ==
  /\ At(p, c, "watch")
  /\ call' = Goto(p, c, "wait")
  /\ UNCHANGED <<clusterVars, listed, seen, faults>>

TakeEvent(p, c) ==
  /\ At(p, c, "wait")
  /\ call[p][c].vol # None
  /\ call' = Goto(p, c, IF Method = "pod" THEN "unpod" ELSE "retain")
  /\ UNCHANGED <<clusterVars, listed, seen, faults>>

\* (faulty) there is no timeout
WaitFailsOnClose(p, c) ==
  /\ At(p, c, "wait")
  /\ faults < MaxFaults
  /\ faults' = faults + 1
  /\ call' = Return(p, c)
  /\ UNCHANGED <<clusterVars, listed, seen>>

\* Thirty seconds have passed, or the watch was closed.
WaitFails(p, c) ==
  /\ At(p, c, "wait")
  /\ call' = Return(p, c)
  /\ UNCHANGED <<clusterVars, listed, seen, faults>>

-----------------------------------------------------------------------------
(* The helper pod is deleted: it is asked to stop, and nobody waits until it  *)
(* has.  Not found counts as done.                                           *)

DeletePod(p, c, r) ==
  /\ At(p, c, "unpod")
  /\ \/ /\ call[p][c].hasPod
        /\ pods' = [pods EXCEPT ![c] = IF @ = None THEN None ELSE Terminating]
        /\ Answered(r, Goto(p, c, "retain"), FailAttempt(p, c))
     \/ /\ ~call[p][c].hasPod       \* a request without a name is refused
        /\ r = "ok"
        /\ call' = FailAttempt(p, c)
        /\ UNCHANGED <<pods, faults>>
  /\ UNCHANGED <<claim, helper, owner, pv, listed, seen>>

-----------------------------------------------------------------------------
(* releasePV *)

\* (faulty) the volume keeps its policy
RetainPVForgotten(p, c, r) ==
  /\ At(p, c, "retain")
  /\ r = "ok"
  /\ call' = Goto(p, c, "unfinalize")
  /\ UNCHANGED <<clusterVars, listed, seen, faults>>

\* The volume is patched to policy Retain.
RetainPV(p, c, r) ==
  LET v == call[p][c].vol IN
  /\ At(p, c, "retain")
  /\ \/ /\ PVExists(v)
        /\ pv' = [pv EXCEPT ![v].policy = "Retain"]
        /\ Answered(r, Goto(p, c, "unfinalize"), Return(p, c))
     \/ /\ ~PVExists(v)
        /\ r = "ok"
        /\ call' = Return(p, c)
        /\ UNCHANGED <<pv, faults>>
  /\ UNCHANGED <<claim, helper, owner, pods, listed, seen>>

\* The finalizers of the helper claim are replaced by those of the delivered
\* object without pvc-protection; a terminating claim left with none is gone, and
\* one that is terminating is given no new ones.
UnfinalizeHelper(p, c, r) ==
  LET keep == call[p][c].keep
      h    == IF helper[c].deleting /\ keep = {}
                THEN NoHelper ELSE [helper[c] EXCEPT !.fin = keep]
      Patchable == HelperExists(c) /\ (helper[c].deleting => keep \subseteq helper[c].fin)
  IN
  /\ At(p, c, "unfinalize")
  /\ \/ /\ Patchable
        /\ helper' = [helper EXCEPT ![c] = h]
        /\ Answered(r, Delivered(Goto(p, c, "delete"), c, h),
                       Delivered(Return(p, c), c, h))
     \/ /\ ~Patchable
        /\ r = "ok"
        /\ call' = Return(p, c)
        /\ UNCHANGED <<helper, faults>>
  /\ UNCHANGED <<claim, owner, pv, pods, listed, seen>>

\* The helper claim is deleted in the foreground: it stays, terminating, until
\* the garbage collector drops the finalizer this adds.  Not found is a failure.
DeleteHelper(p, c, r) ==
  LET h == [helper[c] EXCEPT !.deleting = TRUE,
                             !.fin = @ \cup {"foregroundDeletion"}]
  IN
  /\ At(p, c, "delete")
  /\ \/ /\ HelperExists(c)
        /\ helper' = [helper EXCEPT ![c] = h]
        /\ Answered(r, Delivered(Goto(p, c, "unref"), c, h),
                       Delivered(FailAttempt(p, c), c, h))
     \/ /\ ~HelperExists(c)
        /\ r = "ok"
        /\ call' = FailAttempt(p, c)
        /\ UNCHANGED <<helper, faults>>
  /\ UNCHANGED <<claim, owner, pv, pods, listed, seen>>

\* The claimRef of the volume is removed.
UnrefPV(p, c, r) ==
  LET v == call[p][c].vol IN
  /\ At(p, c, "unref")
  /\ \/ /\ PVExists(v)
        /\ pv' = [pv EXCEPT ![v].ref = None]
        /\ Answered(r, Goto(p, c, "bondClaim"), Return(p, c))
     \/ /\ ~PVExists(v)
        /\ r = "ok"
        /\ call' = Return(p, c)
        /\ UNCHANGED <<pv, faults>>
  /\ UNCHANGED <<claim, helper, owner, pods, listed, seen>>

-----------------------------------------------------------------------------
(* bondPVC *)

\* The claim stored under the name of c.
Stored(c) == {t \in Claims : Live(t) /\ ClaimName[t] = ClaimName[c]}

\* It is patched with the volume, the bound marks and the class's driver.  The
\* API server lets volumeName be set once.
BondClaim(p, c, r) ==
  LET v    == call[p][c].vol
      k    == call[p][c].class
      next == IF Policy[k] = "Delete" THEN "bondVolume" ELSE "store"
      Free == {t \in Stored(c) : claim[t].vol \in {None, v}}
  IN
  /\ At(p, c, "bondClaim")
  /\ \/ \E t \in Free :
          /\ claim' = [claim EXCEPT ![t] = [@ EXCEPT !.vol = v, !.class = k]]
          /\ Answered(r, Goto(p, c, next), Return(p, c))
     \/ /\ Free = {}
        /\ r = "ok"
        /\ call' = Return(p, c)
        /\ UNCHANGED <<claim, faults>>
  /\ UNCHANGED <<helper, owner, pv, pods, listed, seen>>

\* (faulty) only the policy is patched
BondVolumePolicyOnly(p, c, r) ==
  LET v == call[p][c].vol IN
  /\ At(p, c, "bondVolume")
  /\ PVExists(v)
  /\ pv' = [pv EXCEPT ![v].policy = "Delete"]
  /\ Answered(r, Goto(p, c, "store"), Return(p, c))
  /\ UNCHANGED <<claim, helper, owner, pods, listed, seen>>

\* (faulty) only the claimRef is patched
BondVolumeRefOnly(p, c, r) ==
  LET v == call[p][c].vol IN
  /\ At(p, c, "bondVolume")
  /\ PVExists(v)
  /\ pv' = [pv EXCEPT ![v].ref = c]
  /\ Answered(r, Goto(p, c, "store"), Return(p, c))
  /\ UNCHANGED <<claim, helper, owner, pods, listed, seen>>

\* For a class with policy Delete, policy and claimRef of the volume are
\* patched in one request.
BondVolume(p, c, r) ==
  LET v == call[p][c].vol IN
  /\ At(p, c, "bondVolume")
  /\ \/ /\ PVExists(v)
        /\ pv' = [pv EXCEPT ![v] = [@ EXCEPT !.policy = "Delete", !.ref = c]]
        /\ Answered(r, Goto(p, c, "store"), Return(p, c))
     \/ /\ ~PVExists(v)
        /\ r = "ok"
        /\ call' = Return(p, c)
        /\ UNCHANGED <<pv, faults>>
  /\ UNCHANGED <<claim, helper, owner, pods, listed, seen>>

-----------------------------------------------------------------------------
(* Provision returns the volume without its resourceVersion and the          *)
(* controller creates it: a volume that is still there is left alone, one    *)
(* deleted meanwhile comes back as an object without an asset.               *)
StoreVolume(p, c) ==
  LET v == call[p][c].vol IN
  /\ At(p, c, "store")
  /\ pv' = IF PVExists(v) THEN pv
           ELSE [pv EXCEPT ![v] = [@ EXCEPT !.state = "phantom",
                                            !.policy = "Retain", !.ref = c]]
  /\ call' = Return(p, c)
  /\ UNCHANGED <<claim, helper, owner, pods, listed, seen, faults>>

-----------------------------------------------------------------------------
(* Faults *)

\* An API request fails without effect.
ApiError(p, c) ==
  /\ faults < MaxFaults
  /\ \/ /\ call[p][c].pc \in {"create", "pod", "watch", "retain", "unfinalize",
                              "unref", "bondClaim", "bondVolume"}
        /\ call' = Return(p, c)
     \/ /\ call[p][c].pc \in {"unpod", "delete"}
        /\ call' = FailAttempt(p, c)
  /\ faults' = faults + 1
  /\ UNCHANGED <<clusterVars, listed, seen>>

\* The process stops in the middle of its calls and comes back with the caches
\* filled anew (WaitForCacheSync).
Crash(p) ==
  /\ faults < MaxFaults
  /\ faults' = faults + 1
  /\ call' = [call EXCEPT ![p] = [c \in Claims |-> IdleCall]]
  /\ listed' = [listed EXCEPT ![p] = {c \in Claims : HelperExists(c)}]
  /\ seen' = [seen EXCEPT ![p] = [c \in Claims |-> NodeToProvision(c)]]
  /\ UNCHANGED clusterVars

-----------------------------------------------------------------------------
\* One step of the call's own code.
CallStep(p, c) ==
  \/ LookupHelper(p, c)
  \/ OpenWatch(p, c)
  \/ TakeEvent(p, c)
  \/ WaitFails(p, c)
  \/ StoreVolume(p, c)
  \/ \E r \in Replies :
       \/ CreateHelper(p, c, r)
       \/ CreatePod(p, c, r)
       \/ DeletePod(p, c, r)
       \/ RetainPV(p, c, r)
       \/ UnfinalizeHelper(p, c, r)
       \/ DeleteHelper(p, c, r)
       \/ UnrefPV(p, c, r)
       \/ BondClaim(p, c, r)
       \/ BondVolume(p, c, r)

ControllerStep(p, c) ==
  \/ SyncClaim(p, c)
  \/ SyncHelper(p, c)
  \/ Start(p, c)
  \/ Reschedule(p, c)

\* What the controllers change of the helper claim is reported by the watches.
WatchedChange(c) ==
  /\ \/ BindHelper(c)
     \/ \E v \in Vols : BindAvailable(c, v)
     \/ Protect(c)
     \/ \E f \in Finalizers : DropFinalizer(c, f)
  /\ call' = Delivered(call, c, helper'[c])
  /\ UNCHANGED <<listed, seen, faults>>

ClusterStep(c) ==
  \/ WatchedChange(c)
  \/ /\ \/ CreateClaim(c)
        \/ SelectNode(c)
        \/ DeleteClaim(c)
        \/ BackendProvision(c)
        \/ RebindHelper(c)
        \/ BindUser(c)
        \/ PodGone(c)
     /\ UNCHANGED callVars

Next ==
  \/ \E p \in Procs, c \in Claims :
       CallStep(p, c) \/ ControllerStep(p, c) \/ ApiError(p, c)
  \/ \E p \in Procs : Crash(p)
  \/ \E c \in Claims : ClusterStep(c)
  \/ \E v \in Vols : Reclaim(v) /\ UNCHANGED callVars

Spec == Init /\ [][Next]_vars

\* Workers, informers and Kubernetes controllers keep running.  An event that
\* arrives within the thirty seconds is not missed in every attempt.  Nothing is
\* assumed of users, of the scheduler, of faults or of the choice of a class.
Fairness ==
  /\ \A p \in Procs, c \in Claims :
       /\ WF_vars(CallStep(p, c))
       /\ SF_vars(TakeEvent(p, c))
       /\ WF_vars(Start(p, c))
       /\ WF_vars(SyncClaim(p, c))
       /\ WF_vars(SyncHelper(p, c))
  /\ \A c \in Claims :
       /\ WF_vars(WatchedChange(c))
       /\ WF_vars(BackendProvision(c) /\ UNCHANGED callVars)
       /\ WF_vars(BindUser(c) /\ UNCHANGED callVars)
       /\ WF_vars(PodGone(c) /\ UNCHANGED callVars)

FairSpec == Spec /\ Fairness

-----------------------------------------------------------------------------
(* Safety *)

\* The claim and its volume point at each other.
Bonded(c) == Live(c) /\ claim[c].vol # None /\ pv[claim[c].vol].ref = c

\* The volume that a live claim was given still has its storage: releasing it
\* from the helper claim (releasePV) and handing it over (bondPVC), retried and
\* interrupted anywhere, never lets the backend delete it.
BoundVolumeKept ==
  \A c \in Claims :
    Live(c) /\ claim[c].vol # None => pv[claim[c].vol].state = "live"

\* A volume is under policy Delete only while the claim it refers to is not a
\* helper claim on its way out: the order Retain, delete, unref of releasePV
\* leaves no moment at which the deleted helper takes the volume with it.
NoDoomedVolume ==
  \A v \in Vols :
    pv[v].state = "live" /\ pv[v].policy = "Delete" =>
      \/ pv[v].ref \in Claims
      \/ \E c \in Claims : /\ helper[c].uid = pv[v].ref
                         /\ HelperExists(c)
                         /\ ~helper[c].deleting

\* When Provision is about to return a volume for a claim that is still there,
\* the claim names that volume, the volume has the reclaim policy of the class,
\* and with policy Delete its claimRef is the claim.
HandoverComplete ==
  \A p \in Procs, c \in Claims :
    At(p, c, "store") /\ Live(c) =>
      LET v == call[p][c].vol IN
      /\ claim[c].vol = v
      /\ pv[v].policy = Policy[call[p][c].class]
      /\ Policy[call[p][c].class] = "Delete" => pv[v].ref = c

\* Unless a fault has interrupted a call, a claim that was given its volume is bonded with
\* it whenever no call for it is left: a second Provision run from a stale cache may begin
\* to release the volume again (releasePV), but then bondPVC gives it back.
BondedAtRest ==
  \A c \in Claims :
    /\ faults = 0
    /\ Live(c) /\ claim[c].vol # None /\ Policy[claim[c].class] = "Delete"
    /\ \A p \in Procs : At(p, c, "idle")
    => Bonded(c)

\* A claim and its volume, once they point at each other, are separated while the claim
\* lives by no controller and no call for another claim, but only by the last request of
\* releasePV in a call for this one.
BondUndoneByOwnCall ==
  [][\A c \in Claims :
       Bonded(c) /\ Live(c)' /\ ~Bonded(c)' => \E p \in Procs : At(p, c, "unref")]_vars

\* createPVbyPOD deletes the helper claim only after its pod, however the deletion of
\* the pod was retried: a pod that goes on running would keep the claim terminating,
\* and the claim would take the volume back.
PodDeletedFirst ==
  [][\A c \in Claims :
       ~helper[c].deleting /\ helper'[c].deleting => pods[c] \in {Terminating, None}]_vars

-----------------------------------------------------------------------------
(* Liveness, under FairSpec *)

\* Every call of Provision returns: no wait or retry loop holds a worker for ever.
ProvisionReturns ==
  \A p \in Procs, c \in Claims : ~At(p, c, "idle") ~> At(p, c, "idle")

\* Unless there is a fault, a call that has begun releasePV hands the volume over for good,
\* whatever the controllers do between its requests.  (In createPVbyPOD a call may end
\* before that: a retried one does not know the name of the pod it has to delete.)
HandedOver ==
  \A p \in Procs, c \in Claims :
    At(p, c, "retain") /\ Policy[call[p][c].class] = "Delete" ~>
      [](Bonded(c) \/ ~Live(c)) \/ faults > 0

-----------------------------------------------------------------------------
(* What comments and documents of the repository say and the code does not   *)
(* keep.                                                                     *)

\* provisioner.go:265 "Wait for the PV to be bound to the PVC": a call that waits
\* for a helper claim that is bound gets past the wait.
BoundIsNoticed ==
  \A p \in Procs, c \in Claims :
    At(p, c, "wait") /\ helper[c].state = "bound" ~>
      \/ At(p, c, "retain")
      \/ ~Live(c)
      \/ claim[c].vol # None

\* CHANGELOG.md:38 "avoid race conditions in releasePV and bondPVC": no two claims get one
\* volume, though between releasePV and bondPVC it refers to nobody.
NoVolumeShared ==
  \A c, d \in Claims :
    c # d /\ Live(c) /\ Live(d) /\ claim[c].vol # None => claim[c].vol # claim[d].vol

\* CHANGELOG.md:38 "avoid race conditions in releasePV and bondPVC": bondPVC makes the
\* volume refer to the claim it patched.
BondedConsistently ==
  \A c \in Claims :
    Live(c) /\ claim[c].vol # None => pv[claim[c].vol].ref \notin Claims \ {c}

=============================================================================
