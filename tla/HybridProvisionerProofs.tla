---------------------- MODULE HybridProvisionerProofs ----------------------
(* Theorems about HybridProvisioner, for every value of its constants. *)
EXTENDS VolumeCustody, TLAPS

-----------------------------------------------------------------------------
(* Type correctness *)

CallMap == [Procs -> [Claims -> CallType]]

\* What keeps a volume's policy defined: a call past its start has a class, and
\* so has a helper claim.
CallsClassed ==
  \A p \in Procs, c \in Claims : ~At(p, c, "idle") => call[p][c].class \in Classes

HelpersClassed ==
  \A c \in Claims : helper[c].state = "pending" => helper[c].class \in Classes

TypeInv == TypeOK /\ CallsClassed /\ HelpersClassed

LEMMA IdleCallType == IdleCall \in CallType
  BY ProvisionerAssumption DEF IdleCall, CallType, PCs

LEMMA ReturnType ==
  ASSUME call \in CallMap, NEW p \in Procs, NEW c \in Claims
  PROVE  Return(p, c) \in CallMap
  BY IdleCallType DEF Return, CallMap

LEMMA GotoType ==
  ASSUME call \in CallMap, NEW p \in Procs, NEW c \in Claims, NEW l \in PCs
  PROVE  Goto(p, c, l) \in CallMap
<1>1. 0 \in 0 .. RetrySteps - 1
  BY ProvisionerAssumption
<1>2. ASSUME NEW x \in CallType
      PROVE  [x EXCEPT !.pc = l, !.tries = 0] \in CallType
  BY <1>1 DEF CallType
<1>3. [call[p][c] EXCEPT !.pc = l, !.tries = 0] \in CallType
  BY <1>2 DEF CallMap
<1>4. Goto(p, c, l) = [call EXCEPT ![p][c] = [call[p][c] EXCEPT !.pc = l, !.tries = 0]]
  BY DEF Goto, CallMap
<1>. QED
  BY <1>3, <1>4 DEF CallMap

LEMMA FailAttemptType ==
  ASSUME call \in CallMap, NEW p \in Procs, NEW c \in Claims
  PROVE  FailAttempt(p, c) \in CallMap
<1>1. CASE call[p][c].tries + 1 < RetrySteps
  <2>1. call[p][c].tries + 1 \in 0 .. RetrySteps - 1
    BY <1>1, ProvisionerAssumption DEF CallMap, CallType
  <2>2. ASSUME NEW x \in CallType, NEW n \in 0 .. RetrySteps - 1
        PROVE  [x EXCEPT !.tries = n] \in CallType
    BY DEF CallType
  <2>3. [call[p][c] EXCEPT !.tries = call[p][c].tries + 1] \in CallType
    BY <2>1, <2>2 DEF CallMap
  <2>4. FailAttempt(p, c) =
          [call EXCEPT ![p][c] = [call[p][c] EXCEPT !.tries = call[p][c].tries + 1]]
    BY <1>1 DEF FailAttempt, CallMap
  <2>. QED
    BY <2>3, <2>4 DEF CallMap
<1>2. CASE ~(call[p][c].tries + 1 < RetrySteps)
  BY <1>2, ReturnType DEF FailAttempt
<1>. QED
  BY <1>1, <1>2

LEMMA DeliveredType ==
  ASSUME NEW calls \in CallMap, NEW c \in Claims, NEW h \in HelperType
  PROVE  Delivered(calls, c, h) \in CallMap
<1>. DEFINE After(x) == IF x.pc = "wait" /\ x.vol = None /\ h.state = "bound"
                          THEN [x EXCEPT !.vol = h.vol,
                                         !.keep = h.fin \ {"pvc-protection"}]
                          ELSE x
<1>1. ASSUME NEW x \in CallType
      PROVE  After(x) \in CallType
  BY DEF CallType, HelperType
<1>2. \A q \in Procs : After(calls[q][c]) \in CallType
  BY <1>1 DEF CallMap
<1>3. Delivered(calls, c, h) =
        [q \in Procs |-> [calls[q] EXCEPT ![c] = After(calls[q][c])]]
  BY DEF Delivered, CallMap
<1>. HIDE DEF After
<1>. QED
  BY <1>2, <1>3 DEF CallMap

LEMMA AnsweredType ==
  ASSUME faults \in Nat,
         NEW r, NEW good \in CallMap, NEW bad \in CallMap,
         Answered(r, good, bad)
  PROVE  call' \in CallMap /\ faults' \in Nat
  BY DEF Answered

\* A step that leaves the cluster and the caches alone keeps TypeOK if it keeps
\* the type of call; likewise for a step that only changes the cluster.
LEMMA CallOnly ==
  ASSUME TypeOK, call' \in CallMap, faults' \in Nat,
         UNCHANGED <<clusterVars, listed, seen>>
  PROVE  TypeOK'
  BY DEF TypeOK, CallMap, ClusterTypeOK, clusterVars

LEMMA ClusterOnly ==
  ASSUME TypeOK, ClusterTypeOK', UNCHANGED callVars
  PROVE  TypeOK'
  BY DEF TypeOK, callVars

LEMMA TypeParts ==
  ASSUME TypeOK
  PROVE  call \in CallMap /\ faults \in Nat /\ ClusterTypeOK
  BY DEF TypeOK, CallMap

\* Updates of one object.
LEMMA ClaimUpdate ==
  ASSUME NEW x \in ClaimType
  PROVE  /\ [x EXCEPT !.status = "live"] \in ClaimType
         /\ [x EXCEPT !.status = "deleted"] \in ClaimType
         /\ \A n \in Nodes \cup {None} : [x EXCEPT !.node = n] \in ClaimType
  BY DEF ClaimType

LEMMA PVUpdate ==
  ASSUME NEW x \in PVType
  PROVE  /\ [x EXCEPT !.state = "gone"] \in PVType
         /\ [x EXCEPT !.policy = "Retain"] \in PVType
         /\ \A f \in Claims \cup Vols \cup {None} : [x EXCEPT !.ref = f] \in PVType
  BY DEF PVType

LEMMA HelperUpdate ==
  ASSUME NEW x \in HelperType
  PROVE  /\ \A f \in SUBSET Finalizers : [x EXCEPT !.fin = f] \in HelperType
         /\ NoHelper \in HelperType
  BY DEF HelperType, NoHelper

LEMMA TypeLookup ==
  ASSUME TypeOK, NEW p \in Procs, NEW c \in Claims,
         \/ LookupHelper(p, c) \/ OpenWatch(p, c)
         \/ TakeEvent(p, c) \/ WaitFails(p, c)
  PROVE  TypeOK'
<1>1. call' \in CallMap
  <2>1. {"create", "pod", "watch", "wait", "unpod", "retain"} \subseteq PCs
    BY DEF PCs
  <2>2. call \in CallMap
    BY TypeParts
  <2>3. CASE LookupHelper(p, c)
    BY <2>1, <2>2, <2>3, GotoType DEF LookupHelper, Claimed
  <2>4. CASE OpenWatch(p, c)
    BY <2>1, <2>2, <2>4, GotoType DEF OpenWatch
  <2>5. CASE TakeEvent(p, c)
    BY <2>1, <2>2, <2>5, GotoType DEF TakeEvent
  <2>6. CASE WaitFails(p, c)
    BY <2>2, <2>6, ReturnType DEF WaitFails
  <2>. QED
    BY <2>3, <2>4, <2>5, <2>6
<1>2. faults' \in Nat /\ UNCHANGED <<clusterVars, listed, seen>>
  BY TypeParts DEF LookupHelper, OpenWatch, TakeEvent, WaitFails
<1>. QED
  BY <1>1, <1>2, CallOnly

LEMMA TypeCreate ==
  ASSUME TypeOK, NEW p \in Procs, NEW c \in Claims, NEW r \in Replies,
         CreateHelper(p, c, r) \/ CreatePod(p, c, r) \/ DeletePod(p, c, r)
  PROVE  TypeOK'
<1>. USE TypeParts
<1>1. Return(p, c) \in CallMap /\ FailAttempt(p, c) \in CallMap
  BY ReturnType, FailAttemptType
<1>2. \A l \in PCs : Goto(p, c, l) \in CallMap
  BY GotoType
<1>3. CASE CreateHelper(p, c, r)
  <2>1. Claimed \in PCs
    BY DEF Claimed, PCs
  <2>2. call' \in CallMap /\ faults' \in Nat
    BY <1>1, <1>2, <1>3, <2>1, AnsweredType DEF CreateHelper
  <2>3. owner' \in [Vols -> Claims \cup {None}]
    BY <1>3 DEF CreateHelper, FreshUIDs, ClusterTypeOK
  <2>4. helper' \in [Claims -> HelperType]
    <3>1. ASSUME NEW w \in Vols
          PROVE  [state    |-> "pending",
                  uid      |-> w,
                  vol      |-> None,
                  class    |-> call[p][c].class,
                  node     |-> IF Method = "pod" THEN None ELSE call[p][c].node,
                  deleting |-> FALSE,
                  fin      |-> {"pvc-protection"}] \in HelperType
      BY DEF CallMap, CallType, HelperType, Finalizers
    <3>. QED
      BY <1>3, <3>1 DEF CreateHelper, FreshUIDs, ClusterTypeOK
  <2>. QED
    BY <1>3, <2>2, <2>3, <2>4 DEF CreateHelper, TypeOK, ClusterTypeOK, CallMap
<1>4. CASE CreatePod(p, c, r)
  <2>1. [call EXCEPT ![p][c] = [@ EXCEPT !.pc = "watch", !.hasPod = TRUE]] \in CallMap
    <3>1. ASSUME NEW x \in CallType
          PROVE  [x EXCEPT !.pc = "watch", !.hasPod = TRUE] \in CallType
      BY DEF CallType, PCs
    <3>2. [call[p][c] EXCEPT !.pc = "watch", !.hasPod = TRUE] \in CallType
      BY <3>1 DEF CallMap
    <3>. QED
      BY <3>2 DEF CallMap
  <2>2. "watch" \in PCs
    BY DEF PCs
  <2>3. call' \in CallMap /\ faults' \in Nat
    BY <1>1, <1>2, <1>4, <2>1, <2>2, AnsweredType DEF CreatePod
  <2>4. pods' \in [Claims -> Nodes \cup {Terminating, None}]
    <3>1. call[p][c].node \in Nodes \cup {None}
      BY DEF CallMap, CallType
    <3>. QED
      BY <1>4, <3>1 DEF CreatePod, ClusterTypeOK
  <2>. QED
    BY <1>4, <2>3, <2>4 DEF CreatePod, TypeOK, ClusterTypeOK, CallMap
<1>5. CASE DeletePod(p, c, r)
  <2>1. "retain" \in PCs
    BY DEF PCs
  <2>2. call' \in CallMap /\ faults' \in Nat
    BY <1>1, <1>2, <1>5, <2>1, AnsweredType DEF DeletePod
  <2>3. pods' \in [Claims -> Nodes \cup {Terminating, None}]
    BY <1>5 DEF DeletePod, ClusterTypeOK
  <2>. QED
    BY <1>5, <2>2, <2>3 DEF DeletePod, TypeOK, ClusterTypeOK, CallMap
<1>. QED
  BY <1>3, <1>4, <1>5

LEMMA TypeRelease ==
  ASSUME TypeOK, NEW p \in Procs, NEW c \in Claims, NEW r \in Replies,
         \/ RetainPV(p, c, r) \/ UnfinalizeHelper(p, c, r)
         \/ DeleteHelper(p, c, r) \/ UnrefPV(p, c, r)
  PROVE  TypeOK'
<1>. USE TypeParts
<1>1. Return(p, c) \in CallMap /\ FailAttempt(p, c) \in CallMap
  BY ReturnType, FailAttemptType
<1>2. {"unfinalize", "delete", "unref", "bondClaim"} \subseteq PCs
  BY DEF PCs
<1>3. \A l \in PCs : Goto(p, c, l) \in CallMap
  BY GotoType
<1>. DEFINE v == call[p][c].vol
<1>4. pv \in [Vols -> PVType] /\ helper \in [Claims -> HelperType]
  BY DEF ClusterTypeOK
<1>5. CASE RetainPV(p, c, r)
  <2>1. call' \in CallMap /\ faults' \in Nat
    BY <1>1, <1>2, <1>3, <1>5, AnsweredType DEF RetainPV
  <2>2. pv' \in [Vols -> PVType]
    BY ZenonT(60), <1>4, <1>5, PVUpdate DEF RetainPV
  <2>. QED
    BY <1>5, <2>1, <2>2 DEF RetainPV, TypeOK, ClusterTypeOK, CallMap
<1>6. CASE UnfinalizeHelper(p, c, r)
  <2>. DEFINE keep == call[p][c].keep
              h == IF helper[c].deleting /\ keep = {}
                     THEN NoHelper ELSE [helper[c] EXCEPT !.fin = keep]
  <2>1. h \in HelperType
    <3>1. keep \in SUBSET Finalizers
      BY DEF CallMap, CallType
    <3>. QED
      BY <1>4, <3>1, HelperUpdate
  <2>. HIDE DEF h
  <2>2. Delivered(Goto(p, c, "delete"), c, h) \in CallMap
    BY <1>2, <1>3, <2>1, DeliveredType
  <2>3. Delivered(Return(p, c), c, h) \in CallMap
    BY <1>1, <2>1, DeliveredType
  <2>4. call' \in CallMap /\ faults' \in Nat
    BY <1>1, <1>6, <2>2, <2>3, AnsweredType DEF UnfinalizeHelper, h
  <2>5. helper' \in [Claims -> HelperType]
    <3>1. helper' = helper \/ helper' = [helper EXCEPT ![c] = h]
      BY <1>6 DEF UnfinalizeHelper, h
    <3>. QED
      BY <1>4, <2>1, <3>1
  <2>. QED
    BY <1>6, <2>4, <2>5 DEF UnfinalizeHelper, TypeOK, ClusterTypeOK, CallMap
<1>7. CASE DeleteHelper(p, c, r)
  <2>. DEFINE h == [helper[c] EXCEPT !.deleting = TRUE,
                                     !.fin = @ \cup {"foregroundDeletion"}]
  <2>1. h \in HelperType
    <3>1. ASSUME NEW x \in HelperType
          PROVE  [x EXCEPT !.deleting = TRUE,
                           !.fin = @ \cup {"foregroundDeletion"}] \in HelperType
      BY DEF HelperType, Finalizers
    <3>. QED
      BY <1>4, <3>1
  <2>2. Delivered(Goto(p, c, "unref"), c, h) \in CallMap
    BY <1>2, <1>3, <2>1, DeliveredType
  <2>3. Delivered(FailAttempt(p, c), c, h) \in CallMap
    BY <1>1, <2>1, DeliveredType
  <2>4. call' \in CallMap /\ faults' \in Nat
    BY <1>1, <1>7, <2>2, <2>3, AnsweredType DEF DeleteHelper
  <2>5. helper' \in [Claims -> HelperType]
    BY <1>4, <1>7, <2>1 DEF DeleteHelper
  <2>. QED
    BY <1>7, <2>4, <2>5 DEF DeleteHelper, TypeOK, ClusterTypeOK, CallMap
<1>8. CASE UnrefPV(p, c, r)
  <2>1. call' \in CallMap /\ faults' \in Nat
    BY <1>1, <1>2, <1>3, <1>8, AnsweredType DEF UnrefPV
  <2>2. pv' \in [Vols -> PVType]
    <3>1. \A y \in Vols : [pv[y] EXCEPT !.ref = None] \in PVType
      BY <1>4, PVUpdate
    <3>. QED
      BY <1>4, <1>8, <3>1 DEF UnrefPV
  <2>. QED
    BY <1>8, <2>1, <2>2 DEF UnrefPV, TypeOK, ClusterTypeOK, CallMap
<1>. QED
  BY <1>5, <1>6, <1>7, <1>8

LEMMA TypeBond ==
  ASSUME TypeOK, NEW p \in Procs, NEW c \in Claims,
         \/ \E r \in Replies : BondClaim(p, c, r) \/ BondVolume(p, c, r)
         \/ StoreVolume(p, c)
  PROVE  TypeOK'
<1>. USE TypeParts
<1>1. Return(p, c) \in CallMap
  BY ReturnType
<1>2. {"bondVolume", "store"} \subseteq PCs
  BY DEF PCs
<1>3. \A l \in PCs : Goto(p, c, l) \in CallMap
  BY GotoType
<1>4. pv \in [Vols -> PVType] /\ claim \in [Claims -> ClaimType]
  BY DEF ClusterTypeOK
<1>5. call[p][c].vol \in Vols \cup {None} /\ call[p][c].class \in Classes \cup {None}
  BY DEF CallMap, CallType
<1>6. ASSUME NEW r \in Replies, BondClaim(p, c, r)
      PROVE  TypeOK'
  <2>1. call' \in CallMap /\ faults' \in Nat
    BY <1>1, <1>2, <1>3, <1>6, AnsweredType DEF BondClaim
  <2>2. ASSUME NEW x \in ClaimType, NEW v \in Vols \cup {None},
               NEW k \in Classes \cup {None}
        PROVE  [x EXCEPT !.vol = v, !.class = k] \in ClaimType
    BY DEF ClaimType
  <2>. DEFINE v == call[p][c].vol
              k == call[p][c].class
  <2>3. \/ claim' = claim
        \/ \E t \in Claims : claim' = [claim EXCEPT ![t] = [@ EXCEPT !.vol = v, !.class = k]]
    BY <1>6 DEF BondClaim, Stored
  <2>4. \A t \in Claims : [claim[t] EXCEPT !.vol = v, !.class = k] \in ClaimType
    BY <1>4, <1>5, <2>2
  <2>5. claim' \in [Claims -> ClaimType]
    BY <1>4, <2>3, <2>4
  <2>. QED
    BY <1>6, <2>1, <2>5 DEF BondClaim, TypeOK, ClusterTypeOK, CallMap
<1>7. ASSUME NEW r \in Replies, BondVolume(p, c, r)
      PROVE  TypeOK'
  <2>1. call' \in CallMap /\ faults' \in Nat
    BY <1>1, <1>2, <1>3, <1>7, AnsweredType DEF BondVolume
  <2>2. ASSUME NEW x \in PVType
        PROVE  [x EXCEPT !.policy = "Delete", !.ref = c] \in PVType
    BY DEF PVType
  <2>3. pv' \in [Vols -> PVType]
    BY ZenonT(60), <1>4, <1>7, <2>2 DEF BondVolume
  <2>. QED
    BY <1>7, <2>1, <2>3 DEF BondVolume, TypeOK, ClusterTypeOK, CallMap
<1>8. CASE StoreVolume(p, c)
  <2>1. call' \in CallMap /\ faults' \in Nat
    BY <1>1, <1>8 DEF StoreVolume
  <2>2. ASSUME NEW x \in PVType
        PROVE  [x EXCEPT !.state = "phantom", !.policy = "Retain", !.ref = c] \in PVType
    BY DEF PVType
  <2>3. pv' \in [Vols -> PVType]
    BY <1>4, <1>8, <2>2 DEF StoreVolume
  <2>. QED
    BY <1>8, <2>1, <2>3 DEF StoreVolume, TypeOK, ClusterTypeOK, CallMap
<1>. QED
  BY <1>6, <1>7, <1>8

LEMMA TypeController ==
  ASSUME TypeOK, NEW p \in Procs, NEW c \in Claims, ControllerStep(p, c)
  PROVE  TypeOK'
<1>. USE TypeParts
<1>1. claim \in [Claims -> ClaimType]
  BY DEF ClusterTypeOK
<1>2. CASE SyncClaim(p, c)
  <2>1. NodeToProvision(c) \in Nodes \cup {None}
    BY <1>1 DEF NodeToProvision, ClaimType
  <2>. QED
    BY <1>2, <2>1 DEF SyncClaim, TypeOK, ClusterTypeOK, clusterVars
<1>3. CASE SyncHelper(p, c)
  BY <1>3 DEF SyncHelper, TypeOK, ClusterTypeOK, clusterVars
<1>4. CASE Start(p, c)
  <2>1. seen[p][c] \in Nodes
    BY <1>4 DEF Start, TypeOK
  <2>2. PICK k \in Choices[seen[p][c]] \ {None} :
          call' = [call EXCEPT ![p][c] =
                     [@ EXCEPT !.pc = "lookup", !.class = k, !.node = seen[p][c]]]
    BY <1>4 DEF Start
  <2>3. k \in Classes
    BY <2>1, ProvisionerAssumption
  <2>4. ASSUME NEW x \in CallType, NEW n \in Nodes
        PROVE  [x EXCEPT !.pc = "lookup", !.class = k, !.node = n] \in CallType
    BY <2>3 DEF CallType, PCs
  <2>5. call' \in CallMap
    BY <2>1, <2>2, <2>4 DEF CallMap
  <2>. QED
    BY <1>4, <2>5, CallOnly DEF Start
<1>5. CASE Reschedule(p, c)
  <2>1. claim' \in [Claims -> ClaimType]
    <3>1. ASSUME NEW x \in ClaimType
          PROVE  [x EXCEPT !.node = None] \in ClaimType
      BY DEF ClaimType
    <3>. QED
      BY <1>1, <1>5, <3>1 DEF Reschedule
  <2>. QED
    BY <1>5, <2>1, ClusterOnly DEF Reschedule, ClusterTypeOK
<1>. QED
  BY <1>2, <1>3, <1>4, <1>5 DEF ControllerStep

LEMMA TypeFaults ==
  ASSUME TypeOK, NEW p \in Procs
  PROVE  /\ \A c \in Claims : ApiError(p, c) => TypeOK'
         /\ Crash(p) => TypeOK'
<1>. USE TypeParts
<1>1. ASSUME NEW c \in Claims, ApiError(p, c)
      PROVE  TypeOK'
  BY <1>1, ReturnType, FailAttemptType, CallOnly DEF ApiError
<1>2. CASE Crash(p)
  <2>1. call' \in CallMap /\ faults' \in Nat
    BY <1>2, IdleCallType DEF Crash, CallMap
  <2>2. listed' \in [Procs -> SUBSET Claims]
    BY <1>2 DEF Crash, TypeOK
  <2>3. seen' \in [Procs -> [Claims -> Nodes \cup {None}]]
    <3>1. \A c \in Claims : NodeToProvision(c) \in Nodes \cup {None}
      BY DEF NodeToProvision, ClusterTypeOK, ClaimType
    <3>. QED
      BY <1>2, <3>1 DEF Crash, TypeOK
  <2>. QED
    BY <1>2, <2>1, <2>2, <2>3 DEF Crash, TypeOK, CallMap, ClusterTypeOK, clusterVars
<1>. QED
  BY <1>1, <1>2

LEMMA ChangeType ==
  ASSUME TypeOK, NEW c \in Claims, WatchedChange(c)
  PROVE  helper' \in [Claims -> HelperType]
<1>1. helper \in [Claims -> HelperType]
  BY TypeParts DEF ClusterTypeOK
<1>2. \A h \in HelperType : [helper EXCEPT ![c] = h] \in [Claims -> HelperType]
  BY <1>1
<1>3. CASE BindHelper(c) \/ \E v \in Vols : BindAvailable(c, v)
  <2>1. helper[c].uid \in Vols \cup {None}
    BY <1>1 DEF HelperType
  <2>2. PICK w \in Vols \cup {None} :
          helper' = [helper EXCEPT ![c] = [@ EXCEPT !.state = "bound", !.vol = w]]
    BY <1>3, <2>1 DEF BindHelper, BindAvailable
  <2>3. ASSUME NEW x \in HelperType
        PROVE  [x EXCEPT !.state = "bound", !.vol = w] \in HelperType
    BY DEF HelperType
  <2>. QED
    BY <1>1, <1>2, <2>2, <2>3
<1>4. CASE Protect(c)
  <2>1. [helper[c] EXCEPT !.fin = @ \cup {"pvc-protection"}] \in HelperType
    BY <1>1 DEF HelperType, Finalizers
  <2>2. helper' = [helper EXCEPT ![c] = [helper[c] EXCEPT !.fin = @ \cup {"pvc-protection"}]]
    BY <1>1, <1>4 DEF Protect
  <2>. QED
    BY <1>2, <2>1, <2>2
<1>5. ASSUME NEW f \in Finalizers, DropFinalizer(c, f)
      PROVE  helper' \in [Claims -> HelperType]
  <2>. DEFINE h == [helper[c] EXCEPT !.fin = @ \ {f}]
  <2>1. helper[c] \in HelperType /\ NoHelper \in HelperType
    BY <1>1, HelperUpdate
  <2>2. ASSUME NEW x \in HelperType
        PROVE  [x EXCEPT !.fin = @ \ {f}] \in HelperType
    BY DEF HelperType
  <2>3. h \in HelperType
    BY <2>1, <2>2
  <2>4. helper' = [helper EXCEPT ![c] = NoHelper] \/ helper' = [helper EXCEPT ![c] = h]
    BY <1>5 DEF DropFinalizer
  <2>. QED
    BY <1>2, <2>1, <2>3, <2>4
<1>. QED
  BY <1>3, <1>4, <1>5 DEF WatchedChange

LEMMA TypeCluster ==
  ASSUME TypeOK, HelpersClassed,
         \/ \E c \in Claims : ClusterStep(c)
         \/ \E v \in Vols : Reclaim(v) /\ UNCHANGED callVars
  PROVE  TypeOK'
<1>. USE TypeParts
<1>1. /\ claim \in [Claims -> ClaimType]
      /\ helper \in [Claims -> HelperType]
      /\ pv \in [Vols -> PVType]
  BY DEF ClusterTypeOK
<1>2. ASSUME NEW c \in Claims, WatchedChange(c)
      PROVE  TypeOK'
  <2>2. helper[c].uid \in Vols \cup {None}
    BY <1>1 DEF HelperType
  <2>4. helper' \in [Claims -> HelperType]
    BY <1>2, ChangeType
  <2>5. pv' \in [Vols -> PVType]
    <3>1. \A y \in Vols : [pv[y] EXCEPT !.ref = helper[c].uid] \in PVType
      BY <1>1, <2>2, PVUpdate
    <3>2. \/ pv' = pv
          \/ \E y \in Vols : pv' = [pv EXCEPT ![y] = [@ EXCEPT !.ref = helper[c].uid]]
      BY <1>2 DEF WatchedChange, BindHelper, BindAvailable, Protect, DropFinalizer
    <3>. QED
      BY <1>1, <3>1, <3>2
  <2>6. call' \in CallMap
    BY <1>2, <2>4, DeliveredType DEF WatchedChange
  <2>. QED
    BY <1>2, <2>4, <2>5, <2>6
    DEF WatchedChange, BindHelper, BindAvailable, Protect, DropFinalizer, TypeOK,
        ClusterTypeOK, CallMap
<1>3. ASSUME NEW c \in Claims, UNCHANGED callVars,
             CreateClaim(c) \/ SelectNode(c) \/ DeleteClaim(c)
      PROVE  TypeOK'
  <2>1. claim' \in [Claims -> ClaimType]
    <3>1. CASE CreateClaim(c)
      BY <1>1, <3>1, ClaimUpdate DEF CreateClaim
    <3>2. CASE SelectNode(c)
      <4>1. \A n \in Nodes : [claim[c] EXCEPT !.node = n] \in ClaimType
        BY <1>1, ClaimUpdate
      <4>. QED
        BY <1>1, <3>2, <4>1 DEF SelectNode
    <3>3. CASE DeleteClaim(c)
      BY <1>1, <3>3, ClaimUpdate DEF DeleteClaim
    <3>. QED
      BY <1>3, <3>1, <3>2, <3>3
  <2>. QED
    BY <1>3, <2>1, ClusterOnly DEF CreateClaim, SelectNode, DeleteClaim, ClusterTypeOK
<1>4. ASSUME NEW c \in Claims, UNCHANGED callVars, BackendProvision(c)
      PROVE  TypeOK'
  <2>1. helper[c].class \in Classes /\ helper[c].uid \in Vols \cup {None}
    BY <1>1, <1>4 DEF HelperType, HelpersClassed, BackendProvision
  <2>2. TargetNode(c) \in Nodes \cup {None}
    BY <1>1 DEF TargetNode, HelperType, ClusterTypeOK
  <2>3. pv' \in [Vols -> PVType]
    <3>. DEFINE new == [state  |-> "live",
                        policy |-> Policy[helper[c].class],
                        ref    |-> helper[c].uid,
                        class  |-> helper[c].class,
                        node   |-> TargetNode(c)]
    <3>1. new \in PVType
      BY <2>1, <2>2, ClusterAssumption DEF PVType
    <3>2. pv' = [pv EXCEPT ![helper[c].uid] = new]
      BY <1>4 DEF BackendProvision
    <3>. QED
      BY <1>1, <3>1, <3>2
  <2>. QED
    BY <1>4, <2>3, ClusterOnly DEF BackendProvision, ClusterTypeOK
<1>5. ASSUME NEW c \in Claims, UNCHANGED callVars, RebindHelper(c) \/ BindUser(c)
      PROVE  TypeOK'
  <2>1. pv' \in [Vols -> PVType]
    <3>1. \A y \in Vols : /\ [pv[y] EXCEPT !.ref = helper[c].uid] \in PVType
                          /\ [pv[y] EXCEPT !.ref = c] \in PVType
      <4>1. helper[c].uid \in Vols \cup {None}
        BY <1>1 DEF HelperType
      <4>. QED
        BY <1>1, <4>1, PVUpdate
    <3>2. CASE RebindHelper(c)
      BY <1>1, <3>1, <3>2 DEF RebindHelper
    <3>3. CASE BindUser(c)
      BY <1>1, <3>1, <3>3 DEF BindUser
    <3>. QED
      BY <1>5, <3>2, <3>3
  <2>. QED
    BY <1>5, <2>1, ClusterOnly DEF RebindHelper, BindUser, ClusterTypeOK
<1>6. ASSUME NEW c \in Claims, UNCHANGED callVars, PodGone(c)
      PROVE  TypeOK'
  BY <1>6, ClusterOnly DEF PodGone, ClusterTypeOK
<1>7. ASSUME NEW v \in Vols, UNCHANGED callVars, Reclaim(v)
      PROVE  TypeOK'
  <2>1. pv' \in [Vols -> PVType]
    BY <1>1, <1>7, PVUpdate DEF Reclaim
  <2>. QED
    BY <1>7, <2>1, ClusterOnly DEF Reclaim, ClusterTypeOK
<1>. QED
  BY <1>2, <1>3, <1>4, <1>5, <1>6, <1>7 DEF ClusterStep

-----------------------------------------------------------------------------
(* What a step does to the calls *)

\* new agrees with call but at p, c, where the call has returned or has kept its
\* choice and its volume.
Keeps(new, p, c) ==
  /\ \A q \in Procs, d \in Claims : q # p \/ d # c => new[q][d] = call[q][d]
  /\ \/ new[p][c].pc = "idle" /\ new[p][c].vol = None
     \/ /\ new[p][c].class = call[p][c].class
        /\ new[p][c].node = call[p][c].node
        /\ new[p][c].vol = call[p][c].vol

LEMMA GotoFacts ==
  ASSUME call \in CallMap, NEW p \in Procs, NEW c \in Claims, NEW l
  PROVE  /\ Keeps(Goto(p, c, l), p, c)
         /\ Goto(p, c, l)[p][c].pc = l
         /\ Goto(p, c, l)[p][c].class = call[p][c].class
         /\ Goto(p, c, l)[p][c].vol = call[p][c].vol
<1>1. Goto(p, c, l)[p][c] = [call[p][c] EXCEPT !.pc = l, !.tries = 0]
  BY DEF Goto, CallMap
<1>2. ASSUME NEW x \in CallType
      PROVE  LET y == [x EXCEPT !.pc = l, !.tries = 0]
             IN  y.pc = l /\ y.class = x.class /\ y.node = x.node /\ y.vol = x.vol
  BY DEF CallType
<1>3. call[p][c] \in CallType
  BY DEF CallMap
<1>4. \A q \in Procs, d \in Claims : q # p \/ d # c => Goto(p, c, l)[q][d] = call[q][d]
  BY DEF Goto, CallMap
<1>. QED
  BY <1>1, <1>2, <1>3, <1>4 DEF Keeps

LEMMA ReturnFacts ==
  ASSUME call \in CallMap, NEW p \in Procs, NEW c \in Claims
  PROVE  /\ Keeps(Return(p, c), p, c)
         /\ Return(p, c)[p][c].pc = "idle"
         /\ Return(p, c)[p][c].vol = None
<1>1. Return(p, c)[p][c] = IdleCall
  BY DEF Return, CallMap
<1>2. \A q \in Procs, d \in Claims : q # p \/ d # c => Return(p, c)[q][d] = call[q][d]
  BY DEF Return, CallMap
<1>. QED
  BY <1>1, <1>2 DEF Keeps, IdleCall

LEMMA FailFacts ==
  ASSUME call \in CallMap, NEW p \in Procs, NEW c \in Claims
  PROVE  /\ Keeps(FailAttempt(p, c), p, c)
         /\ FailAttempt(p, c)[p][c].pc \in {"idle", call[p][c].pc}
<1>1. CASE call[p][c].tries + 1 < RetrySteps
  <2>. DEFINE n == call[p][c].tries + 1
  <2>1. FailAttempt(p, c) = [call EXCEPT ![p][c] = [call[p][c] EXCEPT !.tries = n]]
    BY <1>1 DEF FailAttempt, CallMap
  <2>2. FailAttempt(p, c)[p][c] = [call[p][c] EXCEPT !.tries = n]
    BY <2>1 DEF CallMap
  <2>3. \A q \in Procs, d \in Claims :
          q # p \/ d # c => FailAttempt(p, c)[q][d] = call[q][d]
    BY <2>1 DEF CallMap
  <2>4. ASSUME NEW x \in CallType, NEW m
        PROVE  LET y == [x EXCEPT !.tries = m]
               IN  y.pc = x.pc /\ y.class = x.class /\ y.node = x.node /\ y.vol = x.vol
    BY DEF CallType
  <2>5. call[p][c] \in CallType
    BY DEF CallMap
  <2>. QED
    BY <2>2, <2>3, <2>4, <2>5 DEF Keeps
<1>2. CASE ~(call[p][c].tries + 1 < RetrySteps)
  BY <1>2, ReturnFacts DEF FailAttempt
<1>. QED
  BY <1>1, <1>2

\* A delivered event changes nothing but the volume of a call that waits.
LEMMA DeliveredFacts ==
  ASSUME NEW calls \in CallMap, NEW c \in Claims, NEW h \in HelperType,
         NEW q \in Procs, NEW d \in Claims
  PROVE  LET new == Delivered(calls, c, h)[q][d]
             old == calls[q][d]
         IN  /\ new.pc = old.pc /\ new.class = old.class /\ new.node = old.node
             /\ d # c \/ old.pc # "wait" => new = old
             /\ \/ new.vol = old.vol
                \/ /\ d = c /\ h.state = "bound"
                   /\ old.pc = "wait" /\ old.vol = None
                   /\ new.vol = h.vol
<1>. DEFINE After(x) == IF x.pc = "wait" /\ x.vol = None /\ h.state = "bound"
                          THEN [x EXCEPT !.vol = h.vol,
                                         !.keep = h.fin \ {"pvc-protection"}]
                          ELSE x
<1>1. Delivered(calls, c, h)[q][d] = IF d = c THEN After(calls[q][d]) ELSE calls[q][d]
  BY DEF Delivered, CallMap
<1>2. ASSUME NEW x \in CallType
      PROVE  LET y == After(x)
             IN  /\ y.pc = x.pc /\ y.class = x.class /\ y.node = x.node
                 /\ x.pc # "wait" => y = x
                 /\ \/ y.vol = x.vol
                    \/ h.state = "bound" /\ x.pc = "wait" /\ x.vol = None /\ y.vol = h.vol
  BY DEF CallType
<1>3. calls[q][d] \in CallType
  BY DEF CallMap
<1>. HIDE DEF After
<1>. QED
  BY <1>1, <1>2, <1>3

\* A call that a step of any call leaves running was running with its choice.
LEMMA ChoiceKept ==
  ASSUME TypeOK, NEW p \in Procs, NEW c \in Claims,
         CallStep(p, c) \/ ApiError(p, c) \/ WatchedChange(c),
         NEW q \in Procs, NEW d \in Claims
  PROVE  \/ call'[q][d].pc = "idle"
         \/ /\ ~At(q, d, "idle")
            /\ call'[q][d].class = call[q][d].class
            /\ call'[q][d].node = call[q][d].node
<1>. DEFINE Fine(new) == \/ new[q][d].pc = "idle"
                         \/ /\ call[q][d].pc # "idle"
                            /\ new[q][d].class = call[q][d].class
                            /\ new[q][d].node = call[q][d].node
<1>. USE TypeParts
<1>1. Fine(call)
  OBVIOUS
<1>2. Fine(Return(p, c))
  BY ReturnFacts DEF Keeps
<1>3. ASSUME call[p][c].pc # "idle"
      PROVE  Fine(FailAttempt(p, c)) /\ \A l \in PCs : Fine(Goto(p, c, l))
  BY <1>3, GotoFacts, FailFacts DEF Keeps
<1>4. ASSUME NEW new \in CallMap, Fine(new), NEW h \in HelperType
      PROVE  Fine(Delivered(new, c, h))
  BY <1>4, DeliveredFacts
<1>5. helper \in [Claims -> HelperType]
  BY DEF ClusterTypeOK
<1>6. {"create", "pod", "watch", "wait", "unpod", "retain", "unfinalize", "delete",
       "unref", "bondClaim", "bondVolume", "store"} \subseteq PCs
  BY DEF PCs
<1>7. CASE LookupHelper(p, c) \/ OpenWatch(p, c) \/ TakeEvent(p, c)
           \/ WaitFails(p, c) \/ StoreVolume(p, c)
  <2>1. \/ call' = Return(p, c)
        \/ call[p][c].pc # "idle" /\ \E l \in PCs : call' = Goto(p, c, l)
    BY <1>6, <1>7
    DEF LookupHelper, OpenWatch, TakeEvent, WaitFails, StoreVolume, Claimed, At
  <2>. QED
    BY <1>2, <1>3, <2>1 DEF At
<1>8. ASSUME NEW r \in Replies,
             \/ CreateHelper(p, c, r) \/ DeletePod(p, c, r)
             \/ RetainPV(p, c, r) \/ UnrefPV(p, c, r)
             \/ BondClaim(p, c, r) \/ BondVolume(p, c, r)
      PROVE  Fine(call')
  <2>1. /\ call[p][c].pc # "idle"
        /\ \/ call' = Return(p, c)
           \/ call' = FailAttempt(p, c)
           \/ \E l \in PCs : call' = Goto(p, c, l)
    BY <1>6, <1>8
    DEF CreateHelper, DeletePod, RetainPV, UnrefPV, BondClaim, BondVolume, Claimed,
        At, Answered
  <2>. QED
    BY <1>2, <1>3, <2>1
<1>9. ASSUME NEW r \in Replies, CreatePod(p, c, r)
      PROVE  Fine(call')
  <2>. DEFINE new == [call EXCEPT ![p][c] = [@ EXCEPT !.pc = "watch", !.hasPod = TRUE]]
  <2>1. Fine(new)
    <3>1. ASSUME NEW x \in CallType
          PROVE  LET y == [x EXCEPT !.pc = "watch", !.hasPod = TRUE]
                 IN  y.class = x.class /\ y.node = x.node
      BY DEF CallType
    <3>2. call[p][c] \in CallType /\ call[p][c].pc # "idle"
      BY <1>9 DEF CallMap, CreatePod, At
    <3>3. new[p][c] = [call[p][c] EXCEPT !.pc = "watch", !.hasPod = TRUE]
      BY DEF CallMap
    <3>4. q # p \/ d # c => new[q][d] = call[q][d]
      BY DEF CallMap
    <3>. QED
      BY <3>1, <3>2, <3>3, <3>4
  <2>2. \/ call' = Return(p, c)
        \/ call' = new
        \/ call[p][c].pc # "idle" /\ call' = Goto(p, c, "watch")
    BY <1>9 DEF CreatePod, At, Answered
  <2>. QED
    BY ZenonT(60), <1>2, <1>3, <1>6, <2>1, <2>2
<1>10. ASSUME NEW r \in Replies, UnfinalizeHelper(p, c, r) \/ DeleteHelper(p, c, r)
       PROVE  Fine(call')
  <2>1. \/ call' = Return(p, c)
        \/ /\ call[p][c].pc # "idle"
           /\ \E new \in {Return(p, c), FailAttempt(p, c), Goto(p, c, "delete"),
                          Goto(p, c, "unref")} :
                call' = new \/ \E h \in HelperType : call' = Delivered(new, c, h)
    <3>1. \A f \in SUBSET Finalizers : [helper[c] EXCEPT !.fin = f] \in HelperType
      BY <1>5, HelperUpdate
    <3>2. NoHelper \in HelperType
      BY <1>5, HelperUpdate
    <3>3. call[p][c].keep \in SUBSET Finalizers
      BY DEF CallMap, CallType
    <3>4. ASSUME NEW x \in HelperType
          PROVE  [x EXCEPT !.deleting = TRUE,
                           !.fin = @ \cup {"foregroundDeletion"}] \in HelperType
      BY DEF HelperType, Finalizers
    <3>5. CASE UnfinalizeHelper(p, c, r)
      BY <3>1, <3>2, <3>3, <3>5 DEF UnfinalizeHelper, At, Answered
    <3>6. CASE DeleteHelper(p, c, r)
      BY <1>5, <3>4, <3>6 DEF DeleteHelper, At, Answered
    <3>. QED
      BY <1>10, <3>5, <3>6
  <2>2. /\ Return(p, c) \in CallMap /\ FailAttempt(p, c) \in CallMap
        /\ Goto(p, c, "delete") \in CallMap /\ Goto(p, c, "unref") \in CallMap
    BY <1>6, ReturnType, FailAttemptType, GotoType
  <2>. HIDE DEF Fine
  <2>. QED
    BY <1>2, <1>3, <1>4, <1>6, <2>1, <2>2
<1>11. CASE ApiError(p, c)
  BY <1>2, <1>3, <1>11 DEF ApiError, At
<1>12. CASE WatchedChange(c)
  <2>1. helper'[c] \in HelperType
    BY <1>12, ChangeType
  <2>. QED
    BY <1>1, <1>4, <1>12, <2>1 DEF WatchedChange, At
<1>. QED
  BY <1>7, <1>8, <1>9, <1>10, <1>11, <1>12 DEF CallStep, At

-----------------------------------------------------------------------------
(* Type correctness, concluded *)

LEMMA CallsClassedStep ==
  ASSUME TypeOK, CallsClassed, Next
  PROVE  CallsClassed'
<1>. SUFFICES ASSUME NEW q \in Procs, NEW d \in Claims, call'[q][d].pc # "idle"
              PROVE  call'[q][d].class \in Classes
  BY DEF CallsClassed, At
<1>. USE TypeParts
<1>1. ASSUME NEW p \in Procs, NEW c \in Claims,
             CallStep(p, c) \/ ApiError(p, c) \/ WatchedChange(c)
      PROVE  call'[q][d].class \in Classes
  BY <1>1, ChoiceKept DEF CallsClassed, At
<1>2. CASE call' = call
  BY <1>2 DEF CallsClassed, At
<1>3. ASSUME NEW p \in Procs, NEW c \in Claims, Start(p, c)
      PROVE  call'[q][d].class \in Classes
  <2>1. seen[p][c] \in Nodes
    BY <1>3 DEF Start, TypeOK
  <2>2. PICK k \in Classes :
          call' = [call EXCEPT ![p][c] =
                     [@ EXCEPT !.pc = "lookup", !.class = k, !.node = seen[p][c]]]
    BY <1>3, <2>1, ProvisionerAssumption DEF Start
  <2>3. ASSUME NEW x \in CallType, NEW n
        PROVE  [x EXCEPT !.pc = "lookup", !.class = k, !.node = n].class = k
    BY DEF CallType
  <2>4. call'[p][c].class = k
    BY <2>2, <2>3 DEF CallMap
  <2>5. q # p \/ d # c => call'[q][d] = call[q][d]
    BY <2>2 DEF CallMap
  <2>. QED
    BY <2>4, <2>5 DEF CallsClassed, At
<1>4. ASSUME NEW p \in Procs, Crash(p)
      PROVE  call'[q][d].class \in Classes
  BY <1>4 DEF Crash, CallMap, CallsClassed, At, IdleCall
<1>5. ASSUME NEW p \in Procs, NEW c \in Claims, ControllerStep(p, c)
      PROVE  Start(p, c) \/ call' = call
  BY <1>5 DEF ControllerStep, SyncClaim, SyncHelper, Reschedule, callVars
<1>6. ASSUME NEW c \in Claims, ClusterStep(c)
      PROVE  WatchedChange(c) \/ call' = call
  BY <1>6 DEF ClusterStep, callVars
<1>. QED
  BY <1>1, <1>2, <1>3, <1>4, <1>5, <1>6 DEF Next, callVars

\* A helper claim that a step leaves pending was pending with its class, or has
\* just been created by a running call.
LEMMA HelpersClassedStep ==
  ASSUME TypeOK, CallsClassed, HelpersClassed, Next
  PROVE  HelpersClassed'
<1>. SUFFICES ASSUME NEW d \in Claims, helper'[d].state = "pending"
              PROVE  helper'[d].class \in Classes
  BY DEF HelpersClassed
<1>. USE TypeParts
<1>1. helper \in [Claims -> HelperType]
  BY DEF ClusterTypeOK
<1>2. CASE helper'[d] = helper[d]
  BY <1>2 DEF HelpersClassed
<1>3. ASSUME NEW p \in Procs, NEW c \in Claims, NEW r \in Replies, CreateHelper(p, c, r)
      PROVE  helper'[d].class \in Classes
  <2>1. call[p][c].class \in Classes
    BY <1>3 DEF CallsClassed, CreateHelper, At
  <2>. QED
    BY <1>1, <1>2, <1>3, <2>1 DEF CreateHelper
<1>4. ASSUME NEW p \in Procs, NEW c \in Claims, NEW r \in Replies,
             UnfinalizeHelper(p, c, r) \/ DeleteHelper(p, c, r)
      PROVE  helper'[d].class \in Classes
  <2>1. ASSUME NEW x \in HelperType, NEW f
        PROVE  /\ [x EXCEPT !.fin = f].class = x.class
               /\ [x EXCEPT !.fin = f].state = x.state
               /\ [x EXCEPT !.deleting = TRUE,
                            !.fin = @ \cup {"foregroundDeletion"}].class = x.class
               /\ [x EXCEPT !.deleting = TRUE,
                            !.fin = @ \cup {"foregroundDeletion"}].state = x.state
    BY DEF HelperType
  <2>2. NoHelper.state # "pending"
    BY DEF NoHelper
  <2>3. CASE UnfinalizeHelper(p, c, r)
    <3>1. PICK h \in {helper[c], NoHelper, [helper[c] EXCEPT !.fin = call[p][c].keep]} :
            helper' = [helper EXCEPT ![c] = h]
      BY <1>1, <2>3 DEF UnfinalizeHelper
    <3>2. helper[c] \in HelperType
      BY <1>1
    <3>. DEFINE u == [helper[c] EXCEPT !.fin = call[p][c].keep]
    <3>3. u.state = helper[c].state /\ u.class = helper[c].class
      BY <2>1, <3>2
    <3>. HIDE DEF u
    <3>4. h.state = "pending" => helper[c].state = "pending" /\ h.class = helper[c].class
      BY <2>2, <3>1, <3>3 DEF u
    <3>. QED
      BY <1>1, <3>1, <3>4 DEF HelpersClassed
  <2>4. CASE DeleteHelper(p, c, r)
    <3>1. PICK h \in {helper[c], [helper[c] EXCEPT !.deleting = TRUE,
                                  !.fin = @ \cup {"foregroundDeletion"}]} :
            helper' = [helper EXCEPT ![c] = h]
      BY <1>1, <2>4 DEF DeleteHelper
    <3>2. helper[c] \in HelperType
      BY <1>1
    <3>3. h.state = "pending" => helper[c].state = "pending" /\ h.class = helper[c].class
      BY <2>1, <3>2
    <3>. QED
      BY <1>1, <3>1, <3>3 DEF HelpersClassed
  <2>. QED
    BY <1>4, <2>3, <2>4
<1>5. ASSUME NEW p \in Procs, NEW c \in Claims, CallStep(p, c)
      PROVE  helper'[d].class \in Classes
  BY <1>2, <1>3, <1>4, <1>5
  DEF CallStep, LookupHelper, OpenWatch, TakeEvent, WaitFails, StoreVolume, CreatePod,
      DeletePod, RetainPV, UnrefPV, BondClaim, BondVolume, clusterVars
<1>6. ASSUME NEW c \in Claims, WatchedChange(c)
      PROVE  helper'[d].class \in Classes
  <2>1. CASE BindHelper(c) \/ \E v \in Vols : BindAvailable(c, v)
    <3>1. PICK w : helper' = [helper EXCEPT ![c] = [@ EXCEPT !.state = "bound", !.vol = w]]
      BY <2>1 DEF BindHelper, BindAvailable
    <3>2. ASSUME NEW x \in HelperType
          PROVE  [x EXCEPT !.state = "bound", !.vol = w].state # "pending"
      BY DEF HelperType
    <3>. QED
      BY <1>1, <1>2, <3>1, <3>2
  <2>2. CASE Protect(c) \/ \E f \in Finalizers : DropFinalizer(c, f)
    <3>1. PICK f : helper' = [helper EXCEPT ![c] = NoHelper]
                   \/ helper' = [helper EXCEPT ![c] = [helper[c] EXCEPT !.fin = f]]
      BY <1>1, <2>2 DEF Protect, DropFinalizer
    <3>2. ASSUME NEW x \in HelperType
          PROVE  /\ [x EXCEPT !.fin = f].state = x.state
                 /\ [x EXCEPT !.fin = f].class = x.class
      BY DEF HelperType
    <3>3. NoHelper.state # "pending"
      BY DEF NoHelper
    <3>4. CASE helper' = [helper EXCEPT ![c] = NoHelper]
      BY <1>1, <1>2, <3>3, <3>4
    <3>5. CASE helper' = [helper EXCEPT ![c] = [helper[c] EXCEPT !.fin = f]]
      <4>1. CASE d = c
        <5>1. helper'[d] = [helper[d] EXCEPT !.fin = f] /\ helper[d] \in HelperType
          BY <1>1, <3>5, <4>1
        <5>. QED
          BY <3>2, <5>1 DEF HelpersClassed
      <4>2. CASE d # c
        BY <1>1, <1>2, <3>5, <4>2
      <4>. QED
        BY <4>1, <4>2
    <3>. QED
      BY <3>1, <3>4, <3>5
  <2>. QED
    BY <1>6, <2>1, <2>2 DEF WatchedChange
<1>7. ASSUME NEW c \in Claims, ClusterStep(c), ~WatchedChange(c)
      PROVE  helper'[d].class \in Classes
  BY <1>2, <1>7
  DEF ClusterStep, CreateClaim, SelectNode, DeleteClaim, BackendProvision,
      RebindHelper, BindUser, PodGone
<1>8. ASSUME NEW p \in Procs, NEW c \in Claims, ControllerStep(p, c) \/ ApiError(p, c)
      PROVE  helper'[d].class \in Classes
  BY <1>2, <1>8
  DEF ControllerStep, SyncClaim, SyncHelper, Start, Reschedule, ApiError, clusterVars
<1>. QED
  BY <1>2, <1>5, <1>6, <1>7, <1>8 DEF Next, Crash, Reclaim, clusterVars

LEMMA TypeInit == Init => TypeInv
<1>. SUFFICES ASSUME Init PROVE TypeInv
  OBVIOUS
<1>1. ClusterTypeOK
  BY ClusterAssumption
  DEF Init, ClusterInit, ClusterTypeOK, ClaimType, HelperType, PVType, NoHelper
<1>2. call \in CallMap
  BY IdleCallType DEF Init, CallMap
<1>3. TypeOK
  BY <1>1, <1>2 DEF Init, TypeOK, CallMap
<1>4. CallsClassed /\ HelpersClassed
  BY DEF Init, ClusterInit, CallsClassed, HelpersClassed, At, IdleCall, NoHelper
<1>. QED
  BY <1>3, <1>4 DEF TypeInv

LEMMA TypeStep == TypeInv /\ [Next]_vars => TypeInv'
<1>. SUFFICES ASSUME TypeInv, [Next]_vars PROVE TypeInv'
  OBVIOUS
<1>. USE DEF TypeInv
<1>1. CASE UNCHANGED vars
  BY <1>1 DEF vars, clusterVars, callVars, TypeOK, ClusterTypeOK, CallsClassed,
              HelpersClassed, At
<1>2. ASSUME NEW p \in Procs, NEW c \in Claims, CallStep(p, c)
      PROVE  TypeOK'
  BY <1>2, TypeLookup, TypeCreate, TypeRelease, TypeBond DEF CallStep
<1>3. CASE Next
  <2>1. TypeOK'
    BY <1>2, <1>3, TypeController, TypeFaults, TypeCluster DEF Next
  <2>. QED
    BY <1>3, <2>1, CallsClassedStep, HelpersClassedStep
<1>. QED
  BY <1>1, <1>3

\* Every reachable state is well typed: no call runs with an unknown class, node
\* or volume, every volume has a policy, and no backoff of releasePV or
\* createPVbyPOD exceeds its attempts.
THEOREM TypeCorrect == Spec => []TypeOK
<1>1. TypeInv => TypeOK
  BY DEF TypeInv
<1>. QED
  BY <1>1, TypeInit, TypeStep, PTL DEF Spec

-----------------------------------------------------------------------------
(* The helper pod *)

\* The parts of a call in which the helper claim is given up: its pod has been deleted.
GivingUp == {"retain", "unfinalize", "delete"}

PodDeleted(c) == pods[c] \in {Terminating, None}

\* Pods are there in method pod only, and do not run for a claim whose helper claim is
\* about to be deleted.
PodsDeleted ==
  /\ \A p \in Procs, c \in Claims : call[p][c].pc \in GivingUp => PodDeleted(c)
  /\ Method # "pod" => \A c \in Claims :
       pods[c] = None /\ \A p \in Procs : call[p][c].pc \notin {"pod", "unpod"}

\* Where a step may take a call that is at from; gone: its pod has been deleted then.
Leads(from, to, gone) ==
  \/ to \in {from, "idle"}
  \/ to \notin {"pod", "unpod"} \cup GivingUp
  \/ to \in {"pod", "unpod"} /\ Method = "pod"
  \/ to = "retain" /\ from = "unpod" /\ gone
  \/ to = "retain" /\ from = "wait" /\ Method # "pod"
  \/ to \in GivingUp /\ from \in GivingUp

LEMMA CallStepLeads ==
  ASSUME TypeOK, NEW p \in Procs, NEW c \in Claims,
         CallStep(p, c) \/ ApiError(p, c),
         NEW q \in Procs, NEW d \in Claims
  PROVE  Leads(call[q][d].pc, call'[q][d].pc, PodDeleted(d)')
<1>. DEFINE Fine(new) == Leads(call[q][d].pc, new[q][d].pc, PodDeleted(d)')
<1>. USE TypeParts
<1>1. Fine(Return(p, c)) /\ Fine(FailAttempt(p, c))
  <2>1. /\ Return(p, c)[q][d].pc \in {call[q][d].pc, "idle"}
        /\ FailAttempt(p, c)[q][d].pc \in {call[q][d].pc, "idle"}
    BY ReturnFacts, FailFacts DEF Keeps
  <2>. QED
    BY <2>1 DEF Leads
<1>2. ASSUME NEW l, Leads(call[p][c].pc, l, PodDeleted(c)')
      PROVE  Fine(Goto(p, c, l))
  <2>1. CASE q = p /\ d = c
    BY <1>2, <2>1, GotoFacts
  <2>2. CASE ~(q = p /\ d = c)
    BY <2>2, GotoFacts DEF Keeps, Leads
  <2>. QED
    BY <2>1, <2>2
<1>3. ASSUME NEW new \in CallMap, Fine(new), NEW h \in HelperType
      PROVE  Fine(Delivered(new, c, h))
  BY <1>3, DeliveredFacts
<1>4. helper \in [Claims -> HelperType] /\ pods \in [Claims -> Nodes \cup {Terminating, None}]
  BY DEF ClusterTypeOK
<1>. HIDE DEF Fine
<1>5. CASE LookupHelper(p, c) \/ OpenWatch(p, c) \/ TakeEvent(p, c)
           \/ WaitFails(p, c) \/ StoreVolume(p, c)
  <2>1. \/ call' = Return(p, c)
        \/ \E l : Leads(call[p][c].pc, l, PodDeleted(c)') /\ call' = Goto(p, c, l)
    BY <1>5
    DEF LookupHelper, OpenWatch, TakeEvent, WaitFails, StoreVolume, Claimed, At, Leads, GivingUp
  <2>. QED
    BY <1>1, <1>2, <2>1 DEF Fine
<1>6. ASSUME NEW r \in Replies,
             \/ CreateHelper(p, c, r) \/ RetainPV(p, c, r) \/ UnrefPV(p, c, r)
             \/ BondClaim(p, c, r) \/ BondVolume(p, c, r)
      PROVE  Fine(call')
  <2>1. \/ call' = Return(p, c)
        \/ \E l : Leads(call[p][c].pc, l, PodDeleted(c)') /\ call' = Goto(p, c, l)
    BY <1>6
    DEF CreateHelper, RetainPV, UnrefPV, BondClaim, BondVolume, Claimed, At, Answered,
        Leads, GivingUp
  <2>. QED
    BY <1>1, <1>2, <2>1
<1>7. ASSUME NEW r \in Replies, DeletePod(p, c, r)
      PROVE  Fine(call')
  <2>1. CASE call' = FailAttempt(p, c)
    BY <1>1, <2>1
  <2>2. CASE call' # FailAttempt(p, c)
    <3>1. At(p, c, "unpod") /\ PodDeleted(c)' /\ call' = Goto(p, c, "retain")
      BY <1>4, <1>7, <2>2 DEF DeletePod, Answered, PodDeleted
    <3>2. Leads(call[p][c].pc, "retain", PodDeleted(c)')
      BY <1>4, <3>1 DEF At, Leads
    <3>. QED
      BY <1>2, <3>1, <3>2
  <2>. QED
    BY <2>1, <2>2
<1>8. ASSUME NEW r \in Replies, CreatePod(p, c, r)
      PROVE  Fine(call')
  <2>. DEFINE new == [call EXCEPT ![p][c] = [@ EXCEPT !.pc = "watch", !.hasPod = TRUE]]
  <2>1. Fine(new)
    <3>1. ASSUME NEW x \in CallType
          PROVE  [x EXCEPT !.pc = "watch", !.hasPod = TRUE].pc = "watch"
      BY DEF CallType
    <3>2. new[p][c] = [call[p][c] EXCEPT !.pc = "watch", !.hasPod = TRUE]
          /\ (~(q = p /\ d = c) => new[q][d] = call[q][d])
      BY DEF CallMap
    <3>3. new[q][d].pc \in {call[q][d].pc, "watch"}
      BY <3>1, <3>2 DEF CallMap
    <3>. QED
      BY <3>3 DEF Fine, Leads, GivingUp
  <2>2. \/ call' = Return(p, c)
        \/ call' = new
        \/ call' = Goto(p, c, "watch")
    BY <1>8 DEF CreatePod, Answered
  <2>3. Leads(call[p][c].pc, "watch", PodDeleted(c)')
    BY DEF Leads, GivingUp
  <2>. QED
    BY <1>1, <1>2, <2>1, <2>2, <2>3
<1>9. ASSUME NEW r \in Replies, UnfinalizeHelper(p, c, r) \/ DeleteHelper(p, c, r)
      PROVE  Fine(call')
  <2>1. helper'[c] \in HelperType
    BY <1>9, TypeRelease DEF TypeOK, ClusterTypeOK
  <2>2. \/ call' = Return(p, c)
        \/ call' = FailAttempt(p, c)
        \/ \E new \in {Return(p, c), FailAttempt(p, c), Goto(p, c, "unref")} :
             call' = Delivered(new, c, helper'[c])
        \/ At(p, c, "unfinalize") /\ call' = Delivered(Goto(p, c, "delete"), c, helper'[c])
    BY <1>4, <1>9 DEF UnfinalizeHelper, DeleteHelper, Answered
  <2>3. /\ Return(p, c) \in CallMap /\ FailAttempt(p, c) \in CallMap
        /\ Goto(p, c, "delete") \in CallMap /\ Goto(p, c, "unref") \in CallMap
    BY ReturnType, FailAttemptType, GotoType DEF PCs
  <2>4. Fine(Goto(p, c, "unref")) /\ (At(p, c, "unfinalize") => Fine(Goto(p, c, "delete")))
    BY <1>2 DEF Leads, GivingUp, At
  <2>. QED
    BY <1>1, <1>3, <2>1, <2>2, <2>3, <2>4
<1>10. CASE ApiError(p, c)
  BY <1>1, <1>10 DEF ApiError, Fine
<1>11. Fine(call')
  BY <1>5, <1>6, <1>7, <1>8, <1>9, <1>10 DEF CallStep, Fine
<1>. QED
  BY <1>11 DEF Fine

LEMMA StepLeads ==
  ASSUME TypeOK, [Next]_vars, NEW q \in Procs, NEW d \in Claims
  PROVE  Leads(call[q][d].pc, call'[q][d].pc, PodDeleted(d)')
<1>. USE TypeParts
<1>1. CASE call'[q][d].pc \in {call[q][d].pc, "idle", "lookup"}
  BY <1>1 DEF Leads, GivingUp
<1>2. ASSUME NEW p \in Procs, NEW c \in Claims, ControllerStep(p, c)
      PROVE  call'[q][d].pc \in {call[q][d].pc, "lookup"}
  <2>1. CASE Start(p, c)
    <3>1. PICK k, n : call' = [call EXCEPT ![p][c] =
                                 [@ EXCEPT !.pc = "lookup", !.class = k, !.node = n]]
      BY <2>1 DEF Start
    <3>2. ASSUME NEW x \in CallType
          PROVE  [x EXCEPT !.pc = "lookup", !.class = k, !.node = n].pc = "lookup"
      BY DEF CallType
    <3>3. call'[q][d] = call[q][d]
          \/ call'[q][d] = [call[q][d] EXCEPT !.pc = "lookup", !.class = k, !.node = n]
      BY <3>1 DEF CallMap
    <3>4. call[q][d] \in CallType
      BY DEF CallMap
    <3>. QED
      BY <3>2, <3>3, <3>4
  <2>2. CASE ~Start(p, c)
    BY <1>2, <2>2 DEF ControllerStep, SyncClaim, SyncHelper, Reschedule, callVars
  <2>. QED
    BY <2>1, <2>2
<1>3. ASSUME NEW p \in Procs, Crash(p)
      PROVE  call'[q][d].pc \in {call[q][d].pc, "idle"}
  BY <1>3 DEF Crash, CallMap, IdleCall
<1>4. ASSUME NEW c \in Claims, ClusterStep(c)
      PROVE  call'[q][d].pc = call[q][d].pc
  <2>1. CASE WatchedChange(c)
    <3>1. helper'[c] \in HelperType
      BY <2>1, ChangeType
    <3>. QED
      BY <2>1, <3>1, DeliveredFacts DEF WatchedChange
  <2>2. CASE ~WatchedChange(c)
    BY <1>4, <2>2 DEF ClusterStep, callVars
  <2>. QED
    BY <2>1, <2>2
<1>. QED
  BY <1>1, <1>2, <1>3, <1>4, CallStepLeads DEF Next, vars, callVars

\* Pods are made by createPVbyPOD only.
LEMMA PodMade ==
  ASSUME TypeOK, [Next]_vars, NEW d \in Claims, pods'[d] \notin {pods[d], None}
  PROVE  \/ \E p \in Procs : At(p, d, "pod")
         \/ pods'[d] = Terminating /\ pods[d] # None
<1>1. pods \in [Claims -> Nodes \cup {Terminating, None}]
  BY DEF TypeOK, ClusterTypeOK
<1>2. pods' # pods
  OBVIOUS
<1>3. ASSUME NEW p \in Procs, NEW c \in Claims, CallStep(p, c)
      PROVE  \E r \in Replies : CreatePod(p, c, r) \/ DeletePod(p, c, r)
  BY <1>2, <1>3
  DEF CallStep, LookupHelper, OpenWatch, TakeEvent, WaitFails, StoreVolume, CreateHelper,
      RetainPV, UnfinalizeHelper, DeleteHelper, UnrefPV, BondClaim, BondVolume, clusterVars
<1>4. ASSUME NEW p \in Procs, NEW c \in Claims, NEW r \in Replies, DeletePod(p, c, r)
      PROVE  pods'[d] = Terminating /\ pods[d] # None
  BY <1>1, <1>4 DEF DeletePod
<1>5. ASSUME NEW p \in Procs, NEW c \in Claims, NEW r \in Replies, CreatePod(p, c, r)
      PROVE  At(p, d, "pod")
  BY <1>1, <1>5 DEF CreatePod
<1>6. ASSUME NEW p \in Procs, NEW c \in Claims, ControllerStep(p, c) \/ ApiError(p, c)
      PROVE  FALSE
  BY <1>2, <1>6
  DEF ControllerStep, SyncClaim, SyncHelper, Start, Reschedule, ApiError, clusterVars
<1>7. ASSUME NEW c \in Claims, ClusterStep(c)
      PROVE  FALSE
  BY <1>1, <1>2, <1>7
  DEF ClusterStep, WatchedChange, BindHelper, BindAvailable, Protect, DropFinalizer,
      CreateClaim, SelectNode, DeleteClaim, BackendProvision, RebindHelper, BindUser, PodGone
<1>. QED
  BY <1>2, <1>3, <1>4, <1>5, <1>6, <1>7 DEF Next, Crash, Reclaim, vars, clusterVars

LEMMA PodsDeletedInit == Init => PodsDeleted
BY DEF Init, ClusterInit, PodsDeleted, IdleCall, GivingUp

LEMMA PodsDeletedStep ==
  ASSUME OneCaller, TypeOK, PodsDeleted, [Next]_vars
  PROVE  PodsDeleted'
<1>1. ASSUME NEW q \in Procs, NEW d \in Claims, call'[q][d].pc \in GivingUp
      PROVE  PodDeleted(d)'
  <2>1. SUFFICES ASSUME ~PodDeleted(d)' PROVE FALSE
    OBVIOUS
  <2>2. call[q][d].pc \in GivingUp \cup {"unpod", "wait"} /\ PodDeleted(d)
    BY <1>1, <2>1, StepLeads DEF Leads, GivingUp, PodsDeleted, PodDeleted
  <2>. QED
    BY <2>1, <2>2, PodMade DEF OneCaller, At, GivingUp, PodDeleted
<1>2. ASSUME Method # "pod", NEW d \in Claims
      PROVE  pods'[d] = None /\ \A p \in Procs : call'[p][d].pc \notin {"pod", "unpod"}
  <2>1. pods'[d] = None
    BY <1>2, PodMade DEF PodsDeleted, At
  <2>. QED
    BY <1>2, <2>1, StepLeads DEF Leads, GivingUp, PodsDeleted
<1>. QED
  BY <1>1, <1>2 DEF PodsDeleted

\* Only releasePV deletes a helper claim.
LEMMA HelperDeletion ==
  ASSUME TypeOK, [Next]_vars, NEW d \in Claims, ~helper[d].deleting, helper'[d].deleting
  PROVE  \E p \in Procs : At(p, d, "delete")
<1>. SUFFICES ASSUME \A p \in Procs : ~At(p, d, "delete") PROVE ~helper'[d].deleting
  OBVIOUS
<1>1. helper \in [Claims -> HelperType]
  BY DEF TypeOK, ClusterTypeOK
<1>2. CASE UNCHANGED helper
  BY <1>2
<1>3. ASSUME NEW p \in Procs, NEW c \in Claims, CallStep(p, c)
      PROVE  ~helper'[d].deleting
  <2>1. ASSUME NEW r \in Replies, CreateHelper(p, c, r)
        PROVE  ~helper'[d].deleting
    BY <1>1, <2>1 DEF CreateHelper
  <2>2. ASSUME NEW r \in Replies, UnfinalizeHelper(p, c, r)
        PROVE  ~helper'[d].deleting
    <3>1. ASSUME NEW x \in HelperType, NEW f
          PROVE  [x EXCEPT !.fin = f].deleting = x.deleting
      BY DEF HelperType
    <3>2. \/ helper' = helper
          \/ helper' = [helper EXCEPT ![c] = NoHelper]
          \/ helper' = [helper EXCEPT ![c] = [helper[c] EXCEPT !.fin = call[p][c].keep]]
      BY <2>2 DEF UnfinalizeHelper
    <3>3. helper'[d] \in {helper[d], NoHelper, [helper[d] EXCEPT !.fin = call[p][c].keep]}
      BY <1>1, <3>2
    <3>4. CASE helper'[d] = [helper[d] EXCEPT !.fin = call[p][c].keep]
      <4>1. helper'[d].deleting = helper[d].deleting
        BY <1>1, <3>1, <3>4
      <4>. QED
        BY <4>1
    <3>5. CASE helper'[d] = NoHelper
      BY <3>5 DEF NoHelper
    <3>. QED
      BY <3>3, <3>4, <3>5
  <2>3. ASSUME NEW r \in Replies, DeleteHelper(p, c, r)
        PROVE  ~helper'[d].deleting
    BY <1>1, <2>3 DEF DeleteHelper
  <2>4. UNCHANGED helper \/ \E r \in Replies :
          CreateHelper(p, c, r) \/ UnfinalizeHelper(p, c, r) \/ DeleteHelper(p, c, r)
    BY <1>3
    DEF CallStep, LookupHelper, OpenWatch, TakeEvent, WaitFails, StoreVolume, CreatePod,
        DeletePod, RetainPV, UnrefPV, BondClaim, BondVolume, clusterVars
  <2>. QED
    BY <2>1, <2>2, <2>3, <2>4
<1>4. ASSUME NEW c \in Claims, ClusterStep(c)
      PROVE  ~helper'[d].deleting
  <2>1. CASE WatchedChange(c)
    <3>1. PICK v, f :
            \/ helper' = [helper EXCEPT ![c] = [helper[c] EXCEPT !.state = "bound", !.vol = v]]
            \/ helper' = [helper EXCEPT ![c] = [helper[c] EXCEPT !.fin = f]]
            \/ helper' = [helper EXCEPT ![c] = NoHelper]
      BY <1>1, <2>1 DEF WatchedChange, BindHelper, BindAvailable, Protect, DropFinalizer
    <3>2. ASSUME NEW x \in HelperType
          PROVE  /\ [x EXCEPT !.state = "bound", !.vol = v].deleting = x.deleting
                 /\ [x EXCEPT !.fin = f].deleting = x.deleting
      BY DEF HelperType
    <3>3. ~NoHelper.deleting
      BY DEF NoHelper
    <3>. QED
      BY <1>1, <3>1, <3>2, <3>3
  <2>. QED
    BY <1>2, <1>4, <2>1
    DEF ClusterStep, CreateClaim, SelectNode, DeleteClaim, BackendProvision, RebindHelper,
        BindUser, PodGone
<1>5. ASSUME NEW p \in Procs, NEW c \in Claims, ControllerStep(p, c) \/ ApiError(p, c)
      PROVE  UNCHANGED helper
  BY <1>5
  DEF ControllerStep, SyncClaim, SyncHelper, Start, Reschedule, ApiError, clusterVars
<1>. QED
  BY <1>2, <1>3, <1>4, <1>5 DEF Next, Crash, Reclaim, vars, clusterVars

LEMMA HelperUnused ==
  ASSUME TypeOK, PodsDeleted, [Next]_vars, NEW c \in Claims,
         ~helper[c].deleting, helper'[c].deleting
  PROVE  PodDeleted(c)
BY HelperDeletion DEF PodsDeleted, GivingUp, At

\* In either method and for one process: releasePV deletes a helper claim only when its
\* pod has been deleted, however often deletePod has been repeated, and whatever an
\* earlier call of Provision for the same claim has left behind.
THEOREM PodsDeletedFirst ==
  (\A p, q \in Procs : p = q) => (Spec => PodDeletedFirst)
<1>. DEFINE IInv == TypeInv /\ PodsDeleted
            Unused == \A c \in Claims :
                        ~helper[c].deleting /\ helper'[c].deleting => PodDeleted(c)
<1>. SUFFICES ASSUME \A p, q \in Procs : p = q PROVE Spec => [][Unused]_vars
  BY DEF PodDeletedFirst, PodDeleted
<1>1. Init => IInv
  BY TypeInit, PodsDeletedInit
<1>2. IInv /\ [Next]_vars => IInv'
  BY TypeStep, PodsDeletedStep DEF TypeInv, OneCaller
<1>3. IInv /\ [Next]_vars => Unused
  BY HelperUnused DEF TypeInv
<1>. HIDE DEF IInv, Unused
<1>. QED
  BY <1>1, <1>2, <1>3, PTL DEF Spec

=============================================================================
