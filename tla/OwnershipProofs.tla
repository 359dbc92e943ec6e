-------------------------- MODULE OwnershipProofs --------------------------
(***************************************************************************)
(* Provision implements VolumeOwnership: each step of Provision, of the    *)
(* controllers and of the users is a step of VolumeOwnership or changes    *)
(* nothing that it knows of.                                               *)
(***************************************************************************)
EXTENDS CustodyProofs

-----------------------------------------------------------------------------
(* Helper UIDs *)

\* A helper UID is issued only for a claim that was created.
OwnersCreated ==
  \A w \in Vols : owner[w] # None => claim[owner[w]].status # "absent"

\* No step takes a claim's creation back.
UserStep ==
  \/ \E c \in Claims : CreateClaim(c) \/ SelectNode(c) \/ DeleteClaim(c)
  \/ \E p \in Procs, c \in Claims : Reschedule(p, c)
  \/ \E p \in Procs, c \in Claims, r \in Replies : BondClaim(p, c, r)

LEMMA CreatedStays ==
  ASSUME TypeOK, UserStep \/ UNCHANGED claim, NEW c \in Claims, claim[c].status # "absent"
  PROVE  claim'[c].status # "absent"
<1>1. claim \in [Claims -> ClaimType]
  BY DEF TypeOK, ClusterTypeOK
<1>2. ASSUME NEW x \in ClaimType
      PROVE  /\ [x EXCEPT !.status = "live"].status = "live"
             /\ [x EXCEPT !.status = "deleted"].status = "deleted"
             /\ \A n : [x EXCEPT !.node = n].status = x.status
             /\ \A v, k : [x EXCEPT !.vol = v, !.class = k].status = x.status
  BY DEF ClaimType
<1>3. ASSUME NEW p \in Procs, NEW d \in Claims, NEW r, BondClaim(p, d, r)
      PROVE  claim'[c].status # "absent"
  <2>1. CASE UNCHANGED claim
    BY <2>1
  <2>2. CASE ~UNCHANGED claim
    <3>1. PICK t \in Claims :
            claim' = [claim EXCEPT ![t] = [@ EXCEPT !.vol = call[p][d].vol,
                                                    !.class = call[p][d].class]]
      BY <1>3, <2>2 DEF BondClaim, Stored
    <3>. QED
      BY <1>1, <1>2, <3>1
  <2>. QED
    BY <2>1, <2>2
<1>4. ASSUME NEW d \in Claims, CreateClaim(d) \/ SelectNode(d) \/ DeleteClaim(d)
      PROVE  claim'[c].status # "absent"
  <2>1. CASE CreateClaim(d)
    BY <1>1, <1>2, <2>1 DEF CreateClaim
  <2>2. CASE SelectNode(d)
    BY <1>1, <1>2, <2>2 DEF SelectNode
  <2>3. CASE DeleteClaim(d)
    BY <1>1, <1>2, <2>3 DEF DeleteClaim
  <2>. QED
    BY <1>4, <2>1, <2>2, <2>3
<1>5. ASSUME NEW p \in Procs, NEW d \in Claims, Reschedule(p, d)
      PROVE  claim'[c].status # "absent"
  BY <1>1, <1>2, <1>5 DEF Reschedule
<1>. QED
  BY <1>3, <1>4, <1>5 DEF UserStep

LEMMA ClaimSteps ==
  ASSUME [Next]_vars
  PROVE  UserStep \/ UNCHANGED claim
<1>1. ASSUME NEW p \in Procs, NEW c \in Claims, CallStep(p, c)
      PROVE  (\E r \in Replies : BondClaim(p, c, r)) \/ UNCHANGED claim
  BY <1>1
  DEF CallStep, LookupHelper, OpenWatch, TakeEvent, WaitFails, StoreVolume, CreateHelper,
      CreatePod, DeletePod, RetainPV, UnfinalizeHelper, DeleteHelper, UnrefPV, BondVolume,
      clusterVars
<1>2. ASSUME NEW p \in Procs, NEW c \in Claims, ControllerStep(p, c) \/ ApiError(p, c)
      PROVE  Reschedule(p, c) \/ UNCHANGED claim
  BY <1>2 DEF ControllerStep, SyncClaim, SyncHelper, Start, ApiError, clusterVars
<1>3. ASSUME NEW c \in Claims, ClusterStep(c)
      PROVE  CreateClaim(c) \/ SelectNode(c) \/ DeleteClaim(c) \/ UNCHANGED claim
  BY <1>3
  DEF ClusterStep, WatchedChange, BindHelper, BindAvailable, Protect, DropFinalizer,
      BackendProvision, RebindHelper, BindUser, PodGone
<1>. QED
  BY <1>1, <1>2, <1>3 DEF UserStep, Next, Crash, Reclaim, vars, clusterVars

LEMMA OwnerSteps ==
  ASSUME [Next]_vars
  PROVE  UNCHANGED owner \/ \E p \in Procs, c \in Claims, r \in Replies : CreateHelper(p, c, r)
<1>1. ASSUME NEW p \in Procs, NEW c \in Claims, CallStep(p, c)
      PROVE  (\E r \in Replies : CreateHelper(p, c, r)) \/ UNCHANGED owner
  BY <1>1
  DEF CallStep, LookupHelper, OpenWatch, TakeEvent, WaitFails, StoreVolume, CreatePod,
      DeletePod, RetainPV, UnfinalizeHelper, DeleteHelper, UnrefPV, BondClaim, BondVolume,
      clusterVars
<1>2. ASSUME NEW p \in Procs, NEW c \in Claims, ControllerStep(p, c) \/ ApiError(p, c)
      PROVE  UNCHANGED owner
  BY <1>2 DEF ControllerStep, SyncClaim, SyncHelper, Start, Reschedule, ApiError, clusterVars
<1>3. ASSUME NEW c \in Claims, ClusterStep(c)
      PROVE  UNCHANGED owner
  BY <1>3
  DEF ClusterStep, WatchedChange, BindHelper, BindAvailable, Protect, DropFinalizer,
      BackendProvision, RebindHelper, BindUser, PodGone, CreateClaim, SelectNode, DeleteClaim
<1>. QED
  BY <1>1, <1>2, <1>3 DEF Next, Crash, Reclaim, vars, clusterVars

LEMMA OwnersCreatedStep ==
  ASSUME TypeOK, CustodyInv, OwnersCreated, [Next]_vars
  PROVE  OwnersCreated'
<1>1. \A c \in Claims : claim[c].status # "absent" => claim'[c].status # "absent"
  BY ClaimSteps, CreatedStays
<1>2. ASSUME NEW w \in Vols, owner'[w] # owner[w]
      PROVE  owner'[w] \in Claims /\ claim[owner'[w]].status # "absent"
  <2>1. PICK p \in Procs, c \in Claims, r \in Replies : CreateHelper(p, c, r)
    BY <1>2, OwnerSteps
  <2>2. owner'[w] = c
    BY <1>2, <2>1 DEF CreateHelper, TypeOK, ClusterTypeOK
  <2>3. claim[c].status # "absent"
    BY <2>1 DEF CreateHelper, At, CustodyInv, CallCustody, CallStarted
  <2>. QED
    BY <2>2, <2>3
<1>3. ASSUME NEW w \in Vols, owner'[w] # None, owner'[w] = owner[w]
      PROVE  owner'[w] \in Claims /\ claim[owner'[w]].status # "absent"
  BY <1>3 DEF OwnersCreated, TypeOK, ClusterTypeOK
<1>. QED
  BY <1>1, <1>2, <1>3 DEF OwnersCreated

-----------------------------------------------------------------------------
(* Steps that VolumeOwnership does not know of *)

SameClaims ==
  \A c \in Claims : claim'[c].status = claim[c].status /\ claim'[c].vol = claim[c].vol

SameVolumes ==
  \A v \in Vols : /\ pv'[v].state = "none" <=> pv[v].state = "none"
                  /\ pv'[v].state = "live" <=> pv[v].state = "live"

SameOwners == \A v \in Vols : pv[v].state # "none" => owner'[v] = owner[v]

LEMMA NothingMoved ==
  ASSUME SameClaims, SameVolumes, SameOwners
  PROVE  UNCHANGED Ownership!vars
<1>1. UNCHANGED [c \in Claims |-> claim[c].status] /\ UNCHANGED [c \in Claims |-> claim[c].vol]
  BY DEF SameClaims
<1>2. UNCHANGED [v \in Vols |-> IF pv[v].state = "none" THEN None ELSE owner[v]]
  BY DEF SameVolumes, SameOwners
<1>3. UNCHANGED {v \in Vols : pv[v].state = "live"}
  BY DEF SameVolumes
<1>. QED
  BY <1>1, <1>2, <1>3 DEF Ownership!vars

LEMMA ClaimsAlike == UNCHANGED claim => SameClaims
BY DEF SameClaims

LEMMA VolumesAlike == UNCHANGED pv => SameVolumes
BY DEF SameVolumes

\* Patches of policy and claimRef.
LEMMA PatchAlike ==
  ASSUME TypeOK, NEW v \in Vols, NEW a, NEW f,
         \/ UNCHANGED pv
         \/ pv' = [pv EXCEPT ![v].policy = a]
         \/ pv' = [pv EXCEPT ![v].ref = f]
         \/ pv' = [pv EXCEPT ![v] = [@ EXCEPT !.policy = a, !.ref = f]]
  PROVE  SameVolumes
<1>1. pv \in [Vols -> PVType]
  BY DEF TypeOK, ClusterTypeOK
<1>2. ASSUME NEW x \in PVType
      PROVE  /\ [x EXCEPT !.policy = a].state = x.state
             /\ [x EXCEPT !.ref = f].state = x.state
             /\ [x EXCEPT !.policy = a, !.ref = f].state = x.state
  BY DEF PVType
<1>. QED
  BY ZenonT(60), <1>1, <1>2 DEF SameVolumes

\* A helper UID is issued before there is a volume of that name.
LEMMA OwnersAlike ==
  ASSUME TypeOK, CustodyInv, [Next]_vars
  PROVE  SameOwners
<1>1. CASE UNCHANGED owner
  BY <1>1 DEF SameOwners
<1>2. ASSUME NEW p \in Procs, NEW c \in Claims, NEW r, CreateHelper(p, c, r)
      PROVE  SameOwners
  <2>1. CASE UNCHANGED owner
    BY <2>1 DEF SameOwners
  <2>2. ASSUME NEW w \in FreshUIDs, owner' = [owner EXCEPT ![w] = c]
        PROVE  SameOwners
    <3>1. owner[w] \notin Claims
      BY ClusterAssumption DEF FreshUIDs
    <3>2. pv[w].state = "none"
      BY <3>1 DEF FreshUIDs, CustodyInv, PVCustody, VolumeOwned
    <3>. QED
      BY <2>2, <3>2 DEF SameOwners, TypeOK, ClusterTypeOK
  <2>. QED
    BY <1>2, <2>1, <2>2 DEF CreateHelper
<1>. QED
  BY <1>1, <1>2, OwnerSteps

-----------------------------------------------------------------------------
(* Steps that VolumeOwnership knows *)

\* The user's own steps.
LEMMA CreateMapped ==
  ASSUME TypeOK, NEW c \in Claims, CreateClaim(c)
  PROVE  Ownership!Create(c)
<1>1. UNCHANGED <<pv, owner>> /\ claim[c].status = "absent"
  BY DEF CreateClaim
<1>2. /\ claim'[c].status = "live" /\ claim'[c].vol = claim[c].vol
      /\ \A d \in Claims : d # c => claim'[d] = claim[d]
  BY DEF CreateClaim, TypeOK, ClusterTypeOK, ClaimType
<1>. QED
  BY <1>1, <1>2 DEF Ownership!Create

LEMMA DeleteMapped ==
  ASSUME TypeOK, NEW c \in Claims, DeleteClaim(c)
  PROVE  Ownership!Delete(c)
<1>1. UNCHANGED <<pv, owner>> /\ claim[c].status = "live"
  BY DEF DeleteClaim, Live
<1>2. /\ claim'[c].status = "deleted" /\ claim'[c].vol = claim[c].vol
      /\ \A d \in Claims : d # c => claim'[d] = claim[d]
  BY DEF DeleteClaim, TypeOK, ClusterTypeOK, ClaimType
<1>. QED
  BY <1>1, <1>2 DEF Ownership!Delete

\* The backend makes a volume for the claim that its helper claim was made for.
LEMMA ProvisionMapped ==
  ASSUME TypeOK, CustodyInv, OwnersCreated, NEW c \in Claims, BackendProvision(c)
  PROVE  \E v \in Vols : Ownership!Make(c, v)
<1>1. UNCHANGED <<claim, owner>> /\ HelperExists(c)
  BY DEF BackendProvision, HelperExists
<1>2. PICK w \in Vols : w = helper[c].uid
  BY <1>1 DEF CustodyInv, ClaimCustody, HelperOwned
<1>3. owner[w] = c /\ claim[c].status # "absent"
  BY <1>1, <1>2, ClusterAssumption DEF CustodyInv, ClaimCustody, HelperOwned, OwnersCreated
<1>4. /\ pv[w].state = "none" /\ pv'[w].state = "live"
      /\ \A v \in Vols : v # w => pv'[v] = pv[v]
  BY <1>2 DEF BackendProvision, TypeOK, ClusterTypeOK
<1>5. Ownership!Make(c, w)
  BY <1>1, <1>3, <1>4 DEF Ownership!Make
<1>. QED
  BY <1>5

\* A volume whose storage is deleted had lost its claim.
LEMMA ReclaimMapped ==
  ASSUME TypeOK, CustodyInv, NEW v \in Vols, Reclaim(v)
  PROVE  \E c \in Claims : Ownership!Lose(c, v)
<1>1. UNCHANGED <<claim, owner>> /\ pv[v].state = "live"
  BY DEF Reclaim
<1>2. /\ pv'[v].state = "gone"
      /\ \A w \in Vols : w # v => pv'[w] = pv[w]
  BY DEF Reclaim, TypeOK, ClusterTypeOK, PVType
<1>3. PICK c \in Claims : c = owner[v] /\ Gone(c)
  BY ReclaimedGone
<1>4. Ownership!Lose(c, v)
  BY <1>1, <1>2, <1>3 DEF Ownership!Lose, Gone
<1>. QED
  BY <1>4

\* The first patch of bondPVC gives the claim a volume that was made for it.  That of
\* a second call finds the volume in place.
LEMMA BondClaimMapped ==
  ASSUME Separate, TypeOK, CustodyInv, NEW p \in Procs, NEW c \in Claims, NEW r,
         BondClaim(p, c, r)
  PROVE  SameClaims \/ \E v \in Vols : Ownership!Give(c, v)
<1>1. /\ At(p, c, "bondClaim") /\ call[p][c].pc \notin Before \cup {"wait"}
      /\ UNCHANGED <<owner, pv>>
  BY DEF BondClaim, At, Before
<1>2. PICK v \in Vols : v = call[p][c].vol
  BY <1>1, RunningVolume
<1>3. owner[v] = c /\ pv[v].state # "none" /\ (pv[v].state = "live" \/ Gone(c))
  BY <1>1, <1>2, RunningVolume DEF CustodyInv, CallCustody, VolumeRetained, At, Retained
<1>4. CASE UNCHANGED claim
  BY <1>4, ClaimsAlike
<1>5. ASSUME NEW k, c \in Stored(c), claim[c].vol \in {None, v},
             claim' = [claim EXCEPT ![c] = [@ EXCEPT !.vol = v, !.class = k]]
      PROVE  SameClaims \/ Ownership!Give(c, v)
  <2>1. /\ claim'[c].vol = v /\ claim'[c].status = claim[c].status
        /\ \A d \in Claims : d # c => claim'[d] = claim[d]
    BY <1>5 DEF TypeOK, ClusterTypeOK, ClaimType
  <2>2. claim[c].status = "live"
    BY <1>5 DEF Stored, Live
  <2>3. CASE claim[c].vol = v
    BY <2>1, <2>3 DEF SameClaims
  <2>4. CASE claim[c].vol = None
    <3>1. pv[v].state = "live"
      BY <1>3, <2>2 DEF Gone
    <3>. QED
      BY <1>1, <1>3, <2>1, <2>2, <2>4, <3>1 DEF Ownership!Give
  <2>. QED
    BY <1>5, <2>3, <2>4
<1>6. \A t \in Stored(c) : t = c
  BY DEF Stored, Separate
<1>. QED
  BY <1>2, <1>4, <1>5, <1>6 DEF BondClaim

\* StoreVolume finds its volume, or puts an object in the place of one that is gone.
LEMMA StoreVolumeAlike ==
  ASSUME TypeOK, CustodyInv, NEW p \in Procs, NEW c \in Claims, StoreVolume(p, c)
  PROVE  SameVolumes
<1>1. At(p, c, "store") /\ call[p][c].pc \notin Before \cup {"wait"}
  BY DEF StoreVolume, At, Before
<1>2. PICK v \in Vols : v = call[p][c].vol
  BY <1>1, RunningVolume
<1>3. pv[v].state # "none"
  BY <1>1, <1>2, RunningVolume
<1>4. CASE PVExists(v)
  BY <1>2, <1>4, VolumesAlike DEF StoreVolume
<1>5. CASE ~PVExists(v)
  <2>1. pv' = [pv EXCEPT ![v] = [@ EXCEPT !.state = "phantom", !.policy = "Retain",
                                          !.ref = c]]
    BY <1>2, <1>5 DEF StoreVolume
  <2>2. pv'[v].state = "phantom" /\ \A w \in Vols : w # v => pv'[w] = pv[w]
    BY <2>1 DEF TypeOK, ClusterTypeOK, PVType
  <2>. QED
    BY <1>3, <1>5, <2>2 DEF SameVolumes, PVExists
<1>. QED
  BY <1>4, <1>5

LEMMA CallStepMapped ==
  ASSUME Separate, TypeOK, CustodyInv, NEW p \in Procs, NEW c \in Claims, CallStep(p, c),
         SameOwners
  PROVE  UNCHANGED Ownership!vars \/ \E v \in Vols : Ownership!Give(c, v)
<1>1. CASE LookupHelper(p, c) \/ OpenWatch(p, c) \/ TakeEvent(p, c) \/ WaitFails(p, c)
  BY <1>1, ClaimsAlike, VolumesAlike, NothingMoved
  DEF LookupHelper, OpenWatch, TakeEvent, WaitFails, clusterVars
<1>2. CASE StoreVolume(p, c)
  BY <1>2, ClaimsAlike, StoreVolumeAlike, NothingMoved DEF StoreVolume
<1>3. ASSUME NEW r \in Replies,
             \/ CreateHelper(p, c, r) \/ CreatePod(p, c, r) \/ DeletePod(p, c, r)
             \/ UnfinalizeHelper(p, c, r) \/ DeleteHelper(p, c, r)
      PROVE  UNCHANGED Ownership!vars
  BY <1>3, ClaimsAlike, VolumesAlike, NothingMoved
  DEF CreateHelper, CreatePod, DeletePod, UnfinalizeHelper, DeleteHelper
<1>4. ASSUME NEW r \in Replies,
             RetainPV(p, c, r) \/ UnrefPV(p, c, r) \/ BondVolume(p, c, r)
      PROVE  UNCHANGED Ownership!vars
  <2>1. UNCHANGED claim /\ call[p][c].pc \notin Before \cup {"wait"}
    BY <1>4 DEF RetainPV, UnrefPV, BondVolume, At, Before
  <2>2. PICK v \in Vols : v = call[p][c].vol
    BY <2>1, RunningVolume
  <2>3. SameVolumes
    <3>1. CASE RetainPV(p, c, r)
      BY <2>2, <3>1, PatchAlike DEF RetainPV
    <3>2. CASE UnrefPV(p, c, r)
      BY <2>2, <3>2, PatchAlike DEF UnrefPV
    <3>3. CASE BondVolume(p, c, r)
      BY <2>2, <3>3, PatchAlike DEF BondVolume
    <3>. QED
      BY <1>4, <3>1, <3>2, <3>3
  <2>. QED
    BY <2>1, <2>3, ClaimsAlike, NothingMoved
<1>5. ASSUME NEW r \in Replies, BondClaim(p, c, r)
      PROVE  UNCHANGED Ownership!vars \/ \E v \in Vols : Ownership!Give(c, v)
  <2>1. SameVolumes
    BY <1>5, VolumesAlike DEF BondClaim
  <2>. QED
    BY <1>5, <2>1, BondClaimMapped, NothingMoved
<1>. QED
  BY <1>1, <1>2, <1>3, <1>4, <1>5 DEF CallStep

\* The caches, faults, and a node that is selected or dropped.
LEMMA NodeAlike ==
  ASSUME TypeOK, NEW c \in Claims, NEW n, claim' = [claim EXCEPT ![c].node = n]
  PROVE  SameClaims
BY DEF SameClaims, TypeOK, ClusterTypeOK, ClaimType

LEMMA SelectMapped ==
  ASSUME TypeOK, SameOwners, NEW c \in Claims, SelectNode(c)
  PROVE  UNCHANGED Ownership!vars
BY NodeAlike, VolumesAlike, NothingMoved DEF SelectNode

LEMMA ControllerStepMapped ==
  ASSUME TypeOK, SameOwners, NEW p \in Procs, NEW c \in Claims,
         ControllerStep(p, c) \/ ApiError(p, c)
  PROVE  UNCHANGED Ownership!vars
<1>1. UNCHANGED pv
  BY DEF ControllerStep, SyncClaim, SyncHelper, Start, Reschedule, ApiError, clusterVars
<1>2. UNCHANGED claim \/ \E n : claim' = [claim EXCEPT ![c].node = n]
  BY DEF ControllerStep, SyncClaim, SyncHelper, Start, Reschedule, ApiError, clusterVars
<1>. QED
  BY <1>1, <1>2, ClaimsAlike, NodeAlike, VolumesAlike, NothingMoved

\* The controllers bind, rebind and finish helper claims.
LEMMA BindingMapped ==
  ASSUME Separate, TypeOK, CustodyInv, SameOwners, NEW c \in Claims,
         WatchedChange(c) \/ RebindHelper(c) \/ BindUser(c) \/ PodGone(c)
  PROVE  UNCHANGED Ownership!vars
<1>1. UNCHANGED claim
  BY DEF WatchedChange, BindHelper, BindAvailable, Protect, DropFinalizer, RebindHelper,
         BindUser, PodGone
<1>2. CASE WatchedChange(c) \/ PodGone(c)
  BY <1>1, <1>2, ClaimsAlike, VolumesAlike, NothingMoved
  DEF WatchedChange, BindHelper, BindAvailable, Protect, DropFinalizer, PodGone, Separate
<1>3. CASE RebindHelper(c)
  <2>1. helper[c].vol \in Vols
    BY <1>3 DEF RebindHelper, HelperExists, CustodyInv, ClaimCustody, HelperOwned
  <2>. QED
    BY <1>1, <1>3, <2>1, PatchAlike, ClaimsAlike, NothingMoved DEF RebindHelper
<1>4. CASE BindUser(c)
  <2>1. claim[c].vol \in Vols
    BY <1>4 DEF BindUser, TypeOK, ClusterTypeOK, ClaimType
  <2>. QED
    BY <1>1, <1>4, <2>1, PatchAlike, ClaimsAlike, NothingMoved DEF BindUser
<1>. QED
  BY <1>2, <1>3, <1>4

LEMMA OwnershipStep ==
  ASSUME Separate, TypeOK, CustodyInv, OwnersCreated, [Next]_vars
  PROVE  [Ownership!Next]_Ownership!vars
<1>. USE OwnersAlike DEF Ownership!Next
<1>1. CASE UNCHANGED vars
  BY <1>1, ClaimsAlike, VolumesAlike, NothingMoved DEF vars, clusterVars
<1>2. ASSUME NEW p \in Procs, NEW c \in Claims, CallStep(p, c)
      PROVE  [Ownership!Next]_Ownership!vars
  BY <1>2, CallStepMapped
<1>3. ASSUME NEW p \in Procs, NEW c \in Claims, ControllerStep(p, c) \/ ApiError(p, c)
      PROVE  [Ownership!Next]_Ownership!vars
  BY <1>3, ControllerStepMapped
<1>4. ASSUME NEW p \in Procs, Crash(p)
      PROVE  [Ownership!Next]_Ownership!vars
  BY <1>4, ClaimsAlike, VolumesAlike, NothingMoved DEF Crash, clusterVars
<1>5. ASSUME NEW c \in Claims, ClusterStep(c)
      PROVE  [Ownership!Next]_Ownership!vars
  <2>1. CASE CreateClaim(c) \/ DeleteClaim(c)
    BY <2>1, CreateMapped, DeleteMapped
  <2>2. CASE BackendProvision(c)
    BY <2>2, ProvisionMapped
  <2>3. CASE SelectNode(c) \/ WatchedChange(c) \/ RebindHelper(c) \/ BindUser(c) \/ PodGone(c)
    BY <2>3, BindingMapped, SelectMapped
  <2>. QED
    BY <1>5, <2>1, <2>2, <2>3 DEF ClusterStep
<1>6. ASSUME NEW v \in Vols, Reclaim(v)
      PROVE  [Ownership!Next]_Ownership!vars
  BY <1>6, ReclaimMapped
<1>. QED
  BY <1>1, <1>2, <1>3, <1>4, <1>5, <1>6 DEF Next

-----------------------------------------------------------------------------
(* The theorem *)

LEMMA OwnershipInit ==
  ASSUME Init PROVE Ownership!Init /\ OwnersCreated
BY DEF Init, ClusterInit, Ownership!Init, OwnersCreated

\* For one process, claims of different names and method annotation: whatever fails and
\* is repeated in Provision, seen from a claim's owner a volume is made for one claim,
\* passes to it in one step and for good, and loses its storage only after the claim.
THEOREM OwnershipImplemented == Alone => (Spec => ImplementsOwnership)
<1>. DEFINE IInv == TypeInv /\ CustodyInv /\ OwnersCreated
<1>. SUFFICES ASSUME Alone PROVE Spec => ImplementsOwnership
  OBVIOUS
<1>1. Init => Ownership!Init /\ IInv
  BY TypeInit, CustodyInit, OwnershipInit
<1>2. IInv /\ [Next]_vars => IInv' /\ [Ownership!Next]_Ownership!vars
  BY TypeStep, CustodyStep, OwnersCreatedStep, OwnershipStep
  DEF TypeInv, Alone, OneCaller
<1>. HIDE DEF IInv
<1>. QED
  BY <1>1, <1>2, PTL DEF Spec, ImplementsOwnership, Ownership!Spec

=============================================================================
