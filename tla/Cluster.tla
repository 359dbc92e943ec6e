------------------------------ MODULE Cluster ------------------------------
(***************************************************************************)
(* The Kubernetes objects that the hybrid provisioner works on, and the    *)
(* controllers that share them with it: users and the scheduler, the       *)
(* persistent-volume controller, the backend CSI provisioners and the      *)
(* garbage collector.  None of them is code of this repository: each is    *)
(* modelled from how pkg/provisioner/provisioner.go uses it.               *)
(*                                                                         *)
(* A claim of a user is named by its UID, an element of Claims.  The       *)
(* provisioner creates for claim c one helper claim at a time, under a     *)
(* name derived from c (opts.PVName); a helper claim's own UID w is fresh  *)
(* at each creation, and the backend names the volume it makes for it      *)
(* "pvc-<w>", so one set, Vols, serves for helper UIDs and volume names.   *)
(***************************************************************************)
EXTENDS Naturals, FiniteSets

CONSTANTS
  Claims,     \* UIDs of the claims whose class is the hybrid one
  ClaimName,  \* the name a claim is stored under; two UIDs may share one
  Vols,       \* UIDs of helper claims, and names of the volumes made for them
  Nodes,
  Classes,    \* the backend storage classes
  Policy,     \* reclaimPolicy of a class
  Immediate,  \* the classes whose volumeBindingMode is Immediate
  Method,     \* "annotation" (also "auto") or "pod"
  Terminating, \* stands for a helper pod that is on its way out
  None

ASSUME ClusterAssumption ==
  /\ Policy \in [Classes -> {"Delete", "Retain"}]
  /\ Immediate \subseteq Classes
  /\ Method \in {"annotation", "pod"}
  /\ None \notin Claims \cup Vols \cup Nodes \cup Classes
  /\ Terminating \notin Nodes \cup {None}
  /\ Claims \cap Vols = {}

VARIABLES
  claim,   \* claim[c]: the user's claim
  helper,  \* helper[c]: the helper claim stored under the name derived from c
  owner,   \* owner[w]: the claim that helper UID w was issued for, or None
  pv,      \* pv[v]: the persistent volume
  pods     \* pods[c]: the node of the helper pod of claim c, Terminating, or None

clusterVars == <<claim, helper, owner, pv, pods>>

Finalizers == {"pvc-protection", "foregroundDeletion"}

\* vol is spec.volumeName, class the class whose driver the storage-provisioner
\* annotations name (None: still the hybrid driver), node the selected-node
\* annotation.
ClaimType == [status : {"absent", "live", "deleted"},
              vol    : Vols \cup {None},
              class  : Classes \cup {None},
              node   : Nodes \cup {None}]

HelperType == [state    : {"absent", "pending", "bound"},
               uid      : Vols \cup {None},
               vol      : Vols \cup {None},
               class    : Classes \cup {None},
               node     : Nodes \cup {None},
               deleting : BOOLEAN,
               fin      : SUBSET Finalizers]

\* A "phantom" is a volume object without a storage asset behind it.
PVType == [state  : {"none", "live", "gone", "phantom"},
           policy : {"Delete", "Retain"},
           ref    : Claims \cup Vols \cup {None},
           class  : Classes \cup {None},
           node   : Nodes \cup {None}]

NoHelper == [state |-> "absent", uid |-> None, vol |-> None, class |-> None,
             node |-> None, deleting |-> FALSE, fin |-> {}]

ClusterTypeOK ==
  /\ claim \in [Claims -> ClaimType]
  /\ helper \in [Claims -> HelperType]
  /\ owner \in [Vols -> Claims \cup {None}]
  /\ pv \in [Vols -> PVType]
  /\ pods \in [Claims -> Nodes \cup {Terminating, None}]

ClusterInit ==
  /\ claim = [c \in Claims |-> [status |-> "absent", vol |-> None,
                                class |-> None, node |-> None]]
  /\ helper = [c \in Claims |-> NoHelper]
  /\ owner = [w \in Vols |-> None]
  /\ pv = [v \in Vols |-> [state |-> "none", policy |-> "Delete",
                           ref |-> None, class |-> None, node |-> None]]
  /\ pods = [c \in Claims |-> None]

-----------------------------------------------------------------------------
Live(c) == claim[c].status = "live"

HelperExists(c) == helper[c].state # "absent"

PVExists(v) == pv[v].state \in {"live", "phantom"}

\* The claim that the claimRef of v names exists and is not bound elsewhere.
RefHeld(v) ==
  \/ \E c \in Claims : pv[v].ref = c /\ Live(c)
  \/ \E c \in Claims : /\ HelperExists(c)
                       /\ helper[c].uid = pv[v].ref
                       /\ helper[c].vol \in {None, v}

-----------------------------------------------------------------------------
(* Users and the scheduler. *)

\* A user creates a claim of the hybrid class; names are unique among live ones.
CreateClaim(c) ==
  /\ claim[c].status = "absent"
  /\ \A d \in Claims : Live(d) => ClaimName[d] # ClaimName[c]
  /\ claim' = [claim EXCEPT ![c].status = "live"]
  /\ UNCHANGED <<helper, owner, pv, pods>>

\* The scheduler annotates an unprovisioned claim with the node of its pod.
SelectNode(c) ==
  /\ Live(c)
  /\ claim[c].vol = None
  /\ claim[c].node = None
  /\ \E n \in Nodes : claim' = [claim EXCEPT ![c].node = n]
  /\ UNCHANGED <<helper, owner, pv, pods>>

DeleteClaim(c) ==
  /\ Live(c)
  /\ claim' = [claim EXCEPT ![c].status = "deleted"]
  /\ UNCHANGED <<helper, owner, pv, pods>>

-----------------------------------------------------------------------------
(* The backend CSI provisioner. *)

\* The node a helper claim's volume is made for: the selected-node annotation
\* the provisioner wrote, or in the pod method the node of the helper pod; the
\* scheduler does nothing for a pod that is terminating.
TargetNode(c) ==
  IF Method = "annotation" THEN helper[c].node
  ELSE IF pods[c] \in Nodes THEN pods[c] ELSE None

\* The backend provisions the volume of a pending helper claim, pre-bound to it.
BackendProvision(c) ==
  LET w == helper[c].uid IN
  /\ helper[c].state = "pending"
  /\ ~helper[c].deleting
  /\ TargetNode(c) # None
  /\ pv[w].state = "none"
  /\ pv' = [pv EXCEPT ![w] = [state  |-> "live",
                              policy |-> Policy[helper[c].class],
                              ref    |-> w,
                              class  |-> helper[c].class,
                              node   |-> TargetNode(c)]]
  /\ UNCHANGED <<claim, helper, owner, pods>>

\* A released volume with policy Delete is deleted together with its asset.
Reclaim(v) ==
  /\ pv[v].state = "live"
  /\ pv[v].policy = "Delete"
  /\ pv[v].ref # None
  /\ ~RefHeld(v)
  /\ pv' = [pv EXCEPT ![v].state = "gone"]
  /\ UNCHANGED <<claim, helper, owner, pods>>

-----------------------------------------------------------------------------
(* The persistent-volume controller. *)

\* A pending helper claim is bound to the volume pre-bound to it ...
BindHelper(c) ==
  LET w == helper[c].uid IN
  /\ helper[c].state = "pending"
  /\ ~helper[c].deleting
  /\ PVExists(w)
  /\ pv[w].ref = w
  /\ helper' = [helper EXCEPT ![c] = [@ EXCEPT !.state = "bound", !.vol = w]]
  /\ UNCHANGED <<claim, owner, pv, pods>>

\* ... or, when its class binds immediately or its pod is scheduled on that
\* node, to an available volume of the class that nobody has claimed.
BindAvailable(c, v) ==
  /\ helper[c].state = "pending"
  /\ ~helper[c].deleting
  /\ PVExists(v)
  /\ pv[v].ref = None
  /\ pv[v].class = helper[c].class
  /\ \/ helper[c].class \in Immediate
     \/ Method = "pod" /\ TargetNode(c) # None /\ TargetNode(c) = pv[v].node
  /\ helper' = [helper EXCEPT ![c] = [@ EXCEPT !.state = "bound", !.vol = v]]
  /\ pv' = [pv EXCEPT ![v].ref = helper[c].uid]
  /\ UNCHANGED <<claim, owner, pods>>

\* A bound helper claim, terminating or not, whose volume lost its claimRef
\* is bound to it again.
RebindHelper(c) ==
  LET v == helper[c].vol IN
  /\ helper[c].state = "bound"
  /\ PVExists(v)
  /\ pv[v].ref = None
  /\ pv' = [pv EXCEPT ![v].ref = helper[c].uid]
  /\ UNCHANGED <<claim, helper, owner, pods>>

\* So is a user's claim once bondPVC has marked it as bound.
BindUser(c) ==
  LET v == claim[c].vol IN
  /\ Live(c)
  /\ v # None
  /\ PVExists(v)
  /\ pv[v].ref = None
  /\ pv' = [pv EXCEPT ![v].ref = c]
  /\ UNCHANGED <<claim, helper, owner, pods>>

-----------------------------------------------------------------------------
(* Kubelet, claim protection and garbage collector. *)

\* A helper pod that was deleted stops within its grace period, and is gone then.
PodGone(c) ==
  /\ pods[c] = Terminating
  /\ pods' = [pods EXCEPT ![c] = None]
  /\ UNCHANGED <<claim, helper, owner, pv>>

\* Claim protection puts its finalizer back on a helper claim that is not terminating.
Protect(c) ==
  /\ HelperExists(c)
  /\ ~helper[c].deleting
  /\ "pvc-protection" \notin helper[c].fin
  /\ helper' = [helper EXCEPT ![c].fin = @ \cup {"pvc-protection"}]
  /\ UNCHANGED <<claim, owner, pv, pods>>

\* From a terminating one it drops it once no pod uses the claim, and the garbage
\* collector drops foregroundDeletion; without finalizers the claim is gone.
DropFinalizer(c, f) ==
  /\ helper[c].deleting
  /\ f \in helper[c].fin
  /\ f = "pvc-protection" => pods[c] = None
  /\ LET h == [helper[c] EXCEPT !.fin = @ \ {f}]
     IN  helper' = [helper EXCEPT ![c] = IF h.fin = {} THEN NoHelper ELSE h]
  /\ UNCHANGED <<claim, owner, pv, pods>>

=============================================================================
