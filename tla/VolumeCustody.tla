--------------------------- MODULE VolumeCustody ---------------------------
(***************************************************************************)
(* Why a volume on its way from its helper claim to the user's claim is    *)
(* never deleted: the inductive invariant behind NoDoomedVolume and        *)
(* BoundVolumeKept.  Somebody always has custody of a volume whose policy  *)
(* is Delete: its helper claim until releasePV has made the policy Retain, *)
(* the user's claim from the single patch of bondPVC that makes it Delete  *)
(* again.  It holds where no two processes handle one claim at once,       *)
(* claims have different names, and helper claims bind to no volume but    *)
(* their own.                                                              *)
(***************************************************************************)
EXTENDS HybridProvisioner

\* The cluster in which the argument holds: claims of different names, and helper
\* claims that bind to no volume but their own.
Separate ==
  /\ \A c, d \in Claims : ClaimName[c] = ClaimName[d] => c = d
  /\ Immediate = {}
  /\ Method = "annotation"

Alone == Separate /\ \A p, q \in Procs : p = q

\* What one process, or leader election, gives: no two processes are in calls for
\* the same claim.
OneCaller ==
  \A p, q \in Procs, c \in Claims : ~At(p, c, "idle") /\ ~At(q, c, "idle") => p = q

\* The parts of a call before a helper claim can be delivered to it, those in
\* which the helper claim it is about may exist, those between Retain and the
\* last patch of bondPVC, and those after bondPVC has patched the claim.
Before   == {"idle", "lookup", "create", "pod", "watch"}
OnHelper == {"wait", "unpod", "retain", "unfinalize", "delete"}
Retained == {"unfinalize", "delete", "unref", "bondClaim", "bondVolume"}
Patched  == {"bondVolume", "store"}

Gone(c) == claim[c].status = "deleted"

\* A call has a class and a node, and is about a claim that was created.
CallStarted(p, c) ==
  /\ seen[p][c] # None => claim[c].status # "absent"
  /\ ~At(p, c, "idle") => /\ claim[c].status # "absent"
                          /\ call[p][c].class \in Classes
                          /\ call[p][c].node \in Nodes

\* It works on a volume of its claim, and on no other helper claim than the one
\* that was delivered to it.
CallOwned(p, c) ==
  LET v == call[p][c].vol IN
  /\ call[p][c].pc \in Before => v = None
  /\ call[p][c].pc \notin Before \cup {"wait"} => v # None
  /\ v # None => owner[v] = c /\ pv[v].state # "none"
  /\ v # None /\ call[p][c].pc \in OnHelper /\ HelperExists(c) => helper[c].uid = v

\* Between Retain and the last patch of bondPVC its volume cannot be reclaimed.
VolumeRetained(p, c) ==
  LET v == call[p][c].vol IN
  /\ call[p][c].pc \in Retained => /\ pv[v].policy = "Retain"
                                   /\ pv[v].state = "live" \/ Gone(c)
  /\ call[p][c].pc \in Patched => claim[c].vol = v

\* A helper claim exists under a UID issued for its claim, and is bound to the
\* volume of its own UID only.
HelperOwned(c) ==
  IF HelperExists(c)
    THEN /\ helper[c].uid \in Vols
         /\ owner[helper[c].uid] = c
         /\ helper[c].class \in Classes
         /\ helper[c].vol \in {None, helper[c].uid}
         /\ helper[c].state = "bound" => /\ helper[c].vol = helper[c].uid
                                         /\ pv[helper[c].uid].state # "none"
    ELSE helper[c] = NoHelper

\* The volume a claim names is its own, and is there while the claim lives.
VolumeKept(c) ==
  LET v == claim[c].vol IN
  v # None => owner[v] = c /\ pv[v].state # "none" /\ (pv[v].state = "live" \/ Gone(c))

\* A volume belongs to the claim its helper claim was made for.
VolumeOwned(v) ==
  pv[v].state # "none" =>
    /\ owner[v] \in Claims
    /\ pv[v].ref \in {None, v, owner[v]}
    /\ pv[v].ref \in Claims => claim[owner[v]].status # "absent"
    /\ pv[v].state = "phantom" => Gone(owner[v])

\* Who has custody of a volume with policy Delete.
InCustody(v) ==
  pv[v].state = "live" /\ pv[v].policy = "Delete" =>
    \/ pv[v].ref = owner[v]
    \/ /\ pv[v].ref = v
       /\ HelperExists(owner[v])
       /\ helper[owner[v]].uid = v
       /\ ~helper[owner[v]].deleting

CallCustody(p, c) == CallStarted(p, c) /\ CallOwned(p, c) /\ VolumeRetained(p, c)
ClaimCustody(c)   == HelperOwned(c) /\ VolumeKept(c)
PVCustody(v)      == VolumeOwned(v) /\ InCustody(v)

\* releasePV and bondPVC keep every volume in somebody's custody: the invariant
\* from which NoDoomedVolume and BoundVolumeKept follow.
CustodyInv ==
  /\ \A p \in Procs, c \in Claims : CallCustody(p, c)
  /\ \A c \in Claims : ClaimCustody(c)
  /\ \A v \in Vols : PVCustody(v)

-----------------------------------------------------------------------------
\* A call is about to give the volume a policy and claimRef only for a class that deletes,
\* and what it is about to return has those of its class.
CallHandover(p, c) ==
  LET v == call[p][c].vol IN
  /\ At(p, c, "bondVolume") => Policy[call[p][c].class] = "Delete"
  /\ At(p, c, "store") =>
       /\ pv[v].policy = Policy[call[p][c].class]
       /\ Policy[call[p][c].class] = "Delete" => pv[v].ref = c

\* Without a fault the volume of a claim refers to it, or a call is on its way to make it so.
ClaimHandover(c) ==
  LET v == claim[c].vol IN
  faults = 0 /\ Live(c) /\ v # None /\ Policy[claim[c].class] = "Delete" =>
    \/ pv[v].ref = c
    \/ \E p \in Procs : call[p][c].pc \in {"bondClaim", "bondVolume"} /\ call[p][c].vol = v

\* What releasePV takes from a claim, a second time even, bondPVC gives to it: the invariant
\* from which HandoverComplete and BondedAtRest follow.
HandoverInv ==
  /\ \A p \in Procs, c \in Claims : CallHandover(p, c)
  /\ \A c \in Claims : ClaimHandover(c)

-----------------------------------------------------------------------------
Ownership == INSTANCE VolumeOwnership WITH
  status  <- [c \in Claims |-> claim[c].status],
  given   <- [c \in Claims |-> claim[c].vol],
  madeFor <- [v \in Vols |-> IF pv[v].state = "none" THEN None ELSE owner[v]],
  stored  <- {v \in Vols : pv[v].state = "live"}

\* Provision, however often it is repeated and interrupted, moves volumes only as
\* VolumeOwnership allows: to the claim they were made for, once, and with their
\* storage as long as the claim lives.
ImplementsOwnership == Ownership!Spec

=============================================================================
