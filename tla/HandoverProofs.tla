--------------------------- MODULE HandoverProofs ---------------------------
(***************************************************************************)
(* HandoverInv is an invariant where claims are Separate and each has      *)
(* OneCaller: what Provision returns is complete, and what releasePV takes *)
(* from a claim bondPVC gives to it.  The first lemmas say what a step     *)
(* does to a call, to the volume that a claim names and to the policy and  *)
(* claimRef of a volume.                                                   *)
(***************************************************************************)
EXTENDS OwnershipProofs

-----------------------------------------------------------------------------
(* What a step does to its call *)

\* A step that leaves its call before the patch of the claim.
Early(p, c, new) == Keeps(new, p, c) /\ new[p][c].pc \notin Patched

LEMMA EarlyMoves ==
  ASSUME TypeOK, NEW p \in Procs, NEW c \in Claims
  PROVE  /\ Early(p, c, Return(p, c))
         /\ \A l : l \notin Patched => Early(p, c, Goto(p, c, l))
         /\ call[p][c].pc \notin Patched => Early(p, c, FailAttempt(p, c))
BY TypeParts, ReturnFacts, GotoFacts, FailFacts DEF Early, Patched

\* No step but those of bondPVC takes a call past the patch of its claim.
LEMMA EarlyStep ==
  ASSUME OneCaller, TypeOK, NEW p \in Procs, NEW c \in Claims, NEW r \in Replies,
         \/ LookupHelper(p, c) \/ OpenWatch(p, c) \/ TakeEvent(p, c) \/ WaitFails(p, c)
         \/ StoreVolume(p, c) \/ CreateHelper(p, c, r) \/ CreatePod(p, c, r)
         \/ DeletePod(p, c, r) \/ RetainPV(p, c, r) \/ UnfinalizeHelper(p, c, r)
         \/ DeleteHelper(p, c, r) \/ UnrefPV(p, c, r) \/ ApiError(p, c)
  PROVE  Early(p, c, call')
<1>. USE TypeParts
<1>1. CASE LookupHelper(p, c) \/ OpenWatch(p, c) \/ TakeEvent(p, c) \/ WaitFails(p, c)
           \/ StoreVolume(p, c)
  BY <1>1, EarlyMoves
  DEF LookupHelper, OpenWatch, TakeEvent, WaitFails, StoreVolume, At, Claimed, Patched
<1>2. CASE CreateHelper(p, c, r) \/ RetainPV(p, c, r) \/ UnrefPV(p, c, r)
  BY <1>2, EarlyMoves DEF CreateHelper, RetainPV, UnrefPV, Answered, At, Claimed, Patched
<1>3. CASE CreatePod(p, c, r)
  <2>. DEFINE new == [call EXCEPT ![p][c] = [@ EXCEPT !.pc = "watch", !.hasPod = TRUE]]
  <2>1. Early(p, c, new)
    <3>1. ASSUME NEW x \in CallType
          PROVE  LET y == [x EXCEPT !.pc = "watch", !.hasPod = TRUE]
                 IN  y.pc = "watch" /\ y.class = x.class /\ y.node = x.node /\ y.vol = x.vol
      BY DEF CallType
    <3>2. call[p][c] \in CallType /\ call[p][c].pc = "pod"
      BY <1>3 DEF CallMap, CreatePod, At
    <3>3. new[p][c] = [call[p][c] EXCEPT !.pc = "watch", !.hasPod = TRUE]
      BY DEF CallMap
    <3>4. \A q \in Procs, d \in Claims : q # p \/ d # c => new[q][d] = call[q][d]
      BY DEF CallMap
    <3>. QED
      BY <3>1, <3>2, <3>3, <3>4 DEF Early, Keeps, Patched
  <2>. QED
    BY <1>3, <2>1, EarlyMoves DEF CreatePod, Answered, At, Patched
<1>4. CASE DeletePod(p, c, r)
  BY <1>4, EarlyMoves DEF DeletePod, Answered, At, Patched
<1>5. CASE ApiError(p, c)
  BY <1>5, EarlyMoves DEF ApiError, At, Patched
<1>6. ASSUME NEW new \in CallMap, Early(p, c, new), new[p][c].pc # "wait", ~At(p, c, "idle"),
             NEW h \in HelperType, call' = Delivered(new, c, h)
      PROVE  Early(p, c, call')
  <2>1. \A q \in Procs : new[q][c].pc # "wait"
    BY <1>6 DEF OneCaller, Early, Keeps, At
  <2>2. \A q \in Procs, d \in Claims : call'[q][d] = new[q][d]
    BY <1>6, <2>1, NothingDelivered
  <2>. QED
    BY <1>6, <2>2 DEF Early, Keeps
<1>7. ASSUME UnfinalizeHelper(p, c, r) \/ DeleteHelper(p, c, r)
      PROVE  helper'[c] \in HelperType
  BY <1>7, TypeRelease DEF TypeOK, ClusterTypeOK
<1>8. helper \in [Claims -> HelperType]
  BY DEF ClusterTypeOK
<1>9. CASE UnfinalizeHelper(p, c, r)
  <2>1. At(p, c, "unfinalize") /\ ~At(p, c, "idle") /\ call[p][c].pc \notin Patched
    BY <1>9 DEF UnfinalizeHelper, At, Patched
  <2>2. \/ call' = Return(p, c)
        \/ call' = Delivered(Goto(p, c, "delete"), c, helper'[c])
        \/ call' = Delivered(Return(p, c), c, helper'[c])
    BY <1>8, <1>9 DEF UnfinalizeHelper, Answered
  <2>3. Goto(p, c, "delete") \in CallMap /\ Return(p, c) \in CallMap
    BY GotoType, ReturnType DEF PCs
  <2>4. /\ Early(p, c, Goto(p, c, "delete")) /\ Early(p, c, Return(p, c))
        /\ Goto(p, c, "delete")[p][c].pc # "wait" /\ Return(p, c)[p][c].pc # "wait"
    BY <2>1, EarlyMoves, GotoFacts, ReturnFacts DEF Patched
  <2>. QED
    BY <1>6, <1>7, <1>9, <2>1, <2>2, <2>3, <2>4
<1>10. CASE DeleteHelper(p, c, r)
  <2>1. At(p, c, "delete") /\ ~At(p, c, "idle") /\ call[p][c].pc = "delete"
    BY <1>10 DEF DeleteHelper, At
  <2>2. \/ call' = FailAttempt(p, c)
        \/ call' = Delivered(Goto(p, c, "unref"), c, helper'[c])
        \/ call' = Delivered(FailAttempt(p, c), c, helper'[c])
    BY <1>8, <1>10 DEF DeleteHelper, Answered
  <2>3. Goto(p, c, "unref") \in CallMap /\ FailAttempt(p, c) \in CallMap
    BY GotoType, FailAttemptType DEF PCs
  <2>4. /\ Early(p, c, Goto(p, c, "unref")) /\ Early(p, c, FailAttempt(p, c))
        /\ Goto(p, c, "unref")[p][c].pc # "wait" /\ FailAttempt(p, c)[p][c].pc # "wait"
    BY <2>1, EarlyMoves, GotoFacts, FailFacts DEF Patched
  <2>. QED
    BY <1>6, <1>7, <1>10, <2>1, <2>2, <2>3, <2>4
<1>. QED
  BY <1>1, <1>2, <1>3, <1>4, <1>5, <1>9, <1>10

-----------------------------------------------------------------------------
(* What bondPVC does *)

LEMMA BondClaimMoves ==
  ASSUME Separate, TypeOK, NEW p \in Procs, NEW c \in Claims, NEW r, BondClaim(p, c, r)
  PROVE  LET v   == call[p][c].vol
             new == call'[p][c]
         IN  /\ Keeps(call', p, c)
             /\ \A d \in Claims : d # c => claim'[d] = claim[d]
             /\ claim'[c].status = claim[c].status
             /\ claim'[c].vol = claim[c].vol \/ (claim[c].vol = None /\ claim'[c].vol = v)
             /\ \/ new.pc = "idle"
                \/ /\ new.vol = v /\ new.class = call[p][c].class
                   /\ claim'[c].vol = v /\ claim'[c].class = call[p][c].class
                   /\ new.pc = IF Policy[new.class] = "Delete" THEN "bondVolume" ELSE "store"
<1>. USE TypeParts
<1>. DEFINE v == call[p][c].vol
            k == call[p][c].class
            next == IF Policy[k] = "Delete" THEN "bondVolume" ELSE "store"
<1>1. CASE claim' = claim /\ call' = Return(p, c)
  BY <1>1, ReturnFacts
<1>2. CASE /\ claim[c].vol \in {None, v}
           /\ claim' = [claim EXCEPT ![c] = [@ EXCEPT !.vol = v, !.class = k]]
           /\ call' = Goto(p, c, next) \/ call' = Return(p, c)
  <2>1. /\ claim'[c].vol = v /\ claim'[c].class = k /\ claim'[c].status = claim[c].status
        /\ \A d \in Claims : d # c => claim'[d] = claim[d]
    BY <1>2 DEF ClusterTypeOK, ClaimType
  <2>2. CASE call' = Return(p, c)
    BY <1>2, <2>1, <2>2, ReturnFacts
  <2>3. CASE call' = Goto(p, c, next)
    <3>1. /\ Keeps(call', p, c) /\ call'[p][c].pc = next
          /\ call'[p][c].vol = v /\ call'[p][c].class = k
      BY <2>3, GotoFacts
    <3>. QED
      BY SMTT(30), <1>2, <2>1, <3>1
  <2>. QED
    BY <1>2, <2>2, <2>3
<1>3. \A t \in Stored(c) : t = c
  BY DEF Stored, Separate
<1>4. \/ claim' = claim /\ call' = Return(p, c)
      \/ /\ claim[c].vol \in {None, v}
         /\ claim' = [claim EXCEPT ![c] = [@ EXCEPT !.vol = v, !.class = k]]
         /\ call' = Goto(p, c, next) \/ call' = Return(p, c)
  BY <1>3 DEF BondClaim, Answered
<1>. QED
  BY <1>1, <1>2, <1>4

LEMMA BondVolumeMoves ==
  ASSUME TypeOK, CustodyInv, NEW p \in Procs, NEW c \in Claims, NEW r, BondVolume(p, c, r)
  PROVE  LET v   == call[p][c].vol
             new == call'[p][c]
         IN  /\ Keeps(call', p, c)
             /\ UNCHANGED pv \/ (pv'[v].policy = "Delete" /\ pv'[v].ref = c)
             /\ \/ new.pc = "idle"
                \/ /\ new.vol = v /\ new.class = call[p][c].class
                   /\ new.pc = "store"
                   /\ pv'[v].policy = "Delete" /\ pv'[v].ref = c
<1>. USE TypeParts
<1>1. call[p][c].pc \notin Before \cup {"wait"}
  BY DEF BondVolume, At, Before
<1>2. PICK v \in Vols : v = call[p][c].vol
  BY <1>1, RunningVolume
<1>3. CASE UNCHANGED pv /\ call' = Return(p, c)
  BY <1>3, ReturnFacts
<1>4. CASE /\ pv' = [pv EXCEPT ![v] = [@ EXCEPT !.policy = "Delete", !.ref = c]]
           /\ call' = Goto(p, c, "store") \/ call' = Return(p, c)
  <2>1. pv'[v].policy = "Delete" /\ pv'[v].ref = c
    BY <1>4 DEF ClusterTypeOK, PVType
  <2>2. Keeps(call', p, c)
    BY <1>4, GotoFacts, ReturnFacts
  <2>3. CASE call' = Return(p, c)
    BY <1>2, <2>1, <2>2, <2>3, ReturnFacts
  <2>4. CASE call' = Goto(p, c, "store")
    BY <1>2, <2>1, <2>2, <2>4, GotoFacts
  <2>. QED
    BY <1>4, <2>3, <2>4
<1>. QED
  BY <1>2, <1>3, <1>4 DEF BondVolume, Answered

-----------------------------------------------------------------------------
(* What a step does to the objects of the cluster *)

LEMMA ClaimOwns ==
  ASSUME TypeOK, CustodyInv, NEW c \in Claims, claim[c].vol # None
  PROVE  claim[c].vol \in Vols /\ owner[claim[c].vol] = c
BY DEF TypeOK, ClusterTypeOK, ClaimType, CustodyInv, ClaimCustody, VolumeKept

\* What a step may do to a claim: it gets a volume from bondPVC only, and once; it is
\* created before it has one, and its deletion is final.
LEMMA ClaimMoves ==
  ASSUME Separate, TypeOK, [Next]_vars, NEW c \in Claims
  PROVE  /\ \/ claim'[c].status = claim[c].status
            \/ claim[c].status = "absent"
            \/ ~Live(c)'
         /\ \/ claim'[c].vol = claim[c].vol /\ claim'[c].class = claim[c].class
            \/ \E p \in Procs, r \in Replies : BondClaim(p, c, r)
         /\ claim'[c].vol = claim[c].vol \/ claim[c].vol = None
<1>1. claim \in [Claims -> ClaimType]
  BY DEF TypeOK, ClusterTypeOK
<1>2. ASSUME NEW d \in Claims, CreateClaim(d) \/ SelectNode(d) \/ DeleteClaim(d)
      PROVE  /\ claim'[c].vol = claim[c].vol /\ claim'[c].class = claim[c].class
             /\ claim'[c].status = claim[c].status \/ claim[c].status = "absent" \/ ~Live(c)'
  BY <1>1, <1>2 DEF CreateClaim, SelectNode, DeleteClaim, ClaimType, Live
<1>3. ASSUME NEW p \in Procs, NEW d \in Claims, Reschedule(p, d)
      PROVE  /\ claim'[c].vol = claim[c].vol /\ claim'[c].class = claim[c].class
             /\ claim'[c].status = claim[c].status
  BY <1>1, <1>3 DEF Reschedule, ClaimType
<1>4. ASSUME NEW p \in Procs, NEW d \in Claims, NEW r \in Replies, BondClaim(p, d, r)
      PROVE  /\ claim'[c].status = claim[c].status
             /\ claim'[c].vol = claim[c].vol \/ claim[c].vol = None
             /\ d # c => claim'[c].vol = claim[c].vol /\ claim'[c].class = claim[c].class
  BY <1>4, BondClaimMoves
<1>. QED
  BY <1>2, <1>3, <1>4, ClaimSteps DEF UserStep

LEMMA PVSteps ==
  ASSUME Separate, [Next]_vars
  PROVE  \/ UNCHANGED pv
         \/ \E p \in Procs, c \in Claims, r \in Replies :
              \/ RetainPV(p, c, r) \/ UnrefPV(p, c, r) \/ BondVolume(p, c, r)
              \/ StoreVolume(p, c)
         \/ \E c \in Claims : BackendProvision(c) \/ RebindHelper(c) \/ BindUser(c)
         \/ \E v \in Vols : Reclaim(v)
<1>1. ASSUME NEW p \in Procs, NEW c \in Claims, CallStep(p, c)
      PROVE  \/ UNCHANGED pv
             \/ \E r \in Replies :
                  \/ RetainPV(p, c, r) \/ UnrefPV(p, c, r) \/ BondVolume(p, c, r)
                  \/ StoreVolume(p, c)
  <2>1. CASE StoreVolume(p, c)
    BY <2>1 DEF Replies
  <2>2. CASE ~StoreVolume(p, c)
    BY <1>1, <2>2
    DEF CallStep, LookupHelper, OpenWatch, TakeEvent, WaitFails, CreateHelper, CreatePod,
        DeletePod, UnfinalizeHelper, DeleteHelper, BondClaim, clusterVars
  <2>. QED
    BY <2>1, <2>2
<1>2. ASSUME NEW p \in Procs, NEW c \in Claims, ControllerStep(p, c) \/ ApiError(p, c)
      PROVE  UNCHANGED pv
  BY <1>2 DEF ControllerStep, SyncClaim, SyncHelper, Start, Reschedule, ApiError, clusterVars
<1>3. ASSUME NEW c \in Claims, ClusterStep(c)
      PROVE  UNCHANGED pv \/ BackendProvision(c) \/ RebindHelper(c) \/ BindUser(c)
  BY <1>3
  DEF ClusterStep, WatchedChange, BindHelper, BindAvailable, Protect, DropFinalizer,
      CreateClaim, SelectNode, DeleteClaim, PodGone, Separate
<1>. QED
  BY <1>1, <1>2, <1>3 DEF Next, Crash, vars, clusterVars

\* Policy and claimRef of a volume are changed by the calls that work on it; the
\* controllers only give a volume that refers to nobody a claimRef.
Patches(p, c, v) ==
  /\ call[p][c].vol = v
  /\ \/ call[p][c].pc = "retain" /\ pv'[v].ref = pv[v].ref
     \/ \E r \in Replies : UnrefPV(p, c, r)
     \/ call[p][c].pc \in Patched /\ pv'[v].ref = c /\ call'[p][c] # call[p][c]

LEMMA PVMoves ==
  ASSUME Separate, TypeOK, CustodyInv, [Next]_vars, NEW v \in Vols, pv[v].state # "none"
  PROVE  \/ /\ pv'[v].policy = pv[v].policy
            /\ pv'[v].ref = pv[v].ref \/ pv[v].ref = None
         \/ \E p \in Procs, c \in Claims : Patches(p, c, v)
<1>. DEFINE Alike == /\ pv'[v].policy = pv[v].policy
                     /\ pv'[v].ref = pv[v].ref \/ pv[v].ref = None
<1>. USE TypeParts
<1>1. pv \in [Vols -> PVType]
  BY DEF ClusterTypeOK
<1>2. ASSUME NEW x \in PVType
      PROVE  /\ [x EXCEPT !.state = "gone"].policy = x.policy
             /\ [x EXCEPT !.state = "gone"].ref = x.ref
             /\ \A f : [x EXCEPT !.ref = f].policy = x.policy
  BY DEF PVType
<1>3. ASSUME NEW p \in Procs, NEW c \in Claims, NEW r \in Replies,
             RetainPV(p, c, r) \/ UnrefPV(p, c, r)
      PROVE  Alike \/ Patches(p, c, v)
  <2>1. CASE call[p][c].vol # v
    BY <1>1, <1>3, <2>1 DEF RetainPV, UnrefPV
  <2>2. CASE call[p][c].vol = v /\ UnrefPV(p, c, r)
    BY <2>2 DEF Patches
  <2>3. CASE call[p][c].vol = v /\ RetainPV(p, c, r)
    <3>1. \A x \in PVType : [x EXCEPT !.policy = "Retain"].ref = x.ref
      BY DEF PVType
    <3>2. UNCHANGED pv \/ pv' = [pv EXCEPT ![v].policy = "Retain"]
      BY <2>3 DEF RetainPV
    <3>3. pv'[v].ref = pv[v].ref
      BY <1>1, <3>1, <3>2
    <3>. QED
      BY <2>3, <3>3 DEF Patches, RetainPV, At
  <2>. QED
    BY <1>3, <2>1, <2>2, <2>3
<1>4. ASSUME NEW p \in Procs, NEW c \in Claims, NEW r \in Replies, BondVolume(p, c, r)
      PROVE  Alike \/ Patches(p, c, v)
  <2>1. CASE call[p][c].vol # v \/ UNCHANGED pv
    BY <1>1, <1>4, <2>1 DEF BondVolume
  <2>2. CASE call[p][c].vol = v /\ ~UNCHANGED pv
    <3>1. call[p][c].pc = "bondVolume" /\ pv'[v].ref = c
      BY <1>4, <2>2, BondVolumeMoves DEF BondVolume, At
    <3>2. call'[p][c].pc # "bondVolume"
      BY <1>4, BondVolumeMoves
    <3>. QED
      BY <2>2, <3>1, <3>2 DEF Patches, Patched
  <2>. QED
    BY <2>1, <2>2
<1>5. ASSUME NEW p \in Procs, NEW c \in Claims, StoreVolume(p, c)
      PROVE  Alike \/ Patches(p, c, v)
  <2>1. CASE call[p][c].vol # v \/ UNCHANGED pv
    BY <1>1, <1>5, <2>1 DEF StoreVolume
  <2>2. CASE call[p][c].vol = v /\ ~UNCHANGED pv
    <3>1. call[p][c].pc = "store" /\ pv'[v].ref = c
      BY <1>1, <1>5, <2>2 DEF StoreVolume, At, PVType
    <3>2. call'[p][c].pc # "store"
      BY <1>5, ReturnFacts DEF StoreVolume
    <3>. QED
      BY <2>2, <3>1, <3>2 DEF Patches, Patched
  <2>. QED
    BY <2>1, <2>2
<1>6. ASSUME NEW c \in Claims, BackendProvision(c)
      PROVE  Alike
  BY <1>1, <1>6 DEF BackendProvision
<1>7. ASSUME NEW c \in Claims, RebindHelper(c) \/ BindUser(c)
      PROVE  Alike
  <2>1. PICK w, f : pv' = [pv EXCEPT ![w].ref = f] /\ pv[w].ref = None
    BY <1>7 DEF RebindHelper, BindUser
  <2>. QED
    BY <1>1, <1>2, <2>1
<1>8. ASSUME NEW w \in Vols, Reclaim(w)
      PROVE  Alike
  BY <1>1, <1>2, <1>8 DEF Reclaim
<1>. QED
  BY <1>3, <1>4, <1>5, <1>6, <1>7, <1>8, PVSteps


-----------------------------------------------------------------------------
(* What a step does to any call *)

Bonding == {"bondClaim", "bondVolume"}

\* Only bondPVC's own requests take a call past the patch of its claim, and only they or
\* a fault take it out of bondPVC.
LEMMA CallMoves ==
  ASSUME Separate, OneCaller, TypeOK, CustodyInv, [Next]_vars,
         NEW q \in Procs, NEW d \in Claims
  PROVE  \/ call'[q][d] = call[q][d]
         \/ /\ call'[q][d].pc \notin Patched
            /\ call[q][d].pc \in Bonding => faults' # 0
         \/ \E r \in Replies : BondClaim(q, d, r) \/ BondVolume(q, d, r)
<1>. DEFINE Moves == \/ call'[q][d] = call[q][d]
                     \/ /\ call'[q][d].pc \notin Patched
                        /\ call[q][d].pc \in Bonding => faults' # 0
                     \/ \E r \in Replies : BondClaim(q, d, r) \/ BondVolume(q, d, r)
<1>. USE TypeParts
<1>1. ASSUME NEW p \in Procs, NEW c \in Claims, Early(p, c, call'),
             call[p][c].pc \in Bonding => faults' # 0
      PROVE  Moves
  BY <1>1 DEF Early, Keeps
<1>2. ASSUME NEW p \in Procs, NEW c \in Claims, NEW r \in Replies,
             BondClaim(p, c, r) \/ BondVolume(p, c, r)
      PROVE  Moves
  <2>1. Keeps(call', p, c)
    BY <1>2, BondClaimMoves, BondVolumeMoves
  <2>. QED
    BY <1>2, <2>1 DEF Keeps
<1>3. ASSUME NEW p \in Procs, NEW c \in Claims, CallStep(p, c)
      PROVE  Moves
  <2>1. CASE \/ LookupHelper(p, c) \/ OpenWatch(p, c) \/ TakeEvent(p, c)
             \/ WaitFails(p, c) \/ StoreVolume(p, c)
    <3>1. "ok" \in Replies
      BY DEF Replies
    <3>2. call[p][c].pc \notin Bonding
      BY <2>1 DEF LookupHelper, OpenWatch, TakeEvent, WaitFails, StoreVolume, At, Bonding
    <3>. QED
      BY <1>1, <2>1, <3>1, <3>2, EarlyStep
  <2>2. ASSUME NEW r \in Replies,
               \/ CreateHelper(p, c, r) \/ CreatePod(p, c, r) \/ DeletePod(p, c, r)
               \/ RetainPV(p, c, r) \/ UnfinalizeHelper(p, c, r) \/ DeleteHelper(p, c, r)
               \/ UnrefPV(p, c, r)
        PROVE  Moves
    <3>1. call[p][c].pc \notin Bonding
      BY <2>2
      DEF CreateHelper, CreatePod, DeletePod, RetainPV, UnfinalizeHelper, DeleteHelper,
          UnrefPV, At, Bonding
    <3>. QED
      BY <1>1, <2>2, <3>1, EarlyStep
  <2>. QED
    BY <1>2, <1>3, <2>1, <2>2 DEF CallStep
<1>4. ASSUME NEW p \in Procs, NEW c \in Claims, ApiError(p, c)
      PROVE  Moves
  <2>1. "ok" \in Replies /\ faults' # 0
    BY <1>4 DEF Replies, ApiError
  <2>. QED
    BY <1>1, <1>4, <2>1, EarlyStep
<1>5. ASSUME NEW p \in Procs, NEW c \in Claims, ControllerStep(p, c)
      PROVE  Moves
  <2>1. CASE UNCHANGED call
    BY <2>1
  <2>2. CASE Start(p, c)
    <3>1. PICK k, n : call' = [call EXCEPT ![p][c] =
                                 [@ EXCEPT !.pc = "lookup", !.class = k, !.node = n]]
      BY <2>2 DEF Start
    <3>2. ASSUME NEW x \in CallType
          PROVE  [x EXCEPT !.pc = "lookup", !.class = k, !.node = n].pc = "lookup"
      BY DEF CallType
    <3>3. call'[p][c].pc = "lookup"
      BY <3>1, <3>2 DEF CallMap
    <3>4. q # p \/ d # c => call'[q][d] = call[q][d]
      BY <3>1 DEF CallMap
    <3>5. call[p][c].pc = "idle"
      BY <2>2 DEF Start, At
    <3>. QED
      BY <3>3, <3>4, <3>5 DEF Patched, Bonding
  <2>. QED
    BY <1>5, <2>1, <2>2 DEF ControllerStep, SyncClaim, SyncHelper, Reschedule, callVars
<1>6. ASSUME NEW p \in Procs, Crash(p)
      PROVE  Moves
  BY <1>6 DEF Crash, CallMap, IdleCall, Patched
<1>7. ASSUME NEW c \in Claims, WatchedChange(c)
      PROVE  Moves
  <2>1. helper'[c] \in HelperType /\ call' = Delivered(call, c, helper'[c])
    BY <1>7, ChangeType DEF WatchedChange
  <2>2. call'[q][d].pc = call[q][d].pc /\ (call[q][d].pc # "wait" => call'[q][d] = call[q][d])
    BY <2>1, DeliveredFacts
  <2>. QED
    BY <2>2 DEF Patched, Bonding
<1>8. CASE UNCHANGED call
  BY <1>8
<1>9. ASSUME NEW c \in Claims, ClusterStep(c)
      PROVE  UNCHANGED call \/ WatchedChange(c)
  BY <1>9 DEF ClusterStep, callVars
<1>10. Moves
  BY <1>3, <1>4, <1>5, <1>6, <1>7, <1>8, <1>9 DEF Next, vars, callVars
<1>. QED
  BY <1>10

\* Faults are never forgotten, and an answer that is lost is one.
LEMMA FaultsGrow ==
  ASSUME TypeOK, [Next]_vars
  PROVE  faults' \in {faults, faults + 1}
<1>1. ASSUME NEW p \in Procs, NEW c \in Claims, CallStep(p, c)
      PROVE  faults' \in {faults, faults + 1}
  BY <1>1
  DEF CallStep, LookupHelper, OpenWatch, TakeEvent, WaitFails, StoreVolume, CreateHelper,
      CreatePod, DeletePod, RetainPV, UnfinalizeHelper, DeleteHelper, UnrefPV, BondClaim,
      BondVolume, Answered
<1>2. ASSUME NEW p \in Procs, NEW c \in Claims, ControllerStep(p, c) \/ ApiError(p, c)
      PROVE  faults' \in {faults, faults + 1}
  BY <1>2 DEF ControllerStep, SyncClaim, SyncHelper, Start, Reschedule, ApiError, callVars
<1>3. ASSUME NEW c \in Claims, ClusterStep(c)
      PROVE  faults' = faults
  BY <1>3 DEF ClusterStep, WatchedChange, callVars
<1>. QED
  BY <1>1, <1>2, <1>3 DEF Next, Crash, vars, callVars

-----------------------------------------------------------------------------
(* The invariant, the part about a call *)

CallsHandOver == \A p \in Procs, c \in Claims : CallHandover(p, c)

\* A volume that is about to be returned is left alone until it is.
LEMMA ReturnedVolumeKept ==
  ASSUME Separate, OneCaller, TypeOK, CustodyInv, [Next]_vars,
         NEW p \in Procs, NEW c \in Claims, CallHandover(p, c),
         At(p, c, "store"), call'[p][c] = call[p][c]
  PROVE  LET v == call[p][c].vol
             k == call[p][c].class
         IN  /\ pv'[v].policy = Policy[k]
             /\ Policy[k] = "Delete" => pv'[v].ref = c
<1>. USE ClusterAssumption
<1>1. call[p][c].pc \notin Before \cup {"wait"} /\ call[p][c].pc = "store"
  BY DEF At, Before
<1>2. PICK v \in Vols : v = call[p][c].vol
  BY <1>1, RunningVolume
<1>3. owner[v] = c /\ pv[v].state # "none"
  BY <1>1, <1>2, RunningVolume
<1>4. /\ pv[v].policy = Policy[call[p][c].class]
      /\ Policy[call[p][c].class] = "Delete" => pv[v].ref = c
  BY <1>2 DEF CallHandover
<1>5. ASSUME NEW q \in Procs, NEW d \in Claims, Patches(q, d, v)
      PROVE  FALSE
  <2>1. d = c
    BY <1>3, <1>5, OwnVolumes DEF Patches
  <2>2. ~At(q, d, "idle")
    BY <1>5 DEF Patches, UnrefPV, At, Patched
  <2>3. q = p
    BY <1>1, <2>1, <2>2 DEF OneCaller, At
  <2>. QED
    BY <1>1, <1>5, <2>1, <2>3 DEF Patches, UnrefPV, At
<1>6. pv'[v].policy = pv[v].policy /\ (pv'[v].ref = pv[v].ref \/ pv[v].ref = None)
  BY <1>3, <1>5, PVMoves
<1>. QED
  BY <1>2, <1>4, <1>6

LEMMA CallHandoverKept ==
  ASSUME Separate, OneCaller, TypeOK, CustodyInv, [Next]_vars,
         NEW p \in Procs, NEW c \in Claims, CallHandover(p, c)
  PROVE  CallHandover(p, c)'
<1>. DEFINE v == call[p][c].vol
<1>1. CASE call'[p][c].pc \notin Patched
  BY <1>1 DEF CallHandover, At, Patched
<1>2. CASE call'[p][c] = call[p][c]
  BY <1>2, ReturnedVolumeKept DEF CallHandover, At
<1>3. ASSUME NEW r \in Replies, BondClaim(p, c, r)
      PROVE  CallHandover(p, c)'
  <2>1. CASE call'[p][c].pc = "idle"
    BY <2>1 DEF CallHandover, At
  <2>2. CASE call'[p][c].pc # "idle"
    <3>1. /\ call'[p][c].vol = v /\ call'[p][c].class = call[p][c].class
          /\ call'[p][c].pc = IF Policy[call[p][c].class] = "Delete"
                                THEN "bondVolume" ELSE "store"
      BY <1>3, <2>2, BondClaimMoves
    <3>2. UNCHANGED pv /\ At(p, c, "bondClaim")
      BY <1>3 DEF BondClaim
    <3>3. pv[v].policy = "Retain" /\ call[p][c].class \in Classes
      BY <3>2 DEF CustodyInv, CallCustody, CallStarted, VolumeRetained, Retained, At
    <3>4. Policy[call[p][c].class] \in {"Delete", "Retain"}
      BY <3>3, ClusterAssumption
    <3>. QED
      BY <3>1, <3>2, <3>3, <3>4 DEF CallHandover, At
  <2>. QED
    BY <2>1, <2>2
<1>4. ASSUME NEW r \in Replies, BondVolume(p, c, r)
      PROVE  CallHandover(p, c)'
  <2>1. CASE call'[p][c].pc = "idle"
    BY <2>1 DEF CallHandover, At
  <2>2. CASE call'[p][c].pc # "idle"
    <3>1. /\ call'[p][c].vol = v /\ call'[p][c].class = call[p][c].class
          /\ call'[p][c].pc = "store"
          /\ pv'[v].policy = "Delete" /\ pv'[v].ref = c
      BY <1>4, <2>2, BondVolumeMoves
    <3>2. Policy[call[p][c].class] = "Delete"
      BY <1>4 DEF CallHandover, BondVolume
    <3>. QED
      BY <3>1, <3>2 DEF CallHandover, At
  <2>. QED
    BY <2>1, <2>2
<1>. QED
  BY <1>1, <1>2, <1>3, <1>4, CallMoves


-----------------------------------------------------------------------------
(* The invariant, the part about a claim *)

\* A call of bondPVC for v.
Bonds(p, c, v) == call[p][c].pc \in Bonding /\ call[p][c].vol = v

\* The claimRef of a volume that refers to its claim is removed by a call for that claim
\* only, and if nothing fails the call goes on to bondPVC.
LEMMA RefKept ==
  ASSUME Separate, TypeOK, CustodyInv, [Next]_vars,
         NEW c \in Claims, NEW v \in Vols, owner[v] = c, pv[v].state # "none", pv[v].ref = c,
         pv'[v].ref # c
  PROVE  /\ \E p \in Procs : At(p, c, "unref")
         /\ faults' = 0 => \E p \in Procs : Bonds(p, c, v)'
<1>. USE TypeParts
<1>1. PICK p \in Procs, d \in Claims : Patches(p, d, v)
  BY PVMoves, ClusterAssumption
<1>2. d = c
  BY <1>1, OwnVolumes, ClusterAssumption DEF Patches
<1>3. PICK r \in Replies : UnrefPV(p, c, r) /\ call[p][c].vol = v
  BY <1>1, <1>2 DEF Patches
<1>4. ASSUME faults' = 0 PROVE Bonds(p, c, v)'
  <2>1. call' = Goto(p, c, "bondClaim")
    BY <1>3, <1>4 DEF UnrefPV, Answered, Replies
  <2>. QED
    BY <1>3, <2>1, GotoFacts DEF Bonds, Bonding
<1>. QED
  BY <1>3, <1>4 DEF UnrefPV

\* If nothing fails, a call in bondPVC makes the volume refer to its claim.
LEMMA BondingEnds ==
  ASSUME Separate, OneCaller, TypeOK, CustodyInv, [Next]_vars, faults' = 0,
         NEW p \in Procs, NEW c \in Claims, NEW v \in Vols, Bonds(p, c, v),
         claim[c].vol = v, Live(c), \A r \in Replies : ~BondClaim(p, c, r)
  PROVE  pv'[v].ref = c \/ Bonds(p, c, v)'
<1>. USE TypeParts
<1>1. CASE call'[p][c] = call[p][c]
  BY <1>1 DEF Bonds
<1>2. ASSUME NEW r \in Replies, BondVolume(p, c, r)
      PROVE  pv'[v].ref = c
  <2>1. PVExists(v)
    BY ClusterAssumption DEF CustodyInv, ClaimCustody, VolumeKept, PVExists, Gone, Live
  <2>2. pv' = [pv EXCEPT ![v] = [@ EXCEPT !.policy = "Delete", !.ref = c]]
    BY <1>2, <2>1 DEF BondVolume, Bonds
  <2>. QED
    BY <2>2 DEF ClusterTypeOK, PVType
<1>. QED
  BY <1>1, <1>2, CallMoves DEF Bonds

\* The first patch of bondPVC leaves the second to be done, or it is refused because the
\* claim has another volume than the call's.
LEMMA BondClaimHandsOver ==
  ASSUME Separate, OneCaller, TypeOK, CustodyInv, faults = 0, faults' = 0,
         NEW p \in Procs, NEW c \in Claims, NEW r \in Replies, BondClaim(p, c, r),
         ClaimHandover(c)
  PROVE  ClaimHandover(c)'
<1>. USE TypeParts
<1>. DEFINE v == call[p][c].vol
<1>1. UNCHANGED pv /\ At(p, c, "bondClaim") /\ ~At(p, c, "idle")
  BY DEF BondClaim, At
<1>2. CASE \E t \in Stored(c) : claim[t].vol \in {None, v}
  <2>. DEFINE next == IF Policy[call[p][c].class] = "Delete" THEN "bondVolume" ELSE "store"
  <2>0. Answered(r, Goto(p, c, next), Return(p, c))
    BY <1>2 DEF BondClaim
  <2>1. call' = Goto(p, c, next)
    BY <2>0 DEF Answered, Replies
  <2>2. call'[p][c].pc # "idle"
    BY <2>1, GotoFacts
  <2>3. /\ call'[p][c].vol = v /\ call'[p][c].class = call[p][c].class
        /\ claim'[c].vol = v /\ claim'[c].class = call[p][c].class
        /\ call'[p][c].pc = IF Policy[call'[p][c].class] = "Delete"
                              THEN "bondVolume" ELSE "store"
    BY <2>2, BondClaimMoves
  <2>. QED
    BY <2>3 DEF ClaimHandover
<1>3. CASE ~\E t \in Stored(c) : claim[t].vol \in {None, v}
  <2>1. UNCHANGED claim /\ call' = Return(p, c)
    BY <1>3 DEF BondClaim
  <2>2. Live(c) => claim[c].vol # v
    BY <1>3 DEF Stored
  <2>3. \A q \in Procs, d \in Claims : q # p \/ d # c => call'[q][d] = call[q][d]
    BY <2>1, ReturnFacts DEF Keeps
  <2>4. ASSUME Live(c), NEW q \in Procs, NEW w, Bonds(q, c, w), w = claim[c].vol
        PROVE  Bonds(q, c, w)'
    BY <2>2, <2>3, <2>4 DEF Bonds
  <2>. QED
    BY <1>1, <2>1, <2>4 DEF ClaimHandover, Bonds, Bonding, Live
<1>. QED
  BY <1>2, <1>3

LEMMA ClaimHandoverKept ==
  ASSUME Separate, OneCaller, TypeOK, CustodyInv, OwnersCreated, [Next]_vars,
         NEW c \in Claims, ClaimHandover(c)
  PROVE  ClaimHandover(c)'
<1>. SUFFICES ASSUME faults' = 0, Live(c)', claim'[c].vol # None,
                     Policy[claim'[c].class] = "Delete"
              PROVE  ClaimHandover(c)'
  BY DEF ClaimHandover
<1>1. faults = 0
  BY FaultsGrow DEF TypeOK
<1>2. CASE \E p \in Procs, r \in Replies : BondClaim(p, c, r)
  BY <1>1, <1>2, BondClaimHandsOver
<1>3. CASE ~\E p \in Procs, r \in Replies : BondClaim(p, c, r)
  <2>1. claim'[c].vol = claim[c].vol /\ claim'[c].class = claim[c].class
    BY <1>3, ClaimMoves
  <2>2. PICK v \in Vols : v = claim[c].vol /\ owner[v] = c
    BY <2>1, ClaimOwns
  <2>3. claim[c].status # "absent" /\ pv[v].state # "none"
    BY <2>2, ClusterAssumption
    DEF OwnersCreated, CustodyInv, ClaimCustody, VolumeKept
  <2>4. Live(c)
    BY <2>3, ClaimMoves DEF Live
  <2>5. pv[v].ref = c \/ \E p \in Procs : Bonds(p, c, v)
    <3>1. \/ pv[v].ref = c
          \/ \E p \in Procs : call[p][c].pc \in {"bondClaim", "bondVolume"} /\ call[p][c].vol = v
      BY <1>1, <2>1, <2>2, <2>4, ClusterAssumption DEF ClaimHandover
    <3>. QED
      BY <3>1 DEF Bonds, Bonding
  <2>6. pv'[v].ref = c \/ \E p \in Procs : Bonds(p, c, v)'
    BY <1>3, <2>2, <2>3, <2>4, <2>5, RefKept, BondingEnds
  <2>. QED
    BY <2>1, <2>2, <2>6 DEF ClaimHandover, Bonds, Bonding
<1>. QED
  BY <1>2, <1>3

-----------------------------------------------------------------------------
(* The theorems *)

LEMMA HandoverInit == Init => HandoverInv
BY DEF Init, ClusterInit, HandoverInv, CallHandover, ClaimHandover, Live, IdleCall, At

LEMMA HandoverStep ==
  ASSUME Separate, OneCaller, TypeOK, CustodyInv, OwnersCreated, HandoverInv, [Next]_vars
  PROVE  HandoverInv'
BY CallHandoverKept, ClaimHandoverKept DEF HandoverInv

LEMMA HandoverCompletes == CustodyInv /\ CallsHandOver => HandoverComplete
<1>. SUFFICES ASSUME CustodyInv, CallsHandOver,
                     NEW p \in Procs, NEW c \in Claims, At(p, c, "store")
              PROVE  LET v == call[p][c].vol IN
                     /\ claim[c].vol = v
                     /\ pv[v].policy = Policy[call[p][c].class]
                     /\ Policy[call[p][c].class] = "Delete" => pv[v].ref = c
  BY DEF HandoverComplete
<1>1. CallHandover(p, c) /\ VolumeRetained(p, c)
  BY DEF CallsHandOver, CustodyInv, CallCustody
<1>. QED
  BY <1>1 DEF CallHandover, VolumeRetained, Patched, At

LEMMA HandoverRests == HandoverInv => BondedAtRest
BY DEF HandoverInv, ClaimHandover, BondedAtRest, Bonded, At

\* For one process, claims of different names and method annotation: as long as nothing
\* fails, a claim whose volume does not refer to it has a call in bondPVC that is going to
\* change that, though calls from a stale cache may release the volume again and again; and
\* with any fault, what a call is about to return is complete.
THEOREM HandoverInvariant == Alone => (Spec => []HandoverInv)
<1>. DEFINE IInv == TypeInv /\ CustodyInv /\ OwnersCreated /\ HandoverInv
<1>. SUFFICES ASSUME Alone PROVE Spec => []HandoverInv
  OBVIOUS
<1>1. Init => IInv
  BY TypeInit, CustodyInit, OwnershipInit, HandoverInit
<1>2. IInv /\ [Next]_vars => IInv'
  BY TypeStep, CustodyStep, OwnersCreatedStep, HandoverStep DEF TypeInv, Alone, OneCaller
<1>3. IInv => HandoverInv
  OBVIOUS
<1>. HIDE DEF IInv
<1>. QED
  BY <1>1, <1>2, <1>3, PTL DEF Spec

\* Under the same assumptions what Provision returns for a claim that is still there is
\* bonded, with the policy of the class, whatever failed and was repeated on the way.
THEOREM HandoversComplete == Alone => (Spec => []HandoverComplete)
<1>1. HandoverInv /\ CustodyInv => HandoverComplete
  BY HandoverCompletes DEF HandoverInv, CallsHandOver
<1>. QED
  BY <1>1, HandoverInvariant, CustodyInvariant, PTL

\* Under the same assumptions a claim and its volume point at each other when no call for
\* the claim is left and nothing has failed: a second release is always made good.
THEOREM BondsAtRest == Alone => (Spec => []BondedAtRest)
BY HandoverRests, HandoverInvariant, PTL

\* Under the same assumptions, and with any faults, only the last request of releasePV, in
\* a call for the claim itself, separates a claim and a volume that point at each other.
THEOREM BondsUndoneByOwnCall == Alone => (Spec => BondUndoneByOwnCall)
<1>. DEFINE IInv == TypeInv /\ CustodyInv /\ OwnersCreated
            Kept == \A c \in Claims :
                      Bonded(c) /\ Live(c)' /\ ~Bonded(c)' => \E p \in Procs : At(p, c, "unref")
<1>. SUFFICES ASSUME Alone PROVE Spec => [][Kept]_vars
  BY DEF BondUndoneByOwnCall
<1>1. Init => IInv
  BY TypeInit, CustodyInit, OwnershipInit
<1>2. IInv /\ [Next]_vars => IInv'
  BY TypeStep, CustodyStep, OwnersCreatedStep DEF TypeInv, Alone, OneCaller
<1>3. IInv /\ [Next]_vars => Kept
  <2>. SUFFICES ASSUME IInv, [Next]_vars,
                       NEW c \in Claims, Bonded(c), Live(c)', ~Bonded(c)'
                PROVE  \E p \in Procs : At(p, c, "unref")
    OBVIOUS
  <2>1. PICK v \in Vols : v = claim[c].vol /\ owner[v] = c
    BY ClaimOwns DEF Bonded, TypeInv
  <2>2. pv[v].state # "none" /\ pv[v].ref = c /\ v # None
    BY <2>1, ClusterAssumption DEF Bonded, CustodyInv, ClaimCustody, VolumeKept
  <2>3. claim'[c].vol = v
    BY <2>1, <2>2, ClaimMoves DEF TypeInv, Alone
  <2>4. pv'[v].ref # c
    BY <2>2, <2>3 DEF Bonded
  <2>. QED
    BY <2>1, <2>2, <2>4, RefKept DEF TypeInv, Alone
<1>. HIDE DEF IInv, Kept
<1>. QED
  BY <1>1, <1>2, <1>3, PTL DEF Spec

=============================================================================
