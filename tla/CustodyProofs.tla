--------------------------- MODULE CustodyProofs ---------------------------
(***************************************************************************)
(* CustodyInv is an invariant where the claims are Separate and each has   *)
(* OneCaller, which Alone gives in the specification of one process, and   *)
(* with it the two properties that keep a volume from being deleted on its *)
(* way to the user's claim.  Every step but a crash is about one claim     *)
(* (Elsewhere): what belongs to the other claims it leaves alone, so that  *)
(* a step only has to keep the custody of its own claim's objects.         *)
(***************************************************************************)
EXTENDS HybridProvisionerProofs

-----------------------------------------------------------------------------
(* Steps about one claim *)

Elsewhere(c) ==
  /\ \A d \in Claims : d # c =>
       /\ claim'[d] = claim[d]
       /\ helper'[d] = helper[d]
       /\ \A q \in Procs : call'[q][d] = call[q][d] /\ seen'[q][d] = seen[q][d]
  /\ \A v \in Vols : owner[v] # c =>
       /\ pv'[v] = pv[v]
       /\ owner'[v] = owner[v] \/ (owner[v] = None /\ owner'[v] = c)
  /\ \A v \in Vols : owner[v] = c => owner'[v] = c

\* Every volume that a call, a claim or a helper claim of c has to do with
\* belongs to c.
LEMMA OwnVolumes ==
  ASSUME TypeOK, CustodyInv, NEW p \in Procs, NEW c \in Claims
  PROVE  /\ call[p][c].vol # None => call[p][c].vol \in Vols /\ owner[call[p][c].vol] = c
         /\ claim[c].vol # None => claim[c].vol \in Vols /\ owner[claim[c].vol] = c
         /\ HelperExists(c) => helper[c].uid \in Vols /\ owner[helper[c].uid] = c
<1>1. call[p][c] \in CallType /\ claim[c] \in ClaimType
  BY DEF TypeOK, ClusterTypeOK
<1>. QED
  BY <1>1 DEF CustodyInv, CallCustody, CallOwned, ClaimCustody, HelperOwned, VolumeKept,
              CallType, ClaimType

LEMMA ElsewhereKept ==
  ASSUME TypeOK, CustodyInv, NEW c \in Claims, Elsewhere(c),
         \A p \in Procs : CallCustody(p, c)',
         ClaimCustody(c)',
         \A v \in Vols : owner'[v] = c => PVCustody(v)'
  PROVE  CustodyInv'
<1>. USE ClusterAssumption
<1>1. ASSUME NEW q \in Procs, NEW d \in Claims, d # c
      PROVE  CallCustody(q, d)'
  <2>1. CallCustody(q, d)
    BY DEF CustodyInv
  <2>2. /\ claim'[d] = claim[d] /\ helper'[d] = helper[d]
        /\ call'[q][d] = call[q][d] /\ seen'[q][d] = seen[q][d]
    BY <1>1 DEF Elsewhere
  <2>3. call[q][d].vol # None =>
          /\ pv'[call[q][d].vol] = pv[call[q][d].vol]
          /\ owner'[call[q][d].vol] = owner[call[q][d].vol]
    BY <1>1, OwnVolumes DEF Elsewhere
  <2>4. CallStarted(q, d)'
    BY <2>1, <2>2 DEF CallCustody, CallStarted, At
  <2>5. CallOwned(q, d)'
    BY <2>1, <2>2, <2>3 DEF CallCustody, CallOwned, HelperExists
  <2>6. VolumeRetained(q, d)'
    <3>1. call[q][d].pc \in Retained => call[q][d].vol # None
      BY <2>1 DEF CallCustody, CallOwned, Retained, Before
    <3>. QED
      BY <2>1, <2>2, <2>3, <3>1 DEF CallCustody, VolumeRetained, Gone
  <2>. QED
    BY <2>4, <2>5, <2>6 DEF CallCustody
<1>2. ASSUME NEW d \in Claims, d # c
      PROVE  ClaimCustody(d)'
  <2>1. ClaimCustody(d)
    BY DEF CustodyInv
  <2>2. claim'[d] = claim[d] /\ helper'[d] = helper[d]
    BY <1>2 DEF Elsewhere
  <2>3. /\ claim[d].vol # None => /\ pv'[claim[d].vol] = pv[claim[d].vol]
                                  /\ owner'[claim[d].vol] = owner[claim[d].vol]
        /\ HelperExists(d) => /\ pv'[helper[d].uid] = pv[helper[d].uid]
                              /\ owner'[helper[d].uid] = owner[helper[d].uid]
    <3>1. ASSUME NEW v \in Vols, owner[v] = d
          PROVE  pv'[v] = pv[v] /\ owner'[v] = owner[v]
      BY <1>2, <3>1 DEF Elsewhere
    <3>2. claim[d] \in ClaimType
      BY DEF TypeOK, ClusterTypeOK
    <3>. QED
      BY <2>1, <3>1, <3>2 DEF ClaimCustody, VolumeKept, HelperOwned, ClaimType
  <2>4. HelperOwned(d)'
    BY <2>1, <2>2, <2>3 DEF ClaimCustody, HelperOwned, HelperExists
  <2>5. VolumeKept(d)'
    BY <2>1, <2>2, <2>3 DEF ClaimCustody, VolumeKept, Gone
  <2>. QED
    BY <2>4, <2>5 DEF ClaimCustody
<1>3. ASSUME NEW v \in Vols, owner'[v] # c
      PROVE  PVCustody(v)'
  <2>1. PVCustody(v)
    BY DEF CustodyInv
  <2>2. pv'[v] = pv[v] /\ owner'[v] = owner[v] /\ owner[v] # c
    BY <1>3 DEF Elsewhere
  <2>3. pv[v].state # "none" => /\ owner[v] \in Claims
                                /\ claim'[owner[v]] = claim[owner[v]]
                                /\ helper'[owner[v]] = helper[owner[v]]
    BY <2>1, <2>2 DEF PVCustody, VolumeOwned, Elsewhere
  <2>4. VolumeOwned(v)'
    BY <2>1, <2>2, <2>3 DEF PVCustody, VolumeOwned, Gone
  <2>5. InCustody(v)'
    BY <2>1, <2>2, <2>3 DEF PVCustody, InCustody, HelperExists
  <2>. QED
    BY <2>4, <2>5 DEF PVCustody
<1>. QED
  BY <1>1, <1>2, <1>3 DEF CustodyInv

-----------------------------------------------------------------------------
(* Steps of a call *)

\* A call that has returned has no custody to keep.
LEMMA ReturnedKept ==
  ASSUME CustodyInv, NEW p \in Procs, NEW c \in Claims,
         call'[p][c].pc = "idle", call'[p][c].vol = None,
         seen'[p][c] = seen[p][c], claim[c].status # "absent" => claim'[c].status # "absent"
  PROVE  CallCustody(p, c)'
  BY DEF CustodyInv, CallCustody, CallStarted, CallOwned, VolumeRetained, At, Before,
         OnHelper, Retained, Patched

\* The calls of the other processes for c are idle and stay so.
LEMMA OthersKept ==
  ASSUME OneCaller, CustodyInv, NEW p \in Procs, NEW c \in Claims, ~At(p, c, "idle"),
         Keeps(call', p, c), UNCHANGED seen, CallCustody(p, c)',
         claim[c].status # "absent" => claim'[c].status # "absent"
  PROVE  \A q \in Procs : CallCustody(q, c)'
<1>. SUFFICES ASSUME NEW q \in Procs, q # p
              PROVE  CallCustody(q, c)'
  OBVIOUS
<1>1. At(q, c, "idle") /\ call'[q][c] = call[q][c]
  BY DEF OneCaller, Keeps
<1>2. call[q][c].vol = None
  BY <1>1 DEF CustodyInv, CallCustody, CallOwned, Before, At
<1>. QED
  BY <1>1, <1>2, ReturnedKept DEF At

\* A step that changes call only at p, c keeps everything if it keeps the custody of
\* that call.
LEMMA CallOnlyKept ==
  ASSUME OneCaller, TypeOK, CustodyInv, NEW p \in Procs, NEW c \in Claims, ~At(p, c, "idle"),
         UNCHANGED <<claim, helper, owner, pv, seen>>, Keeps(call', p, c), CallCustody(p, c)'
  PROVE  CustodyInv'
<1>1. Elsewhere(c)
  BY DEF Elsewhere, Keeps
<1>2. \A q \in Procs : CallCustody(q, c)'
  BY OthersKept
<1>3. ClaimCustody(c)'
  BY DEF CustodyInv, ClaimCustody, HelperOwned, VolumeKept, HelperExists, Gone
<1>4. \A v \in Vols : PVCustody(v)'
  BY DEF CustodyInv, PVCustody, VolumeOwned, InCustody, HelperExists, Gone
<1>. QED
  BY <1>1, <1>2, <1>3, <1>4, ElsewhereKept

\* A call that goes on with its choice has still started.
LEMMA StartedKept ==
  ASSUME CustodyInv, NEW p \in Procs, NEW c \in Claims, ~At(p, c, "idle"),
         call'[p][c].class = call[p][c].class, call'[p][c].node = call[p][c].node,
         seen' = seen, claim'[c].status = claim[c].status
  PROVE  CallStarted(p, c)'
  BY DEF CustodyInv, CallCustody, CallStarted, At

LEMMA WaitKept ==
  ASSUME OneCaller, TypeOK, CustodyInv, NEW p \in Procs, NEW c \in Claims,
         LookupHelper(p, c) \/ OpenWatch(p, c) \/ TakeEvent(p, c) \/ WaitFails(p, c)
  PROVE  CustodyInv'
<1>. USE TypeParts
<1>1. UNCHANGED <<clusterVars, seen>> /\ ~At(p, c, "idle")
  BY DEF LookupHelper, OpenWatch, TakeEvent, WaitFails, At
<1>2. CASE call' = Return(p, c)
  BY <1>1, <1>2, ReturnFacts, ReturnedKept, CallOnlyKept DEF clusterVars
<1>3. ASSUME NEW l, call' = Goto(p, c, l),
             \/ At(p, c, "lookup") /\ l \in {"create", "pod", "watch"}
             \/ At(p, c, "watch") /\ l = "wait"
             \/ At(p, c, "wait") /\ call[p][c].vol # None /\ l \in {"unpod", "retain"}
      PROVE  CustodyInv'
  <2>1. /\ Keeps(call', p, c) /\ call'[p][c].pc = l
        /\ call'[p][c].class = call[p][c].class /\ call'[p][c].vol = call[p][c].vol
        /\ call'[p][c].node = call[p][c].node
    BY <1>3, GotoFacts DEF Keeps
  <2>2. CallStarted(p, c)'
    BY <1>1, <2>1, StartedKept DEF clusterVars
  <2>3. CallOwned(p, c)'
    BY <1>1, <1>3, <2>1
    DEF CustodyInv, CallCustody, CallOwned, At, Before, OnHelper, HelperExists, clusterVars
  <2>4. VolumeRetained(p, c)'
    BY <1>3, <2>1 DEF VolumeRetained, Retained, Patched
  <2>. QED
    BY <1>1, <2>1, <2>2, <2>3, <2>4, CallOnlyKept DEF CallCustody, clusterVars
<1>. QED
  BY <1>2, <1>3 DEF LookupHelper, OpenWatch, TakeEvent, WaitFails, Claimed

\* A step of the call that changes its volume and nothing else of the cluster.
LEMMA OwnPVKept ==
  ASSUME OneCaller, TypeOK, CustodyInv, NEW p \in Procs, NEW c \in Claims, NEW v \in Vols,
         ~At(p, c, "idle"), owner[v] = c, UNCHANGED <<claim, helper, owner, seen>>,
         \A w \in Vols : w # v => pv'[w] = pv[w],
         pv'[v].state = "live" \/ (pv'[v].state = "phantom" /\ Gone(c)),
         PVCustody(v)', Keeps(call', p, c), CallCustody(p, c)'
  PROVE  CustodyInv'
<1>1. Elsewhere(c)
  BY DEF Elsewhere, Keeps
<1>2. \A q \in Procs : CallCustody(q, c)'
  BY OthersKept
<1>3. ClaimCustody(c)'
  <2>1. ClaimCustody(c)
    BY DEF CustodyInv
  <2>2. \A w \in Vols : pv[w].state # "none" => pv'[w].state # "none"
    OBVIOUS
  <2>3. claim[c].vol # None => claim[c].vol \in Vols
    BY OwnVolumes
  <2>4. HelperOwned(c)'
    BY <2>1, <2>2 DEF ClaimCustody, HelperOwned, HelperExists
  <2>5. VolumeKept(c)'
    BY <2>1, <2>2, <2>3 DEF ClaimCustody, VolumeKept, Gone
  <2>. QED
    BY <2>4, <2>5 DEF ClaimCustody
<1>4. ASSUME NEW w \in Vols PROVE PVCustody(w)'
  <2>1. CASE w # v
    BY <2>1 DEF CustodyInv, PVCustody, VolumeOwned, InCustody, HelperExists, Gone
  <2>. QED
    BY <2>1
<1>. QED
  BY <1>1, <1>2, <1>3, <1>4, ElsewhereKept

\* What is known of the volume of a running call when its volume object exists.
LEMMA RunningVolume ==
  ASSUME TypeOK, CustodyInv, NEW p \in Procs, NEW c \in Claims,
         call[p][c].pc \notin Before \cup {"wait"}
  PROVE  LET v == call[p][c].vol IN
         /\ v \in Vols /\ owner[v] = c /\ pv[v].state # "none" /\ pv[v] \in PVType
         /\ claim[c].status # "absent"
         /\ PVExists(v) => pv[v].state = "live" \/ (pv[v].state = "phantom" /\ Gone(c))
         /\ pv[v].ref \in {None, v, c}
<1>. DEFINE v == call[p][c].vol
<1>1. v \in Vols /\ owner[v] = c /\ pv[v].state # "none"
  BY OwnVolumes DEF CustodyInv, CallCustody, CallOwned
<1>2. pv[v] \in PVType
  BY <1>1 DEF TypeOK, ClusterTypeOK
<1>3. claim[c].status # "absent"
  BY DEF CustodyInv, CallCustody, CallStarted, At, Before
<1>4. VolumeOwned(v)
  BY <1>1 DEF CustodyInv, PVCustody
<1>. QED
  BY <1>1, <1>2, <1>3, <1>4 DEF VolumeOwned, PVExists

LEMMA RetainUnrefKept ==
  ASSUME OneCaller, TypeOK, CustodyInv, NEW p \in Procs, NEW c \in Claims, NEW r,
         RetainPV(p, c, r) \/ UnrefPV(p, c, r)
  PROVE  CustodyInv'
<1>. USE TypeParts, ClusterAssumption
<1>1. /\ ~At(p, c, "idle") /\ call[p][c].pc \notin Before \cup {"wait"}
      /\ UNCHANGED <<claim, helper, owner, pods, listed, seen>>
  BY DEF RetainPV, UnrefPV, At, Before
<1>v. PICK v \in Vols : v = call[p][c].vol
  BY <1>1, RunningVolume
<1>2. /\ v = call[p][c].vol /\ owner[v] = c /\ pv[v] \in PVType /\ pv[v].state # "none"
      /\ PVExists(v) => pv[v].state = "live" \/ (pv[v].state = "phantom" /\ Gone(c))
      /\ claim[c].status # "absent" /\ pv[v].ref \in {None, v, c}
  BY <1>1, <1>v, RunningVolume
<1>3. CASE call' = Return(p, c) /\ pv' = pv
  BY <1>1, <1>3, ReturnFacts, ReturnedKept, CallOnlyKept DEF clusterVars
<1>4. ASSUME PVExists(v), NEW l \in {"unfinalize", "bondClaim"},
             \/ /\ l = "unfinalize" /\ At(p, c, "retain")
                /\ pv' = [pv EXCEPT ![v].policy = "Retain"]
             \/ /\ l = "bondClaim" /\ At(p, c, "unref")
                /\ pv' = [pv EXCEPT ![v].ref = None],
             call' = Goto(p, c, l) \/ call' = Return(p, c)
      PROVE  CustodyInv'
  <2>1. /\ pv'[v].state = pv[v].state /\ pv'[v].policy = "Retain"
        /\ pv'[v].ref \in {None, pv[v].ref}
        /\ \A w \in Vols : w # v => pv'[w] = pv[w]
    <3>1. pv \in [Vols -> PVType]
      BY DEF ClusterTypeOK
    <3>2. ASSUME NEW x \in PVType
          PROVE  /\ [x EXCEPT !.policy = "Retain"].policy = "Retain"
                 /\ [x EXCEPT !.policy = "Retain"].state = x.state
                 /\ [x EXCEPT !.policy = "Retain"].ref = x.ref
                 /\ [x EXCEPT !.ref = None].policy = x.policy
                 /\ [x EXCEPT !.ref = None].state = x.state
                 /\ [x EXCEPT !.ref = None].ref = None
      BY DEF PVType
    <3>3. At(p, c, "unref") => pv[v].policy = "Retain"
      BY <1>2 DEF CustodyInv, CallCustody, VolumeRetained, At, Retained
    <3>4. \A w \in Vols : w # v => pv'[w] = pv[w]
      BY <1>4, <3>1
    <3>5. CASE pv' = [pv EXCEPT ![v].policy = "Retain"]
      BY <1>2, <3>1, <3>2, <3>4, <3>5
    <3>6. CASE At(p, c, "unref") /\ pv' = [pv EXCEPT ![v].ref = None]
      BY <1>2, <3>1, <3>2, <3>3, <3>4, <3>6
    <3>. QED
      BY <1>4, <3>5, <3>6
  <2>2. PVCustody(v)'
    <3>1. VolumeOwned(v)
      BY <1>2 DEF CustodyInv, PVCustody
    <3>2. VolumeOwned(v)'
      BY <1>1, <1>2, <2>1, <3>1 DEF VolumeOwned, Gone
    <3>3. InCustody(v)'
      BY <2>1 DEF InCustody
    <3>. QED
      BY <3>2, <3>3 DEF PVCustody
  <2>3. pv'[v].state = "live" \/ (pv'[v].state = "phantom" /\ Gone(c))
    BY <1>2, <1>4, <2>1
  <2>4. CASE call' = Return(p, c)
    <3>1. Keeps(call', p, c) /\ CallCustody(p, c)'
      BY <1>1, <2>4, ReturnFacts, ReturnedKept
    <3>. QED
      BY <1>1, <1>2, <2>1, <2>2, <2>3, <3>1, OwnPVKept
  <2>5. CASE call' = Goto(p, c, l)
    <3>1. /\ Keeps(call', p, c) /\ call'[p][c].pc = l
          /\ call'[p][c].class = call[p][c].class /\ call'[p][c].vol = v
          /\ call'[p][c].node = call[p][c].node
      BY SMTT(30), <1>2, <1>4, <2>5, GotoFacts DEF Keeps
    <3>2. CallStarted(p, c)'
      BY <1>1, <3>1, StartedKept
    <3>3. CallOwned(p, c)'
      <4>1. At(p, c, "retain") /\ HelperExists(c) => helper[c].uid = v
        BY <1>2 DEF CustodyInv, CallCustody, CallOwned, At, OnHelper, HelperExists
      <4>. QED
        BY <1>1, <1>2, <1>4, <2>1, <3>1, <4>1 DEF CallOwned, Before, OnHelper, HelperExists
    <3>4. VolumeRetained(p, c)'
      BY <1>1, <1>4, <2>1, <2>3, <3>1 DEF VolumeRetained, Patched, Gone
    <3>. QED
      BY <1>1, <1>2, <2>1, <2>2, <2>3, <3>1, <3>2, <3>3, <3>4, OwnPVKept DEF CallCustody
  <2>. QED
    BY <1>4, <2>4, <2>5
<1>. QED
  BY <1>2, <1>3, <1>4 DEF RetainPV, UnrefPV, Answered

LEMMA BondVolumeKept ==
  ASSUME OneCaller, TypeOK, CustodyInv, NEW p \in Procs, NEW c \in Claims, NEW r,
         BondVolume(p, c, r)
  PROVE  CustodyInv'
<1>. USE TypeParts, ClusterAssumption
<1>1. /\ At(p, c, "bondVolume") /\ call[p][c].pc \notin Before \cup {"wait"}
      /\ ~At(p, c, "idle") /\ UNCHANGED <<claim, helper, owner, pods, listed, seen>>
  BY DEF BondVolume, At, Before
<1>2. PICK v \in Vols : v = call[p][c].vol
  BY <1>1, RunningVolume
<1>3. /\ owner[v] = c /\ pv[v] \in PVType
      /\ PVExists(v) => pv[v].state = "live" \/ (pv[v].state = "phantom" /\ Gone(c))
      /\ claim[c].status # "absent" /\ claim[c].vol = v
  BY <1>1, <1>2, RunningVolume DEF CustodyInv, CallCustody, VolumeRetained, At, Patched
<1>4. CASE call' = Return(p, c) /\ pv' = pv
  BY <1>1, <1>4, ReturnFacts, ReturnedKept, CallOnlyKept
<1>5. ASSUME PVExists(v),
             pv' = [pv EXCEPT ![v] = [@ EXCEPT !.policy = "Delete", !.ref = c]],
             call' = Goto(p, c, "store") \/ call' = Return(p, c)
      PROVE  CustodyInv'
  <2>1. /\ pv'[v].state = pv[v].state /\ pv'[v].ref = c
        /\ \A w \in Vols : w # v => pv'[w] = pv[w]
    <3>1. pv \in [Vols -> PVType]
      BY DEF ClusterTypeOK
    <3>2. ASSUME NEW x \in PVType
          PROVE  /\ [x EXCEPT !.policy = "Delete", !.ref = c].state = x.state
                 /\ [x EXCEPT !.policy = "Delete", !.ref = c].ref = c
      BY DEF PVType
    <3>. QED
      BY <1>3, <1>5, <3>1, <3>2
  <2>2. PVCustody(v)'
    <3>1. VolumeOwned(v)
      BY DEF CustodyInv, PVCustody
    <3>2. VolumeOwned(v)'
      BY <1>1, <1>3, <2>1, <3>1 DEF VolumeOwned, Gone
    <3>3. InCustody(v)'
      BY <1>1, <1>3, <2>1 DEF InCustody
    <3>. QED
      BY <3>2, <3>3 DEF PVCustody
  <2>3. pv'[v].state = "live" \/ (pv'[v].state = "phantom" /\ Gone(c))
    BY <1>3, <1>5, <2>1
  <2>4. CASE call' = Return(p, c)
    <3>1. Keeps(call', p, c) /\ CallCustody(p, c)'
      BY <1>1, <2>4, ReturnFacts, ReturnedKept
    <3>. QED
      BY <1>1, <1>3, <2>1, <2>2, <2>3, <3>1, OwnPVKept
  <2>5. CASE call' = Goto(p, c, "store")
    <3>1. /\ Keeps(call', p, c) /\ call'[p][c].pc = "store"
          /\ call'[p][c].class = call[p][c].class /\ call'[p][c].vol = v
          /\ call'[p][c].node = call[p][c].node
      BY <1>2, <2>5, GotoFacts DEF Keeps
    <3>2. CallStarted(p, c)'
      BY <1>1, <3>1, StartedKept
    <3>3. CallOwned(p, c)' /\ VolumeRetained(p, c)'
      BY <1>1, <1>3, <2>3, <3>1, ClusterAssumption
      DEF CallOwned, VolumeRetained, Before, OnHelper, Retained, Patched
    <3>. QED
      BY <1>1, <1>3, <2>1, <2>2, <2>3, <3>1, <3>2, <3>3, OwnPVKept DEF CallCustody
  <2>. QED
    BY <1>5, <2>4, <2>5
<1>. QED
  BY <1>2, <1>4, <1>5 DEF BondVolume, Answered

\* Provision stores a volume that is no longer there only if the claim is gone too.
LEMMA StoreVolumeKept ==
  ASSUME OneCaller, TypeOK, CustodyInv, NEW p \in Procs, NEW c \in Claims, StoreVolume(p, c)
  PROVE  CustodyInv'
<1>. USE TypeParts, ClusterAssumption
<1>1. /\ At(p, c, "store") /\ ~At(p, c, "idle") /\ call[p][c].pc \notin Before \cup {"wait"}
      /\ call' = Return(p, c) /\ UNCHANGED <<claim, helper, owner, pods, listed, seen>>
  BY DEF StoreVolume, At, Before
<1>2. PICK v \in Vols : v = call[p][c].vol
  BY <1>1, RunningVolume
<1>3. /\ owner[v] = c /\ pv[v] \in PVType /\ pv[v].state # "none"
      /\ claim[c].status # "absent" /\ claim[c].vol = v
  BY <1>1, <1>2, RunningVolume DEF CustodyInv, CallCustody, VolumeRetained, At, Patched
<1>4. Keeps(call', p, c) /\ CallCustody(p, c)'
  BY <1>1, ReturnFacts, ReturnedKept
<1>5. CASE PVExists(v)
  BY <1>1, <1>2, <1>4, <1>5, CallOnlyKept DEF StoreVolume
<1>6. CASE ~PVExists(v)
  <2>1. Gone(c)
    <3>1. pv[v].state = "live" \/ Gone(c)
      BY <1>3 DEF CustodyInv, ClaimCustody, VolumeKept
    <3>. QED
      BY <1>6, <3>1 DEF PVExists
  <2>2. /\ pv'[v].state = "phantom" /\ pv'[v].ref = c
        /\ \A w \in Vols : w # v => pv'[w] = pv[w]
    <3>1. pv \in [Vols -> PVType]
      BY DEF ClusterTypeOK
    <3>2. ASSUME NEW x \in PVType
          PROVE  LET y == [x EXCEPT !.state = "phantom", !.policy = "Retain", !.ref = c]
                 IN  y.state = "phantom" /\ y.ref = c
      BY DEF PVType
    <3>3. pv' = [pv EXCEPT ![v] = [@ EXCEPT !.state = "phantom",
                                            !.policy = "Retain", !.ref = c]]
      BY <1>2, <1>6 DEF StoreVolume
    <3>. QED
      BY <1>3, <3>1, <3>2, <3>3
  <2>3. PVCustody(v)'
    BY <1>1, <1>3, <2>1, <2>2 DEF PVCustody, VolumeOwned, InCustody, Gone
  <2>. QED
    BY <1>1, <1>3, <1>4, <2>1, <2>2, <2>3, OwnPVKept
<1>. QED
  BY <1>5, <1>6

\* A failed attempt that leaves a running call idle has ended it.
LEMMA FailAttemptReturns ==
  ASSUME call \in CallMap, NEW p \in Procs, NEW c \in Claims, call[p][c].pc # "idle",
         FailAttempt(p, c)[p][c].pc = "idle"
  PROVE  FailAttempt(p, c)[p][c].vol = None
<1>1. CASE call[p][c].tries + 1 < RetrySteps
  <2>1. FailAttempt(p, c)[p][c] = [call[p][c] EXCEPT !.tries = call[p][c].tries + 1]
    BY <1>1 DEF FailAttempt, CallMap
  <2>2. ASSUME NEW x \in CallType, NEW m
        PROVE  [x EXCEPT !.tries = m].pc = x.pc
    BY DEF CallType
  <2>3. call[p][c] \in CallType
    BY DEF CallMap
  <2>. QED
    BY <2>1, <2>2, <2>3
<1>2. CASE ~(call[p][c].tries + 1 < RetrySteps)
  BY <1>2, ReturnFacts DEF FailAttempt
<1>. QED
  BY <1>1, <1>2

\* The helper pod is nobody's custody, and so is a failed attempt or request.
LEMMA PodsAndErrorsKept ==
  ASSUME OneCaller, TypeOK, CustodyInv, NEW p \in Procs, NEW c \in Claims, NEW r,
         CreatePod(p, c, r) \/ DeletePod(p, c, r) \/ ApiError(p, c)
  PROVE  CustodyInv'
<1>. USE TypeParts
<1>1. UNCHANGED <<claim, helper, owner, pv, seen>> /\ ~At(p, c, "idle")
  BY DEF CreatePod, DeletePod, ApiError, At, clusterVars
<1>2. CASE call' = Return(p, c)
  BY <1>1, <1>2, ReturnFacts, ReturnedKept, CallOnlyKept
<1>3. ASSUME Keeps(call', p, c), call'[p][c].pc # "idle",
             \/ call'[p][c].pc = call[p][c].pc
             \/ At(p, c, "pod") /\ call'[p][c].pc = "watch"
             \/ At(p, c, "unpod") /\ call'[p][c].pc = "retain"
      PROVE  CustodyInv'
  <2>1. /\ call'[p][c].class = call[p][c].class /\ call'[p][c].vol = call[p][c].vol
        /\ call'[p][c].node = call[p][c].node
    BY <1>3 DEF Keeps
  <2>2. CallStarted(p, c)'
    BY <1>1, <2>1, StartedKept
  <2>3. CallOwned(p, c)' /\ VolumeRetained(p, c)'
    <3>1. CallOwned(p, c) /\ VolumeRetained(p, c)
      BY DEF CustodyInv, CallCustody
    <3>2. CallOwned(p, c)'
      BY <1>1, <1>3, <2>1, <3>1 DEF CallOwned, HelperExists, Before, OnHelper, At
    <3>3. VolumeRetained(p, c)'
      BY <1>1, <1>3, <2>1, <3>1 DEF VolumeRetained, Retained, Patched, Gone
    <3>. QED
      BY <3>2, <3>3
  <2>. QED
    BY <1>1, <1>3, <2>2, <2>3, CallOnlyKept DEF CallCustody
<1>4. CASE call' = FailAttempt(p, c)
  <2>1. Keeps(call', p, c) /\ call'[p][c].pc \in {"idle", call[p][c].pc}
    BY <1>4, FailFacts
  <2>2. CASE call'[p][c].pc = "idle"
    <3>1. call'[p][c].vol = None
      BY <1>4, <2>2, <1>1, FailAttemptReturns DEF At
    <3>. QED
      BY <1>1, <2>1, <2>2, <3>1, ReturnedKept, CallOnlyKept
  <2>. QED
    BY <1>3, <2>1, <2>2
<1>5. ASSUME NEW l \in {"watch", "retain"}, call' = Goto(p, c, l),
             \/ At(p, c, "pod") /\ l = "watch"
             \/ At(p, c, "unpod") /\ l = "retain"
      PROVE  CustodyInv'
  BY <1>3, <1>5, GotoFacts
<1>6. CASE /\ At(p, c, "pod")
           /\ call' = [call EXCEPT ![p][c] = [@ EXCEPT !.pc = "watch", !.hasPod = TRUE]]
  <2>1. ASSUME NEW x \in CallType
        PROVE  LET y == [x EXCEPT !.pc = "watch", !.hasPod = TRUE]
               IN  y.pc = "watch" /\ y.class = x.class /\ y.node = x.node /\ y.vol = x.vol
    BY DEF CallType
  <2>2. call[p][c] \in CallType
    BY DEF CallMap
  <2>3. call'[p][c] = [call[p][c] EXCEPT !.pc = "watch", !.hasPod = TRUE]
    BY <1>6 DEF CallMap
  <2>4. \A q \in Procs, d \in Claims : q # p \/ d # c => call'[q][d] = call[q][d]
    BY <1>6 DEF CallMap
  <2>5. Keeps(call', p, c) /\ call'[p][c].pc = "watch"
    BY <2>1, <2>2, <2>3, <2>4 DEF Keeps
  <2>. QED
    BY <1>3, <1>6, <2>5
<1>. QED
  BY <1>2, <1>4, <1>5, <1>6 DEF CreatePod, DeletePod, ApiError, Answered

\* An event is delivered to no call but a waiting one for c.
LEMMA NothingDelivered ==
  ASSUME NEW calls \in CallMap, NEW c \in Claims, NEW h \in HelperType,
         \A q \in Procs : calls[q][c].pc # "wait"
  PROVE  \A q \in Procs, d \in Claims : Delivered(calls, c, h)[q][d] = calls[q][d]
BY DeliveredFacts

\* A step of the call that changes its helper claim and nothing else of the cluster.
LEMMA OwnHelperKept ==
  ASSUME OneCaller, TypeOK, CustodyInv, NEW p \in Procs, NEW c \in Claims,
         ~At(p, c, "idle"), UNCHANGED <<claim, owner, pv, seen>>,
         \A d \in Claims : d # c => helper'[d] = helper[d],
         HelperOwned(c)',
         \A v \in Vols : owner[v] = c => InCustody(v)',
         Keeps(call', p, c), CallCustody(p, c)'
  PROVE  CustodyInv'
<1>1. Elsewhere(c)
  BY DEF Elsewhere, Keeps
<1>2. \A q \in Procs : CallCustody(q, c)'
  BY OthersKept
<1>3. ClaimCustody(c)'
  BY DEF CustodyInv, ClaimCustody, VolumeKept, Gone
<1>4. \A v \in Vols : VolumeOwned(v)'
  BY DEF CustodyInv, PVCustody, VolumeOwned, Gone
<1>. QED
  BY <1>1, <1>2, <1>3, <1>4, ElsewhereKept DEF PVCustody

LEMMA UnfinalizeDeleteKept ==
  ASSUME OneCaller, TypeOK, CustodyInv, NEW p \in Procs, NEW c \in Claims, NEW r,
         UnfinalizeHelper(p, c, r) \/ DeleteHelper(p, c, r)
  PROVE  CustodyInv'
<1>. USE TypeParts
<1>1. /\ ~At(p, c, "idle") /\ call[p][c].pc \in {"unfinalize", "delete"}
      /\ UNCHANGED <<claim, owner, pv, pods, listed, seen>>
  BY DEF UnfinalizeHelper, DeleteHelper, At
<1>2. /\ CallOwned(p, c) /\ VolumeRetained(p, c) /\ HelperOwned(c)
      /\ call[p][c].pc \notin Before \cup {"wait"} /\ call[p][c].vol # None
  BY <1>1 DEF CustodyInv, CallCustody, ClaimCustody, CallOwned, Before
<1>3. helper \in [Claims -> HelperType]
  BY DEF ClusterTypeOK
<1>4. ASSUME NEW new \in CallMap, Keeps(new, p, c), new[p][c].pc # "wait", NEW h \in HelperType,
             call' = new \/ call' = Delivered(new, c, h)
      PROVE  Keeps(call', p, c) /\ call'[p][c] = new[p][c]
  <2>1. \A q \in Procs : new[q][c].pc # "wait"
    BY <1>1, <1>4 DEF OneCaller, Keeps, At
  <2>2. \A q \in Procs, d \in Claims : call'[q][d] = new[q][d]
    BY <1>4, <2>1, NothingDelivered
  <2>. QED
    BY <1>4, <2>2 DEF Keeps
\* The call keeps its volume, and the helper claim its UID.
<1>5. ASSUME NEW new \in CallMap, Keeps(new, p, c),
             \/ new[p][c].pc = "idle" /\ new[p][c].vol = None
             \/ new[p][c].pc = call[p][c].pc /\ new[p][c].vol = call[p][c].vol
             \/ At(p, c, "unfinalize") /\ new[p][c].pc = "delete"
             \/ At(p, c, "delete") /\ new[p][c].pc = "unref",
             NEW h \in HelperType, call' = new \/ call' = Delivered(new, c, h),
             helper'[c].state # "absent" =>
               HelperExists(c) /\ helper'[c].uid = helper[c].uid
      PROVE  Keeps(call', p, c) /\ CallCustody(p, c)'
  <2>1. Keeps(call', p, c) /\ call'[p][c] = new[p][c]
    BY <1>1, <1>4, <1>5
  <2>2. CASE new[p][c].pc = "idle" /\ new[p][c].vol = None
    BY <1>1, <2>1, <2>2, ReturnedKept
  <2>3. CASE ~(new[p][c].pc = "idle" /\ new[p][c].vol = None)
    <3>1. /\ call'[p][c].class = call[p][c].class /\ call'[p][c].vol = call[p][c].vol
          /\ call'[p][c].node = call[p][c].node
          /\ call'[p][c].pc \in {"unfinalize", "delete", "unref"}
      BY <1>1, <1>5, <2>1, <2>3 DEF Keeps, At
    <3>2. CallStarted(p, c)'
      BY <1>1, <3>1, StartedKept
    <3>3. CallOwned(p, c)'
      BY <1>1, <1>2, <1>5, <3>1 DEF CallOwned, HelperExists, Before, OnHelper
    <3>4. VolumeRetained(p, c)'
      BY <1>1, <1>2, <3>1 DEF VolumeRetained, Retained, Patched, Gone
    <3>. QED
      BY <2>1, <3>2, <3>3, <3>4 DEF CallCustody
  <2>. QED
    BY <2>2, <2>3
<1>6. CASE call' = Return(p, c) /\ helper' = helper
  BY <1>1, <1>6, ReturnFacts, ReturnedKept, CallOnlyKept
<1>7. CASE UnfinalizeHelper(p, c, r) /\ ~(call' = Return(p, c) /\ helper' = helper)
  <2>. DEFINE u == [helper[c] EXCEPT !.fin = call[p][c].keep]
  <2>1. PICK h \in {u, NoHelper} :
          /\ helper' = [helper EXCEPT ![c] = h]
          /\ h = u \/ (h = NoHelper /\ helper[c].deleting)
          /\ \/ call' = Delivered(Goto(p, c, "delete"), c, h)
             \/ call' = Delivered(Return(p, c), c, h)
    BY <1>7 DEF UnfinalizeHelper, Answered
  <2>2. HelperExists(c) /\ At(p, c, "unfinalize")
    BY <1>7 DEF UnfinalizeHelper
  <2>3. /\ u \in HelperType /\ u.state = helper[c].state /\ u.uid = helper[c].uid
        /\ u.vol = helper[c].vol /\ u.class = helper[c].class
        /\ u.deleting = helper[c].deleting
    <3>1. call[p][c].keep \in SUBSET Finalizers
      BY DEF CallMap, CallType
    <3>2. ASSUME NEW x \in HelperType, NEW f \in SUBSET Finalizers
          PROVE  LET y == [x EXCEPT !.fin = f]
                 IN  /\ y \in HelperType /\ y.state = x.state /\ y.uid = x.uid
                     /\ y.vol = x.vol /\ y.class = x.class /\ y.deleting = x.deleting
      BY DEF HelperType
    <3>. QED
      BY <1>3, <3>1, <3>2
  <2>. HIDE DEF u
  <2>4. /\ helper'[c] = h /\ h \in HelperType
        /\ \A d \in Claims : d # c => helper'[d] = helper[d]
    BY <1>3, <2>1, <2>3, HelperUpdate
  <2>5. h.state # "absent" => h = u
    BY <2>1 DEF NoHelper
  <2>6. HelperOwned(c)'
    <3>1. CASE h = u
      BY <1>1, <1>2, <2>2, <2>3, <2>4, <3>1 DEF HelperOwned, HelperExists
    <3>2. CASE h = NoHelper
      BY <2>4, <3>2 DEF HelperOwned, HelperExists, NoHelper
    <3>. QED
      BY <2>1, <3>1, <3>2
  <2>7. ASSUME NEW v \in Vols, owner[v] = c
        PROVE  InCustody(v)'
    <3>1. InCustody(v)
      BY DEF CustodyInv, PVCustody
    <3>. QED
      BY <1>1, <2>1, <2>2, <2>3, <2>4, <2>7, <3>1 DEF InCustody, HelperExists
  <2>8. Keeps(call', p, c) /\ CallCustody(p, c)'
    <3>1. /\ Goto(p, c, "delete") \in CallMap /\ Return(p, c) \in CallMap
      BY GotoType, ReturnType DEF PCs
    <3>2. helper'[c].state # "absent" => HelperExists(c) /\ helper'[c].uid = helper[c].uid
      BY <2>2, <2>3, <2>4, <2>5
    <3>3. CASE call' = Delivered(Goto(p, c, "delete"), c, h)
      BY <1>5, <2>2, <2>4, <3>1, <3>2, <3>3, GotoFacts
    <3>4. CASE call' = Delivered(Return(p, c), c, h)
      BY <1>5, <2>4, <3>1, <3>2, <3>4, ReturnFacts
    <3>. QED
      BY <2>1, <3>3, <3>4
  <2>. QED
    BY <1>1, <2>4, <2>6, <2>7, <2>8, OwnHelperKept

<1>8. CASE DeleteHelper(p, c, r)
  <2>. DEFINE h == [helper[c] EXCEPT !.deleting = TRUE,
                                     !.fin = @ \cup {"foregroundDeletion"}]
  <2>1. At(p, c, "delete") /\ call[p][c].pc = "delete"
    BY <1>8 DEF DeleteHelper, At
  <2>2. /\ Goto(p, c, "unref") \in CallMap /\ FailAttempt(p, c) \in CallMap
    BY GotoType, FailAttemptType DEF PCs
  <2>3. /\ Keeps(FailAttempt(p, c), p, c)
        /\ \/ FailAttempt(p, c)[p][c].pc = "idle" /\ FailAttempt(p, c)[p][c].vol = None
           \/ /\ FailAttempt(p, c)[p][c].pc = call[p][c].pc
              /\ FailAttempt(p, c)[p][c].vol = call[p][c].vol
    BY <1>1, FailFacts, FailAttemptReturns DEF Keeps, At
  <2>4. CASE helper' = helper /\ call' = FailAttempt(p, c)
    <3>1. helper[c] \in HelperType
      BY <1>3
    <3>2. Keeps(call', p, c) /\ CallCustody(p, c)'
      BY <1>5, <2>2, <2>3, <2>4, <3>1 DEF HelperExists
    <3>. QED
      BY <1>1, <2>4, <3>2, CallOnlyKept
  <2>5. CASE /\ HelperExists(c) /\ helper' = [helper EXCEPT ![c] = h]
             /\ \/ call' = Delivered(Goto(p, c, "unref"), c, h)
                \/ call' = Delivered(FailAttempt(p, c), c, h)
    <3>1. /\ h \in HelperType /\ h.state = helper[c].state /\ h.uid = helper[c].uid
          /\ h.vol = helper[c].vol /\ h.class = helper[c].class
      <4>1. ASSUME NEW x \in HelperType
            PROVE  LET y == [x EXCEPT !.deleting = TRUE,
                                      !.fin = @ \cup {"foregroundDeletion"}]
                   IN  /\ y \in HelperType /\ y.state = x.state /\ y.uid = x.uid
                       /\ y.vol = x.vol /\ y.class = x.class
        BY DEF HelperType, Finalizers
      <4>. QED
        BY <1>3, <4>1
    <3>. HIDE DEF h
    <3>2. helper'[c] = h /\ \A d \in Claims : d # c => helper'[d] = helper[d]
      BY <1>3, <2>5
    <3>3. HelperOwned(c)'
      BY <1>1, <1>2, <2>5, <3>1, <3>2 DEF HelperOwned, HelperExists
    <3>4. ASSUME NEW v \in Vols, owner[v] = c
          PROVE  InCustody(v)'
      <4>1. InCustody(v)
        BY DEF CustodyInv, PVCustody
      \* The volume of this helper claim is the call's, and under policy Retain.
      <4>2. helper[c].uid = v => pv[v].policy # "Delete"
        BY <1>2, <2>1, <2>5 DEF CallOwned, VolumeRetained, OnHelper, Retained
      <4>. QED
        BY <1>1, <3>4, <4>1, <4>2 DEF InCustody
    <3>5. helper'[c].state # "absent" => HelperExists(c) /\ helper'[c].uid = helper[c].uid
      BY <2>5, <3>1, <3>2
    <3>6. Keeps(call', p, c) /\ CallCustody(p, c)'
      <4>1. CASE call' = Delivered(Goto(p, c, "unref"), c, h)
        BY <1>5, <2>1, <2>2, <3>1, <3>5, <4>1, GotoFacts
      <4>2. CASE call' = Delivered(FailAttempt(p, c), c, h)
        BY <1>5, <2>2, <2>3, <3>1, <3>5, <4>2
      <4>. QED
        BY <2>5, <4>1, <4>2
    <3>. QED
      BY <1>1, <3>2, <3>3, <3>4, <3>6, OwnHelperKept
  <2>. QED
    BY <1>8, <2>4, <2>5 DEF DeleteHelper, Answered
<1>. QED
  BY <1>6, <1>7, <1>8

LEMMA CreateHelperKept ==
  ASSUME OneCaller, TypeOK, CustodyInv, NEW p \in Procs, NEW c \in Claims, NEW r,
         CreateHelper(p, c, r)
  PROVE  CustodyInv'
<1>. USE TypeParts, ClusterAssumption
<1>1. At(p, c, "create") /\ ~At(p, c, "idle") /\ UNCHANGED <<claim, pv, pods, listed, seen>>
  BY DEF CreateHelper, At
<1>2. call[p][c].class \in Classes /\ call[p][c].vol = None
  BY <1>1 DEF CustodyInv, CallCustody, CallStarted, CallOwned, At, Before
<1>3. /\ Keeps(call', p, c)
      /\ \/ call'[p][c].pc = "idle" /\ call'[p][c].vol = None
         \/ call'[p][c].pc \in {"pod", "watch"} /\ call'[p][c].vol = None
  <2>1. call' = Return(p, c) \/ \E l \in {"pod", "watch"} : call' = Goto(p, c, l)
    BY DEF CreateHelper, Answered, Claimed
  <2>. QED
    BY <1>2, <2>1, ReturnFacts, GotoFacts
<1>4. CallCustody(p, c)'
  <2>1. CASE call'[p][c].pc = "idle" /\ call'[p][c].vol = None
    BY <1>1, <2>1, ReturnedKept
  <2>2. CASE call'[p][c].pc \in {"pod", "watch"} /\ call'[p][c].vol = None
    <3>1. CallStarted(p, c)'
      BY <1>1, <1>3, <2>2, StartedKept DEF Keeps
    <3>. QED
      BY <2>2, <3>1
      DEF CallCustody, CallOwned, VolumeRetained, Before, OnHelper, Retained, Patched
  <2>. QED
    BY <1>3, <2>1, <2>2
<1>5. CASE helper' = helper /\ owner' = owner
  BY <1>1, <1>3, <1>4, <1>5, CallOnlyKept
<1>6. ASSUME NEW w \in FreshUIDs, ~HelperExists(c),
             owner' = [owner EXCEPT ![w] = c],
             \A d \in Claims : d # c => helper'[d] = helper[d],
             helper'[c].state = "pending", helper'[c].uid = w, helper'[c].vol = None,
             helper'[c].class = call[p][c].class
      PROVE  CustodyInv'
  <2>1. w \in Vols /\ owner[w] = None /\ owner \in [Vols -> Claims \cup {None}]
    BY <1>6 DEF FreshUIDs, ClusterTypeOK
  <2>2. pv[w].state = "none"
    BY <2>1 DEF CustodyInv, PVCustody, VolumeOwned
  <2>3. owner'[w] = c /\ \A v \in Vols : v # w => owner'[v] = owner[v]
    BY <1>6, <2>1
  <2>4. Elsewhere(c)
    BY <1>1, <1>3, <1>6, <2>1, <2>3 DEF Elsewhere, Keeps
  <2>5. ClaimCustody(c)'
    <3>1. HelperOwned(c)'
      BY <1>2, <1>6, <2>1, <2>3 DEF HelperOwned, HelperExists
    <3>2. VolumeKept(c)'
      <4>1. claim[c].vol # None => claim[c].vol \in Vols /\ claim[c].vol # w
        BY <2>1, OwnVolumes
      <4>. QED
        BY <1>1, <2>3, <4>1 DEF CustodyInv, ClaimCustody, VolumeKept, Gone
    <3>. QED
      BY <3>1, <3>2 DEF ClaimCustody
  <2>6. ASSUME NEW v \in Vols, owner'[v] = c
        PROVE  PVCustody(v)'
    <3>1. CASE v = w
      BY <1>1, <2>2, <3>1 DEF PVCustody, VolumeOwned, InCustody
    <3>2. CASE v # w
      BY <1>1, <1>6, <2>3, <2>6, <3>2
      DEF CustodyInv, PVCustody, VolumeOwned, InCustody, HelperExists, Gone
    <3>. QED
      BY <3>1, <3>2
  <2>7. \A q \in Procs : CallCustody(q, c)'
    BY <1>1, <1>3, <1>4, OthersKept
  <2>. QED
    BY <2>4, <2>5, <2>6, <2>7, ElsewhereKept
<1>7. ASSUME NEW w, ~HelperExists(c), NEW n,
             helper' = [helper EXCEPT ![c] =
                          [state |-> "pending", uid |-> w, vol |-> None,
                           class |-> call[p][c].class, node |-> n,
                           deleting |-> FALSE, fin |-> {"pvc-protection"}]]
      PROVE  /\ \A d \in Claims : d # c => helper'[d] = helper[d]
             /\ helper'[c].state = "pending" /\ helper'[c].uid = w /\ helper'[c].vol = None
             /\ helper'[c].class = call[p][c].class
  BY <1>7 DEF ClusterTypeOK
<1>8. CASE ~(helper' = helper /\ owner' = owner)
  <2>1. PICK w \in FreshUIDs :
          /\ owner' = [owner EXCEPT ![w] = c]
          /\ helper' = [helper EXCEPT ![c] =
               [state |-> "pending", uid |-> w, vol |-> None,
                class |-> call[p][c].class,
                node |-> IF Method = "pod" THEN None ELSE call[p][c].node,
                deleting |-> FALSE, fin |-> {"pvc-protection"}]]
    BY <1>8 DEF CreateHelper
  <2>2. ~HelperExists(c)
    BY <1>8 DEF CreateHelper
  <2>. QED
    BY <1>6, <1>7, <2>1, <2>2
<1>. QED
  BY <1>5, <1>8

LEMMA BondClaimKept ==
  ASSUME Separate, OneCaller, TypeOK, CustodyInv, NEW p \in Procs, NEW c \in Claims, NEW r,
         BondClaim(p, c, r)
  PROVE  CustodyInv'
<1>. USE TypeParts
<1>1. /\ At(p, c, "bondClaim") /\ call[p][c].pc \notin Before \cup {"wait"}
      /\ ~At(p, c, "idle") /\ UNCHANGED <<helper, owner, pv, pods, listed, seen>>
  BY DEF BondClaim, At, Before
<1>2. PICK v \in Vols : v = call[p][c].vol
  BY <1>1, RunningVolume
<1>3. /\ owner[v] = c /\ pv[v].state # "none"
      /\ pv[v].policy = "Retain" /\ (pv[v].state = "live" \/ Gone(c))
  BY <1>1, <1>2, RunningVolume DEF CustodyInv, CallCustody, VolumeRetained, At, Retained
<1>4. CASE call' = Return(p, c) /\ claim' = claim
  BY <1>1, <1>4, ReturnFacts, ReturnedKept, CallOnlyKept
<1>5. ASSUME NEW k, claim' = [claim EXCEPT ![c] = [@ EXCEPT !.vol = v, !.class = k]],
             \/ call' = Return(p, c)
             \/ \E l \in {"bondVolume", "store"} : call' = Goto(p, c, l)
      PROVE  CustodyInv'
  <2>1. /\ claim'[c].vol = v /\ claim'[c].status = claim[c].status
        /\ \A d \in Claims : d # c => claim'[d] = claim[d]
    <3>1. claim \in [Claims -> ClaimType]
      BY DEF ClusterTypeOK
    <3>2. ASSUME NEW x \in ClaimType
          PROVE  LET y == [x EXCEPT !.vol = v, !.class = k]
                 IN  y.vol = v /\ y.status = x.status
      BY DEF ClaimType
    <3>. QED
      BY <1>5, <3>1, <3>2
  <2>2. Keeps(call', p, c) /\ CallCustody(p, c)'
    <3>1. CASE call' = Return(p, c)
      BY <1>1, <2>1, <3>1, ReturnFacts, ReturnedKept
    <3>2. ASSUME NEW l \in {"bondVolume", "store"}, call' = Goto(p, c, l)
          PROVE  Keeps(call', p, c) /\ CallCustody(p, c)'
      <4>1. /\ Keeps(call', p, c) /\ call'[p][c].pc = l
            /\ call'[p][c].class = call[p][c].class /\ call'[p][c].vol = v
            /\ call'[p][c].node = call[p][c].node
        BY <1>2, <3>2, GotoFacts DEF Keeps
      <4>2. CallStarted(p, c)'
        BY <1>1, <2>1, <4>1, StartedKept
      <4>3. CallOwned(p, c)' /\ VolumeRetained(p, c)'
        BY <1>1, <1>3, <2>1, <4>1, ClusterAssumption
        DEF CallOwned, VolumeRetained, Before, OnHelper, Retained, Patched, Gone
      <4>. QED
        BY <4>1, <4>2, <4>3 DEF CallCustody
    <3>. QED
      BY <1>5, <3>1, <3>2
  <2>3. Elsewhere(c)
    BY <1>1, <2>1, <2>2 DEF Elsewhere, Keeps
  <2>4. ClaimCustody(c)'
    BY <1>1, <1>3, <2>1
    DEF CustodyInv, ClaimCustody, HelperOwned, HelperExists, VolumeKept, Gone
  <2>5. ASSUME NEW w \in Vols, owner'[w] = c PROVE PVCustody(w)'
    BY <1>1, <2>1, <2>5
    DEF CustodyInv, PVCustody, VolumeOwned, InCustody, HelperExists, Gone
  <2>6. \A q \in Procs : CallCustody(q, c)'
    BY <1>1, <2>1, <2>2, OthersKept
  <2>. QED
    BY <2>3, <2>4, <2>5, <2>6, ElsewhereKept
\* Only c itself is stored under the name of c.
<1>6. \A t \in Stored(c) : t = c
  BY DEF Stored, Separate
<1>. QED
  BY <1>2, <1>4, <1>5, <1>6 DEF BondClaim, Answered

-----------------------------------------------------------------------------
(* Steps of the controller, of the cluster, and faults *)

\* A process that fills its caches anew or drops its calls keeps the custody of every
\* object, whoever else is in calls.
LEMMA RestartKept ==
  ASSUME TypeOK, CustodyInv, UNCHANGED <<claim, helper, owner, pv>>,
         \A q \in Procs, c \in Claims :
           /\ call'[q][c] \in {call[q][c], IdleCall}
           /\ seen'[q][c] \in {seen[q][c], NodeToProvision(c)}
  PROVE  CustodyInv'
<1>1. ASSUME NEW q \in Procs, NEW c \in Claims
      PROVE  CallCustody(q, c)'
  <2>1. CallCustody(q, c)
    BY DEF CustodyInv
  <2>2. seen'[q][c] # None => claim[c].status # "absent"
    BY <2>1 DEF CallCustody, CallStarted, NodeToProvision, ToProvision, Live
  <2>3. CASE call'[q][c] = call[q][c]
    BY <2>1, <2>2, <2>3
    DEF CallCustody, CallStarted, CallOwned, VolumeRetained, At, HelperExists, Gone
  <2>4. CASE call'[q][c] = IdleCall
    BY <2>2, <2>4
    DEF CallCustody, CallStarted, CallOwned, VolumeRetained, At, Before, OnHelper, Retained,
        Patched, IdleCall
  <2>. QED
    BY <2>3, <2>4
<1>2. \A c \in Claims : ClaimCustody(c)'
  BY DEF CustodyInv, ClaimCustody, HelperOwned, VolumeKept, HelperExists, Gone
<1>3. \A v \in Vols : PVCustody(v)'
  BY DEF CustodyInv, PVCustody, VolumeOwned, InCustody, HelperExists, Gone
<1>. QED
  BY <1>1, <1>2, <1>3 DEF CustodyInv

LEMMA CachesKept ==
  ASSUME TypeOK, CustodyInv, NEW p \in Procs,
         \/ Crash(p)
         \/ \E c \in Claims : SyncClaim(p, c) \/ SyncHelper(p, c)
  PROVE  CustodyInv'
<1>1. CASE Crash(p)
  BY <1>1, RestartKept DEF Crash, clusterVars, TypeOK
<1>2. ASSUME NEW c \in Claims, SyncClaim(p, c)
      PROVE  CustodyInv'
  BY <1>2, RestartKept DEF SyncClaim, clusterVars, TypeOK
<1>3. ASSUME NEW c \in Claims, SyncHelper(p, c)
      PROVE  CustodyInv'
  BY <1>3, RestartKept DEF SyncHelper, clusterVars
<1>. QED
  BY <1>1, <1>2, <1>3

\* A call that starts has nothing yet; what other processes do for the claim stays theirs.
LEMMA StartKept ==
  ASSUME TypeOK, CustodyInv, NEW p \in Procs, NEW c \in Claims, Start(p, c)
  PROVE  CustodyInv'
<1>. USE TypeParts
<1>0. CallCustody(p, c)
  BY DEF CustodyInv
<1>1. UNCHANGED <<claim, helper, owner, pv, seen>> /\ At(p, c, "idle")
  BY DEF Start, clusterVars
<1>2. seen[p][c] \in Nodes
  <2>1. seen[p][c] \in Nodes \cup {None}
    BY DEF TypeOK
  <2>2. seen[p][c] # None
    BY DEF Start
  <2>. QED
    BY <2>1, <2>2
<1>3. PICK k \in Classes :
        call' = [call EXCEPT ![p][c] =
                   [@ EXCEPT !.pc = "lookup", !.class = k, !.node = seen[p][c]]]
  BY <1>2, ProvisionerAssumption DEF Start
<1>4. /\ call'[p][c].pc = "lookup" /\ call'[p][c].class = k
      /\ call'[p][c].node = seen[p][c] /\ call'[p][c].vol = call[p][c].vol
  <2>1. ASSUME NEW x \in CallType, NEW n
        PROVE  LET y == [x EXCEPT !.pc = "lookup", !.class = k, !.node = n]
               IN  y.pc = "lookup" /\ y.class = k /\ y.node = n /\ y.vol = x.vol
    BY DEF CallType
  <2>2. call[p][c] \in CallType
    BY DEF CallMap
  <2>3. call'[p][c] = [call[p][c] EXCEPT !.pc = "lookup", !.class = k, !.node = seen[p][c]]
    BY <1>3 DEF CallMap
  <2>. QED
    BY <2>1, <2>2, <2>3
<1>5. call[p][c].vol = None
  BY <1>0, <1>1 DEF CallCustody, CallOwned, At, Before
<1>6. CallCustody(p, c)'
  BY <1>0, <1>1, <1>2, <1>4, <1>5, ClusterAssumption
  DEF CallCustody, CallStarted, CallOwned, VolumeRetained, At, Before, OnHelper, Retained,
      Patched
<1>7. \A q \in Procs, d \in Claims : q # p \/ d # c => call'[q][d] = call[q][d]
  BY <1>3 DEF CallMap
<1>8. \A q \in Procs : CallCustody(q, c)'
  <2>1. ASSUME NEW q \in Procs, q # p
        PROVE  CallCustody(q, c)'
    BY <1>1, <1>7, <2>1
    DEF CustodyInv, CallCustody, CallStarted, CallOwned, VolumeRetained, At, HelperExists,
        Gone
  <2>. QED
    BY <1>6, <2>1
<1>9. ClaimCustody(c)'
  BY <1>1 DEF CustodyInv, ClaimCustody, HelperOwned, VolumeKept, HelperExists, Gone
<1>10. \A v \in Vols : PVCustody(v)'
  BY <1>1 DEF CustodyInv, PVCustody, VolumeOwned, InCustody, HelperExists, Gone
<1>11. Elsewhere(c)
  BY <1>1, <1>7 DEF Elsewhere
<1>. QED
  BY <1>8, <1>9, <1>10, <1>11, ElsewhereKept

\* A claim that is created, annotated or deleted keeps its volume.
LEMMA UserStepKept ==
  ASSUME TypeOK, CustodyInv, NEW c \in Claims,
         UNCHANGED <<helper, owner, pv, call, seen>>,
         \A d \in Claims : d # c => claim'[d] = claim[d],
         claim'[c].vol = claim[c].vol,
         claim[c].status # "absent" => claim'[c].status # "absent",
         Gone(c) => Gone(c)'
  PROVE  CustodyInv'
<1>1. Elsewhere(c)
  BY DEF Elsewhere
<1>2. ASSUME NEW q \in Procs PROVE CallCustody(q, c)'
  <2>1. CallCustody(q, c)
    BY DEF CustodyInv
  <2>. QED
    BY <2>1 DEF CallCustody, CallStarted, CallOwned, VolumeRetained, At, HelperExists, Gone
<1>3. ClaimCustody(c)'
  BY DEF CustodyInv, ClaimCustody, HelperOwned, VolumeKept, HelperExists, Gone
<1>4. ASSUME NEW v \in Vols, owner'[v] = c PROVE PVCustody(v)'
  BY <1>4 DEF CustodyInv, PVCustody, VolumeOwned, InCustody, HelperExists, Gone
<1>. QED
  BY <1>1, <1>2, <1>3, <1>4, ElsewhereKept

\* A step of a controller that changes one volume, not its policy, and takes its
\* asset away only when the claim of its owner is gone.
LEMMA ClusterPVKept ==
  ASSUME TypeOK, CustodyInv, NEW c \in Claims, NEW v \in Vols, owner[v] = c,
         UNCHANGED <<claim, helper, owner, call, seen>>,
         \A w \in Vols : w # v => pv'[w] = pv[w],
         pv[v].state # "none" => pv'[v].policy = pv[v].policy,
         pv[v].state = "live" => pv'[v].state = "live" \/ Gone(c),
         pv'[v].state # "none",
         PVCustody(v)'
  PROVE  CustodyInv'
<1>1. Elsewhere(c)
  BY DEF Elsewhere
<1>2. ASSUME NEW q \in Procs PROVE CallCustody(q, c)'
  <2>1. CallCustody(q, c)
    BY DEF CustodyInv
  <2>2. call[q][c].vol # None => call[q][c].vol \in Vols
    BY OwnVolumes
  <2>3. CallStarted(q, c)'
    BY <2>1 DEF CallCustody, CallStarted, At
  <2>4. CallOwned(q, c)'
    BY <2>1, <2>2 DEF CallCustody, CallOwned, HelperExists
  <2>5. VolumeRetained(q, c)'
    <3>1. call[q][c].pc \in Retained => call[q][c].vol # None
      BY <2>1 DEF CallCustody, CallOwned, Retained, Before
    <3>. QED
      BY <2>1, <2>2, <3>1 DEF CallCustody, CallOwned, VolumeRetained, Gone
  <2>. QED
    BY <2>3, <2>4, <2>5 DEF CallCustody
<1>3. ClaimCustody(c)'
  <2>1. ClaimCustody(c)
    BY DEF CustodyInv
  <2>2. claim[c].vol # None => claim[c].vol \in Vols
    <3>1. claim[c] \in ClaimType
      BY DEF TypeOK, ClusterTypeOK
    <3>. QED
      BY <3>1 DEF ClaimType
  <2>3. HelperOwned(c)'
    BY <2>1 DEF ClaimCustody, HelperOwned, HelperExists
  <2>4. VolumeKept(c)'
    BY <2>1, <2>2 DEF ClaimCustody, VolumeKept, Gone
  <2>. QED
    BY <2>3, <2>4 DEF ClaimCustody
<1>4. ASSUME NEW w \in Vols PROVE PVCustody(w)'
  <2>1. CASE w # v
    BY <2>1 DEF CustodyInv, PVCustody, VolumeOwned, InCustody, HelperExists, Gone
  <2>. QED
    BY <2>1
<1>. QED
  BY <1>1, <1>2, <1>3, <1>4, ElsewhereKept

LEMMA UsersKept ==
  ASSUME TypeOK, CustodyInv, NEW c \in Claims,
         \/ \E p \in Procs : Reschedule(p, c)
         \/ (CreateClaim(c) \/ SelectNode(c) \/ DeleteClaim(c)) /\ UNCHANGED callVars
  PROVE  CustodyInv'
<1>1. claim \in [Claims -> ClaimType]
  BY DEF TypeOK, ClusterTypeOK
<1>2. UNCHANGED <<helper, owner, pv, call, seen>>
  BY DEF Reschedule, CreateClaim, SelectNode, DeleteClaim, callVars
<1>3. ASSUME NEW x \in ClaimType
      PROVE  /\ [x EXCEPT !.status = "live"].status = "live"
             /\ [x EXCEPT !.status = "live"].vol = x.vol
             /\ [x EXCEPT !.status = "deleted"].status = "deleted"
             /\ [x EXCEPT !.status = "deleted"].vol = x.vol
             /\ \A n : /\ [x EXCEPT !.node = n].vol = x.vol
                       /\ [x EXCEPT !.node = n].status = x.status
  BY DEF ClaimType
<1>4. CASE CreateClaim(c)
  BY <1>1, <1>2, <1>3, <1>4, UserStepKept DEF CreateClaim, Gone
<1>5. CASE DeleteClaim(c)
  BY <1>1, <1>2, <1>3, <1>5, UserStepKept DEF DeleteClaim, Gone
<1>6. CASE (\E p \in Procs : Reschedule(p, c)) \/ SelectNode(c)
  <2>1. PICK n : claim' = [claim EXCEPT ![c].node = n]
    BY <1>6 DEF Reschedule, SelectNode
  <2>2. /\ claim'[c].vol = claim[c].vol /\ claim'[c].status = claim[c].status
        /\ \A d \in Claims : d # c => claim'[d] = claim[d]
    BY <1>1, <1>3, <2>1
  <2>. QED
    BY <1>2, <2>2, UserStepKept DEF Gone
<1>. QED
  BY <1>4, <1>5, <1>6

LEMMA BackendKept ==
  ASSUME TypeOK, CustodyInv, NEW c \in Claims, BackendProvision(c), UNCHANGED callVars
  PROVE  CustodyInv'
<1>. USE ClusterAssumption
<1>1. UNCHANGED <<claim, helper, owner, call, seen>>
  BY DEF BackendProvision, callVars
<1>2. HelperExists(c) /\ ~helper[c].deleting
  BY DEF BackendProvision, HelperExists
<1>3. PICK w \in Vols : w = helper[c].uid
  BY <1>2 DEF CustodyInv, ClaimCustody, HelperOwned
<1>4. owner[w] = c /\ pv[w].state = "none"
  BY <1>2, <1>3 DEF CustodyInv, ClaimCustody, HelperOwned, BackendProvision
<1>5. /\ pv'[w].state = "live" /\ pv'[w].ref = w
      /\ \A v \in Vols : v # w => pv'[v] = pv[v]
  BY <1>3 DEF BackendProvision, TypeOK, ClusterTypeOK
<1>6. PVCustody(w)'
  BY <1>1, <1>2, <1>3, <1>4, <1>5 DEF PVCustody, VolumeOwned, InCustody, HelperExists
<1>. QED
  BY <1>1, <1>4, <1>5, <1>6, ClusterPVKept

\* A volume without claimRef is not under policy Delete, so that it does not matter
\* to its custody who takes it.
LEMMA RebindKept ==
  ASSUME TypeOK, CustodyInv, NEW c \in Claims, UNCHANGED callVars,
         RebindHelper(c) \/ BindUser(c)
  PROVE  CustodyInv'
<1>. USE ClusterAssumption
<1>1. UNCHANGED <<claim, helper, owner, call, seen>>
  BY DEF RebindHelper, BindUser, callVars
<1>2. ClaimCustody(c)
  BY DEF CustodyInv
<1>3. pv \in [Vols -> PVType]
  BY DEF TypeOK, ClusterTypeOK
<1>4. ASSUME NEW v \in Vols, NEW f, owner[v] = c, PVExists(v), pv[v].ref = None,
             pv' = [pv EXCEPT ![v].ref = f],
             f = v \/ (f = c /\ Live(c))
      PROVE  CustodyInv'
  <2>1. /\ pv'[v].state = pv[v].state /\ pv'[v].policy = pv[v].policy /\ pv'[v].ref = f
        /\ \A w \in Vols : w # v => pv'[w] = pv[w]
    <3>1. ASSUME NEW x \in PVType
          PROVE  LET y == [x EXCEPT !.ref = f]
                 IN  y.state = x.state /\ y.policy = x.policy /\ y.ref = f
      BY DEF PVType
    <3>. QED
      BY <1>3, <1>4, <3>1
  <2>2. VolumeOwned(v) /\ InCustody(v)
    BY DEF CustodyInv, PVCustody
  <2>3. VolumeOwned(v)'
    BY <1>1, <1>4, <2>1, <2>2 DEF VolumeOwned, Gone, Live
  <2>4. InCustody(v)'
    BY <1>1, <1>4, <2>1, <2>2 DEF InCustody
  <2>5. pv[v].state # "none"
    BY <1>4 DEF PVExists
  <2>. QED
    BY <1>1, <1>4, <2>1, <2>3, <2>4, <2>5, ClusterPVKept DEF PVCustody
<1>5. CASE RebindHelper(c)
  <2>1. HelperExists(c) /\ helper[c].vol = helper[c].uid
    BY <1>2, <1>5 DEF RebindHelper, HelperExists, ClaimCustody, HelperOwned
  <2>2. helper[c].uid \in Vols /\ owner[helper[c].uid] = c
    BY <1>2, <2>1 DEF ClaimCustody, HelperOwned
  <2>. QED
    BY <1>4, <1>5, <2>1, <2>2 DEF RebindHelper
<1>6. CASE BindUser(c)
  <2>1. claim[c].vol \in Vols /\ owner[claim[c].vol] = c
    <3>1. claim[c] \in ClaimType
      BY DEF TypeOK, ClusterTypeOK
    <3>. QED
      BY <1>2, <1>6, <3>1 DEF BindUser, ClaimCustody, VolumeKept, ClaimType
  <2>. QED
    BY <1>4, <1>6, <2>1 DEF BindUser
<1>. QED
  BY <1>5, <1>6

\* The backend reclaims a volume only when its owner's claim is gone.
LEMMA ReclaimedGone ==
  ASSUME TypeOK, CustodyInv, NEW v \in Vols, Reclaim(v)
  PROVE  owner[v] \in Claims /\ Gone(owner[v])
<1>. USE ClusterAssumption
<1>1. VolumeOwned(v) /\ InCustody(v) /\ pv[v].state = "live" /\ pv[v].policy = "Delete"
  BY DEF CustodyInv, PVCustody, Reclaim
<1>2. owner[v] \in Claims
  BY <1>1 DEF VolumeOwned
<1>3. Gone(owner[v])
  <2>1. CASE pv[v].ref = owner[v]
    <3>1. ~Live(owner[v]) /\ claim[owner[v]].status # "absent"
      BY <1>1, <1>2, <2>1 DEF Reclaim, RefHeld, VolumeOwned
    <3>2. claim[owner[v]] \in ClaimType
      BY <1>2 DEF TypeOK, ClusterTypeOK
    <3>. QED
      BY <3>1, <3>2 DEF ClaimType, Live, Gone
  <2>2. CASE pv[v].ref = v /\ HelperExists(owner[v]) /\ helper[owner[v]].uid = v
    <3>1. helper[owner[v]].vol \in {None, v}
      BY <1>2, <2>2 DEF CustodyInv, ClaimCustody, HelperOwned
    <3>2. RefHeld(v)
      BY <1>2, <2>2, <3>1 DEF RefHeld
    <3>. QED
      BY <3>2 DEF Reclaim
  <2>. QED
    BY <1>1, <2>1, <2>2 DEF InCustody
<1>. QED
  BY <1>2, <1>3

LEMMA ReclaimKept ==
  ASSUME TypeOK, CustodyInv, NEW v \in Vols, Reclaim(v), UNCHANGED callVars
  PROVE  CustodyInv'
<1>. USE ClusterAssumption
<1>1. UNCHANGED <<claim, helper, owner, call, seen>>
  BY DEF Reclaim, callVars
<1>2. VolumeOwned(v) /\ InCustody(v) /\ pv[v].state = "live" /\ pv[v].policy = "Delete"
  BY DEF CustodyInv, PVCustody, Reclaim
<1>3. owner[v] \in Claims
  BY <1>2 DEF VolumeOwned
<1>4. Gone(owner[v])
  BY ReclaimedGone
<1>5. /\ pv'[v].state = "gone" /\ pv'[v].policy = pv[v].policy /\ pv'[v].ref = pv[v].ref
      /\ \A w \in Vols : w # v => pv'[w] = pv[w]
  <2>1. ASSUME NEW x \in PVType
        PROVE  LET y == [x EXCEPT !.state = "gone"]
               IN  y.state = "gone" /\ y.policy = x.policy /\ y.ref = x.ref
    BY DEF PVType
  <2>2. pv \in [Vols -> PVType]
    BY DEF TypeOK, ClusterTypeOK
  <2>. QED
    BY <2>1, <2>2 DEF Reclaim
<1>6. PVCustody(v)'
  BY <1>1, <1>2, <1>5 DEF PVCustody, VolumeOwned, InCustody, Gone
<1>7. PICK c \in Claims : c = owner[v]
  BY <1>3
<1>. QED
  BY <1>1, <1>4, <1>5, <1>6, <1>7, ClusterPVKept

\* What a controller does to a helper claim: it is gone at the end of its deletion, or it
\* keeps its UID and class, and if it is bound it is so to its own volume.
HelperChanged(c) ==
  LET h == helper'[c] IN
  /\ HelperExists(c) /\ h \in HelperType
  /\ \/ h = NoHelper /\ helper[c].deleting
     \/ /\ h.state # "absent" /\ h.uid = helper[c].uid /\ h.class = helper[c].class
        /\ h.deleting = helper[c].deleting
        /\ h.vol \in {None, h.uid}
        /\ h.state = "bound" => h.vol = h.uid /\ pv[h.uid].state # "none"

\* Such a change keeps the custody of every object, and a call that waits is told of it.
LEMMA HelperChangeKept ==
  ASSUME TypeOK, CustodyInv, NEW c \in Claims, HelperChanged(c),
         UNCHANGED <<claim, owner, pv, seen>>, call' = Delivered(call, c, helper'[c]),
         \A d \in Claims : d # c => helper'[d] = helper[d]
  PROVE  CustodyInv'
<1>. USE TypeParts, ClusterAssumption
<1>1. PICK w \in Vols : w = helper[c].uid
  BY DEF HelperChanged, CustodyInv, ClaimCustody, HelperOwned
<1>2. owner[w] = c /\ helper[c].class \in Classes
  BY <1>1 DEF HelperChanged, CustodyInv, ClaimCustody, HelperOwned
<1>3. helper'[c].state = "bound" =>
        helper'[c].vol = w /\ helper'[c].uid = w /\ pv[w].state # "none"
  BY <1>1 DEF HelperChanged, NoHelper
<1>4. Elsewhere(c)
  <2>1. ASSUME NEW q \in Procs, NEW d \in Claims, d # c
        PROVE  call'[q][d] = call[q][d]
    BY <2>1, DeliveredFacts DEF HelperChanged
  <2>. QED
    BY <2>1 DEF Elsewhere
<1>5. ASSUME NEW q \in Procs PROVE CallCustody(q, c)'
  <2>1. CallCustody(q, c)
    BY DEF CustodyInv
  <2>2. /\ call'[q][c].pc = call[q][c].pc /\ call'[q][c].class = call[q][c].class
        /\ call'[q][c].node = call[q][c].node
        /\ \/ call'[q][c].vol = call[q][c].vol
           \/ /\ call[q][c].pc = "wait" /\ call'[q][c].vol = helper'[c].vol
              /\ helper'[c].state = "bound"
    BY DeliveredFacts DEF HelperChanged
  <2>3. CallStarted(q, c)'
    BY <2>1, <2>2 DEF CallCustody, CallStarted, At
  <2>4. CallOwned(q, c)'
    <3>1. HelperExists(c)' => helper'[c].uid = helper[c].uid /\ HelperExists(c)
      BY DEF HelperChanged, HelperExists, NoHelper
    <3>2. CASE call'[q][c].vol = call[q][c].vol
      BY <2>1, <2>2, <3>1, <3>2 DEF CallCustody, CallOwned
    <3>3. CASE call[q][c].pc = "wait" /\ call'[q][c].vol = w /\ pv[w].state # "none"
      BY <1>1, <1>2, <2>2, <3>1, <3>3 DEF CallOwned, Before
    <3>. QED
      BY <1>3, <2>2, <3>2, <3>3
  <2>5. VolumeRetained(q, c)'
    BY <2>1, <2>2 DEF CallCustody, VolumeRetained, Retained, Patched, Gone
  <2>. QED
    BY <2>3, <2>4, <2>5 DEF CallCustody
<1>6. ClaimCustody(c)'
  <2>1. HelperOwned(c)'
    BY <1>1, <1>2 DEF HelperChanged, HelperOwned, HelperExists, NoHelper
  <2>. QED
    BY <2>1 DEF CustodyInv, ClaimCustody, VolumeKept, Gone
<1>7. ASSUME NEW v \in Vols, owner'[v] = c PROVE PVCustody(v)'
  <2>1. VolumeOwned(v) /\ InCustody(v)
    BY DEF CustodyInv, PVCustody
  <2>2. VolumeOwned(v)'
    BY <2>1 DEF VolumeOwned, Gone
  <2>3. InCustody(v)'
    BY <1>7, <2>1 DEF InCustody, HelperChanged, HelperExists
  <2>. QED
    BY <2>2, <2>3 DEF PVCustody
<1>. QED
  BY <1>4, <1>5, <1>6, <1>7, ElsewhereKept

\* The persistent-volume controller binds a helper claim to its own volume; claim
\* protection and the garbage collector change its finalizers only, and let it go when
\* it is terminating.
LEMMA WatchedChangeKept ==
  ASSUME Separate, TypeOK, CustodyInv, NEW c \in Claims, WatchedChange(c)
  PROVE  CustodyInv'
<1>. USE TypeParts
<1>1. helper \in [Claims -> HelperType] /\ helper'[c] \in HelperType
  BY ChangeType DEF ClusterTypeOK
<1>2. HelperOwned(c)
  BY DEF CustodyInv, ClaimCustody
<1>3. CASE BindHelper(c)
  <2>1. ASSUME NEW x \in HelperType, NEW w
        PROVE  LET y == [x EXCEPT !.state = "bound", !.vol = w]
               IN  /\ y.state = "bound" /\ y.vol = w /\ y.uid = x.uid
                   /\ y.class = x.class /\ y.deleting = x.deleting
    BY DEF HelperType
  <2>2. /\ helper'[c] = [helper[c] EXCEPT !.state = "bound", !.vol = helper[c].uid]
        /\ \A d \in Claims : d # c => helper'[d] = helper[d]
    BY <1>1, <1>3 DEF BindHelper
  <2>3. HelperExists(c) /\ pv[helper[c].uid].state # "none"
    BY <1>3 DEF BindHelper, HelperExists, PVExists
  <2>4. HelperChanged(c)
    BY <1>1, <2>1, <2>2, <2>3 DEF HelperChanged
  <2>. QED
    BY <1>3, <2>2, <2>4, HelperChangeKept DEF WatchedChange, BindHelper
<1>4. ASSUME NEW f, HelperExists(c), UNCHANGED <<claim, owner, pv>>,
             \/ helper' = [helper EXCEPT ![c] = NoHelper] /\ helper[c].deleting
             \/ helper' = [helper EXCEPT ![c] = [helper[c] EXCEPT !.fin = f]]
      PROVE  CustodyInv'
  <2>1. ASSUME NEW x \in HelperType
        PROVE  LET y == [x EXCEPT !.fin = f]
               IN  /\ y.state = x.state /\ y.vol = x.vol /\ y.uid = x.uid
                   /\ y.class = x.class /\ y.deleting = x.deleting
    BY DEF HelperType
  <2>2. /\ \/ helper'[c] = NoHelper /\ helper[c].deleting
           \/ helper'[c] = [helper[c] EXCEPT !.fin = f]
        /\ \A d \in Claims : d # c => helper'[d] = helper[d]
    BY <1>1, <1>4
  <2>3. HelperChanged(c)
    <3>1. helper[c] \in HelperType
      BY <1>1
    <3>2. CASE helper'[c] = NoHelper /\ helper[c].deleting
      BY <1>1, <1>4, <3>2 DEF HelperChanged
    <3>3. CASE helper'[c] = [helper[c] EXCEPT !.fin = f]
      <4>1. /\ helper'[c].state = helper[c].state /\ helper'[c].vol = helper[c].vol
            /\ helper'[c].uid = helper[c].uid /\ helper'[c].class = helper[c].class
            /\ helper'[c].deleting = helper[c].deleting
        BY <2>1, <3>1, <3>3
      <4>. QED
        BY <1>1, <1>2, <1>4, <4>1 DEF HelperChanged, HelperOwned, HelperExists
    <3>. QED
      BY <2>2, <3>2, <3>3
  <2>. QED
    BY <1>4, <2>2, <2>3, HelperChangeKept DEF WatchedChange
<1>5. CASE Protect(c)
  <2>1. helper' = [helper EXCEPT ![c] = [helper[c] EXCEPT !.fin = @ \cup {"pvc-protection"}]]
    BY <1>1, <1>5 DEF Protect
  <2>. QED
    BY <1>4, <1>5, <2>1 DEF Protect
<1>6. ASSUME NEW f \in Finalizers, DropFinalizer(c, f)
      PROVE  CustodyInv'
  <2>1. \/ helper' = [helper EXCEPT ![c] = NoHelper]
        \/ helper' = [helper EXCEPT ![c] = [helper[c] EXCEPT !.fin = @ \ {f}]]
    BY <1>1, <1>6 DEF DropFinalizer
  <2>2. HelperExists(c)
    BY <1>2, <1>6 DEF DropFinalizer, HelperOwned, NoHelper
  <2>. QED
    BY <1>4, <1>6, <2>1, <2>2 DEF DropFinalizer
<1>. QED
  BY <1>3, <1>5, <1>6 DEF WatchedChange, BindAvailable, Separate

LEMMA PodGoneKept ==
  ASSUME TypeOK, CustodyInv, NEW c \in Claims, PodGone(c), UNCHANGED callVars
  PROVE  CustodyInv'
BY RestartKept DEF PodGone, callVars

-----------------------------------------------------------------------------
(* The theorems *)

LEMMA CustodyInit ==
  ASSUME Init PROVE CustodyInv
<1>1. \A p \in Procs, c \in Claims : CallCustody(p, c)
  BY DEF Init, CallCustody, CallStarted, CallOwned, VolumeRetained, At, Before, OnHelper,
         Retained, Patched, IdleCall
<1>2. \A c \in Claims : ClaimCustody(c)
  BY DEF Init, ClusterInit, ClaimCustody, HelperOwned, VolumeKept, HelperExists, NoHelper
<1>3. \A v \in Vols : PVCustody(v)
  BY DEF Init, ClusterInit, PVCustody, VolumeOwned, InCustody
<1>. QED
  BY <1>1, <1>2, <1>3 DEF CustodyInv

LEMMA CustodyStep ==
  ASSUME Separate, OneCaller, TypeOK, CustodyInv, [Next]_vars
  PROVE  CustodyInv'
<1>1. CASE UNCHANGED vars
  BY <1>1, RestartKept DEF vars, clusterVars, callVars
<1>2. ASSUME NEW p \in Procs, NEW c \in Claims, CallStep(p, c)
      PROVE  CustodyInv'
  BY <1>2, WaitKept, StoreVolumeKept, CreateHelperKept, PodsAndErrorsKept, RetainUnrefKept,
     UnfinalizeDeleteKept, BondClaimKept, BondVolumeKept
  DEF CallStep
<1>3. ASSUME NEW p \in Procs, NEW c \in Claims, ControllerStep(p, c) \/ ApiError(p, c)
      PROVE  CustodyInv'
  BY <1>3, CachesKept, StartKept, UsersKept, PodsAndErrorsKept DEF ControllerStep
<1>4. ASSUME NEW p \in Procs, Crash(p)
      PROVE  CustodyInv'
  BY <1>4, CachesKept
<1>5. ASSUME NEW c \in Claims, ClusterStep(c)
      PROVE  CustodyInv'
  BY <1>5, WatchedChangeKept, UsersKept, BackendKept, RebindKept, PodGoneKept
  DEF ClusterStep
<1>6. ASSUME NEW v \in Vols, Reclaim(v), UNCHANGED callVars
      PROVE  CustodyInv'
  BY <1>6, ReclaimKept
<1>. QED
  BY <1>1, <1>2, <1>3, <1>4, <1>5, <1>6 DEF Next

LEMMA CustodyDoomsNone == CustodyInv => NoDoomedVolume
<1>. SUFFICES ASSUME CustodyInv,
                     NEW v \in Vols, pv[v].state = "live", pv[v].policy = "Delete"
              PROVE  \/ pv[v].ref \in Claims
                     \/ \E c \in Claims : /\ helper[c].uid = pv[v].ref
                                          /\ HelperExists(c)
                                          /\ ~helper[c].deleting
  BY DEF NoDoomedVolume
<1>. QED
  BY DEF CustodyInv, PVCustody, VolumeOwned, InCustody

LEMMA CustodyKeepsBound == CustodyInv => BoundVolumeKept
BY DEF CustodyInv, ClaimCustody, VolumeKept, BoundVolumeKept, Live, Gone

\* For one process, claims of different names and method annotation: at every
\* point of releasePV and bondPVC, and after any error, lost reply, crash and
\* retry, each volume with policy Delete is in the custody of a helper claim that
\* is not terminating or of the claim it was made for.
THEOREM CustodyInvariant == Alone => (Spec => []CustodyInv)
<1>. DEFINE IInv == TypeInv /\ CustodyInv
<1>1. Init => IInv
  BY TypeInit, CustodyInit
<1>2. Alone /\ IInv /\ [Next]_vars => IInv'
  BY TypeStep, CustodyStep DEF TypeInv, Alone, OneCaller
<1>3. IInv => CustodyInv
  OBVIOUS
<1>. HIDE DEF IInv
<1>. SUFFICES ASSUME Alone PROVE Spec => []CustodyInv
  OBVIOUS
<1>4. IInv /\ [Next]_vars => IInv'
  BY <1>2
<1>. QED
  BY <1>1, <1>3, <1>4, PTL DEF Spec

\* Under the same assumptions no step of the hand-over, completed or not, leaves a
\* volume with policy Delete on a helper claim that is on its way out
\* (provisioner.go, releasePV: Retain comes before the deletion of the helper).
THEOREM NoVolumeDoomed == Alone => (Spec => []NoDoomedVolume)
BY CustodyDoomsNone, CustodyInvariant, PTL

\* Under the same assumptions the volume of a live claim is never reclaimed: the
\* user does not lose the storage that bondPVC gave them, whatever fails.
THEOREM BoundVolumesKept == Alone => (Spec => []BoundVolumeKept)
BY CustodyKeepsBound, CustodyInvariant, PTL

=============================================================================
