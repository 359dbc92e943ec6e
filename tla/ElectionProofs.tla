--------------------------- MODULE ElectionProofs ---------------------------
(***************************************************************************)
(* Theorems about ElectedProvisioner, for every value of its constants.    *)
(* That a second leader is on its way out needs no assumption on the       *)
(* durations; that there is none needs Margin and that no leader hangs.    *)
(***************************************************************************)
EXTENDS ElectedProvisioner, HandoverProofs

ElectedTypeInv == TypeInv /\ ElectionTypeOK /\ overlap \in BOOLEAN

\* Every start has an identity of its own, and the lease names one of them.
Identified ==
  /\ holder <= starts
  /\ \A p \in Procs : mode[p] # "down" => id[p] \in 1 .. starts
  /\ \A p, q \in Procs : mode[p] # "down" /\ mode[q] # "down" /\ id[p] = id[q] => p = q

\* A leader with the lease gives up at most Excess ticks after anybody who waits may take
\* the lease, and so one without it gives up within Excess ticks.
LeaderAhead ==
  \A p \in Procs :
    Running(p) =>
      /\ left[p] <= Term + Delay
      /\ holder # id[p] => left[p] <= Excess
      /\ \A q \in Procs :
           holder = id[p] /\ mode[q] = "waiting" /\ q \notin unseen => left[p] <= left[q] + Excess

\* With Margin, and as long as no leader hangs, a leader has the lease, and gives up before
\* anybody who waits may take it.
LeaderSafe ==
  Margin /\ ~hung =>
    \A p \in Procs :
      Running(p) =>
        /\ holder = id[p]
        /\ \A q \in Procs : mode[q] = "waiting" /\ q \notin unseen => left[p] < left[q]

\* Only a leader has calls.
LeaderCalls ==
  \A p \in Procs, c \in Claims : ~At(p, c, "idle") => Running(p)

LeaseInv  == Identified /\ LeaderAhead /\ LeaderSafe
LeaderInv == LeaseInv /\ LeaderCalls

-----------------------------------------------------------------------------
(* The lease *)

LEMMA TermFacts ==
  /\ Term \in Nat /\ Delay \in Nat /\ LeaseDuration \in Nat /\ MaxStarts \in Nat
  /\ Excess \in Nat
  /\ Term + Delay <= LeaseDuration + Excess
  /\ Margin => Term + Delay < LeaseDuration
  /\ \A d \in 0 .. Delay : Term + d \in 0 .. LeaseDuration + Excess /\ Term + d <= Term + Delay
<1>1. /\ LeaseDuration \in Nat /\ RenewDeadline \in Nat /\ RetryPeriod \in Nat
      /\ Delay \in Nat /\ MaxStarts \in Nat
  BY DurationAssumption DEF DurationsType
<1>. QED
  BY <1>1 DEF Term, Excess, Margin

LEMMA ElectionStepType ==
  ASSUME ElectionTypeOK, NEW p \in Procs,
         Boot(p) \/ Observe(p) \/ Acquire(p) \/ Renew(p) \/ Stop(p)
  PROVE  ElectionTypeOK'
<1>. USE TermFacts DEF ElectionTypeOK
<1>1. CASE Boot(p)
  BY <1>1 DEF Boot, Identity
<1>2. CASE Observe(p)
  BY <1>2 DEF Observe
<1>3. CASE Acquire(p)
  BY <1>3 DEF Acquire, Write
<1>4. CASE Renew(p)
  BY <1>4 DEF Renew, Write
<1>5. CASE Stop(p)
  BY <1>5 DEF Stop
<1>. QED
  BY <1>1, <1>2, <1>3, <1>4, <1>5

LEMMA TickType ==
  ASSUME ElectionTypeOK, Tick
  PROVE  ElectionTypeOK'
<1>1. left' \in [Procs -> 0 .. LeaseDuration + Excess]
  BY TermFacts DEF ElectionTypeOK, Tick
<1>2. hung' \in BOOLEAN
  BY DEF ElectionTypeOK, Tick
<1>. QED
  BY <1>1, <1>2 DEF ElectionTypeOK, Tick

LEMMA IdentifiedKept ==
  ASSUME ElectionTypeOK, Identified, NEW p \in Procs,
         Boot(p) \/ Observe(p) \/ Acquire(p) \/ Renew(p) \/ Stop(p)
  PROVE  Identified'
<1>. USE DEF ElectionTypeOK, Identified
<1>1. CASE Boot(p)
  BY <1>1 DEF Boot, Identity
<1>2. CASE Observe(p)
  BY <1>2 DEF Observe
<1>3. CASE Acquire(p)
  BY <1>3 DEF Acquire, Write
<1>4. CASE Renew(p)
  BY <1>4 DEF Renew, Write
<1>5. CASE Stop(p)
  BY <1>5 DEF Stop
<1>. QED
  BY <1>1, <1>2, <1>3, <1>4, <1>5

\* Who takes the lease of a leader finds it with Excess ticks at most, and by Margin one
\* that hangs.
LEMMA Takeover ==
  ASSUME ElectionTypeOK, LeaseInv, NEW p \in Procs, Acquire(p), NEW q \in Procs, Running(q)
  PROVE  left[q] <= Excess /\ (Margin => hung)
<1>1. mode[p] = "waiting" /\ mode[q] = "running"
  BY DEF Acquire, Running
<1>2. holder = id[q] => holder # 0 /\ holder # id[p]
  BY <1>1 DEF LeaseInv, Identified
<1>3. holder = id[q] => p \notin unseen /\ left[p] = 0
  BY <1>2 DEF Acquire, Expired
<1>4. left[q] <= Excess
  BY <1>1, <1>3, TermFacts DEF LeaseInv, LeaderAhead, ElectionTypeOK
<1>5. ASSUME Margin, ~hung PROVE FALSE
  <2>1. holder = id[q] /\ left[q] < left[p] /\ left[p] = 0
    BY <1>1, <1>3, <1>5 DEF LeaseInv, LeaderSafe
  <2>. QED
    BY <2>1 DEF ElectionTypeOK
<1>. QED
  BY <1>4, <1>5 DEF ElectionTypeOK

LEMMA LeaseKept ==
  ASSUME ElectionTypeOK, LeaseInv, NEW p \in Procs,
         Boot(p) \/ Observe(p) \/ Acquire(p) \/ Renew(p) \/ Stop(p)
  PROVE  LeaderAhead' /\ LeaderSafe'
<1>. USE TermFacts DEF ElectionTypeOK, Running
<1>1. CASE Boot(p)
  <2>1. LeaderAhead'
    BY <1>1 DEF Boot, LeaseInv, LeaderAhead
  <2>2. LeaderSafe'
    BY <1>1 DEF Boot, LeaseInv, LeaderSafe
  <2>. QED
    BY <2>1, <2>2
<1>2. CASE Observe(p)
  <2>1. LeaderAhead'
    BY <1>2 DEF Observe, LeaseInv, LeaderAhead
  <2>2. LeaderSafe'
    BY <1>2 DEF Observe, LeaseInv, LeaderAhead, LeaderSafe
  <2>. QED
    BY <2>1, <2>2
<1>3. CASE Acquire(p)
  <2>1. PICK d \in 0 .. Delay : Write(p, d)
    BY <1>3 DEF Acquire
  <2>2. /\ mode[p] = "waiting" /\ holder' = id[p] /\ id' = id /\ hung' = hung
        /\ left'[p] = Term + d /\ \A q \in Procs : q # p => left'[q] = left[q]
        /\ \A q \in Procs : q # p => q \in unseen'
        /\ \A q \in Procs : q # p => mode'[q] = mode[q]
    BY <1>3, <2>1 DEF Acquire, Write
  <2>3. \A q \in Procs : Running(q) => left[q] <= Excess /\ (Margin => hung)
    BY <1>3, Takeover
  <2>4. LeaderAhead'
    BY <2>2, <2>3 DEF LeaseInv, LeaderAhead
  <2>5. LeaderSafe'
    BY <2>2, <2>3 DEF LeaderSafe
  <2>. QED
    BY <2>4, <2>5
<1>4. CASE Renew(p)
  <2>1. /\ Running(p) /\ holder = id[p] /\ holder' = id[p]
        /\ UNCHANGED <<mode, id, hung>>
        /\ \A q \in Procs : q # p => q \in unseen' /\ left'[q] = left[q]
        /\ left'[p] <= Term + Delay
    BY <1>4 DEF Renew, Write, LeaseInv, LeaderAhead
  <2>2. \A q \in Procs : q # p /\ Running(q) => holder # id[q]
    BY <2>1 DEF LeaseInv, Identified
  <2>3. LeaderAhead'
    BY <2>1, <2>2 DEF LeaseInv, LeaderAhead
  <2>4. LeaderSafe'
    BY <2>1, <2>2 DEF LeaseInv, LeaderSafe
  <2>. QED
    BY <2>3, <2>4
<1>5. CASE Stop(p)
  <2>1. LeaderAhead'
    BY <1>5 DEF Stop, LeaseInv, LeaderAhead
  <2>2. LeaderSafe'
    BY <1>5 DEF Stop, LeaseInv, LeaderSafe
  <2>. QED
    BY <2>1, <2>2
<1>. QED
  BY <1>1, <1>2, <1>3, <1>4, <1>5

\* Time brings a leader and who waits for its lease closer to their ends alike.
LEMMA TickKept ==
  ASSUME ElectionTypeOK, LeaseInv, Tick
  PROVE  LeaseInv'
<1>. USE TermFacts DEF ElectionTypeOK, Running
<1>1. Identified'
  BY DEF Tick, LeaseInv, Identified
<1>2. \A q \in Procs : left'[q] = IF left[q] = 0 THEN 0 ELSE left[q] - 1
  BY DEF Tick
<1>3. LeaderAhead'
  BY <1>2 DEF Tick, LeaseInv, LeaderAhead
<1>4. LeaderSafe'
  <2>. SUFFICES ASSUME Margin, ~hung', NEW p \in Procs, Running(p)
                PROVE  /\ holder = id[p]
                       /\ \A q \in Procs :
                            mode[q] = "waiting" /\ q \notin unseen => left'[p] < left'[q]
    BY DEF LeaderSafe, Tick
  <2>1. ~hung /\ left[p] # 0
    BY DEF Tick, MustGiveUp
  <2>. QED
    BY <1>2, <2>1 DEF LeaseInv, LeaderSafe
<1>. QED
  BY <1>1, <1>3, <1>4 DEF LeaseInv

-----------------------------------------------------------------------------
(* Types *)

LEMMA ProvisionNext == ProvisionStep => Next
BY DEF ProvisionStep, Next

LEMMA ElectedTypeInit == ElectedInit => ElectedTypeInv
<1>1. ElectionInit => ElectionTypeOK
  <2>1. 0 \in 0 .. LeaseDuration + Excess /\ 0 \in 0 .. MaxStarts
    BY TermFacts
  <2>. QED
    BY <2>1 DEF ElectionInit, ElectionTypeOK
<1>. QED
  BY <1>1, TypeInit DEF ElectedInit, ElectedTypeInv

LEMMA LeadType ==
  ASSUME TypeInv, NEW p \in Procs, Lead(p)
  PROVE  TypeInv'
<1>1. listed' \in [Procs -> SUBSET Claims]
  BY DEF TypeInv, Lead, TypeOK
<1>2. seen' \in [Procs -> [Claims -> Nodes \cup {None}]]
  <2>1. \A c \in Claims : NodeToProvision(c) \in Nodes \cup {None}
    BY DEF TypeInv, TypeOK, NodeToProvision, ClusterTypeOK, ClaimType
  <2>. QED
    BY <2>1 DEF TypeInv, Lead, TypeOK
<1>3. TypeOK'
  BY <1>1, <1>2 DEF TypeInv, Lead, TypeOK, ClusterTypeOK, clusterVars
<1>. QED
  BY <1>3 DEF TypeInv, Lead, clusterVars, CallsClassed, HelpersClassed, At

LEMMA ExitType ==
  ASSUME TypeInv, NEW p \in Procs, Exit(p)
  PROVE  TypeInv'
<1>1. call' \in CallMap
  BY IdleCallType DEF TypeInv, TypeOK, Exit, CallMap
<1>2. TypeOK'
  BY <1>1 DEF TypeInv, Exit, TypeOK, CallMap, ClusterTypeOK, clusterVars
<1>3. CallsClassed'
  BY DEF TypeInv, TypeOK, Exit, CallsClassed, At, IdleCall
<1>. QED
  BY <1>2, <1>3 DEF TypeInv, Exit, clusterVars, HelpersClassed

LEMMA ElectedTypeStep == ElectedTypeInv /\ [ElectedNext]_allVars => ElectedTypeInv'
<1>. SUFFICES ASSUME ElectedTypeInv, [ElectedNext]_allVars PROVE ElectedTypeInv'
  OBVIOUS
<1>1. TypeInv /\ ElectionTypeOK
  BY DEF ElectedTypeInv
<1>2. UNCHANGED vars => TypeInv'
  BY <1>1, TypeStep
<1>3. UNCHANGED leaseVars => ElectionTypeOK'
  BY <1>1 DEF leaseVars, ElectionTypeOK
<1>4. overlap' \in BOOLEAN
  BY DEF ElectedNext, allVars, ElectedTypeInv
<1>. SUFFICES TypeInv' /\ ElectionTypeOK'
  BY <1>4 DEF ElectedTypeInv
<1>5. ASSUME NEW p \in Procs, ElectionStep(p)
      PROVE  TypeInv' /\ ElectionTypeOK'
  <2>1. TypeInv'
    BY <1>1, <1>2, <1>5, LeadType, ExitType DEF ElectionStep
  <2>2. ElectionTypeOK'
    BY <1>1, <1>5, ElectionStepType DEF ElectionStep, Lead, Exit
  <2>. QED
    BY <2>1, <2>2
<1>6. CASE Tick /\ UNCHANGED vars
  BY <1>1, <1>2, <1>6, TickType
<1>7. CASE ProvisionStep /\ UNCHANGED leaseVars
  BY <1>1, <1>3, <1>7, ProvisionNext, TypeStep
<1>8. CASE UNCHANGED allVars
  BY <1>2, <1>3, <1>8 DEF allVars
<1>. QED
  BY <1>5, <1>6, <1>7, <1>8 DEF ElectedNext

\* The processes, their lease and what they provision stay well typed: a leader's time
\* never exceeds the lease by more than Excess, and a new leader fills its caches from
\* whatever a dead one left.
THEOREM ElectedTypeCorrect == ElectedSpec => []ElectedTypeOK
<1>1. ElectedTypeInv => ElectedTypeOK
  BY DEF ElectedTypeInv, TypeInv, ElectedTypeOK
<1>. QED
  BY <1>1, ElectedTypeInit, ElectedTypeStep, PTL DEF ElectedSpec

-----------------------------------------------------------------------------
(* One process provisions *)

\* A step of the provisioning begins a call in a leader only.
LEMMA ProvisionCalls ==
  ASSUME TypeOK, LeaderCalls, ProvisionStep, UNCHANGED leaseVars
  PROVE  LeaderCalls'
<1>. SUFFICES ASSUME NEW q \in Procs, NEW d \in Claims, call'[q][d].pc # "idle"
              PROVE  Running(q)
  BY DEF LeaderCalls, At, Running, leaseVars
<1>. USE TypeParts
<1>1. CASE ~At(q, d, "idle")
  BY <1>1 DEF LeaderCalls
<1>2. ASSUME NEW p \in Procs, NEW c \in Claims,
             CallStep(p, c) \/ ApiError(p, c) \/ WatchedChange(c)
      PROVE  Running(q)
  BY <1>1, <1>2, ChoiceKept
<1>3. CASE call' = call
  BY <1>1, <1>3 DEF At
<1>4. ASSUME NEW p \in Procs, NEW c \in Claims, Running(p), Start(p, c)
      PROVE  Running(q)
  <2>1. q # p => call'[q][d] = call[q][d]
    BY <1>4 DEF Start, CallMap
  <2>. QED
    BY <1>1, <1>4, <2>1 DEF At
<1>5. ASSUME NEW p \in Procs, NEW c \in Claims, ControllerStep(p, c)
      PROVE  Start(p, c) \/ call' = call
  BY <1>5 DEF ControllerStep, SyncClaim, SyncHelper, Reschedule, callVars
<1>6. ASSUME NEW c \in Claims, ClusterStep(c)
      PROVE  WatchedChange(c) \/ call' = call
  BY <1>6 DEF ClusterStep, callVars
<1>. QED
  BY <1>2, <1>3, <1>4, <1>5, <1>6 DEF ProvisionStep, callVars

\* A process starts without calls and stops with none left.
LEMMA ElectionCalls ==
  ASSUME ElectedTypeInv, LeaderCalls, NEW p \in Procs, ElectionStep(p)
  PROVE  LeaderCalls'
<1>. USE DEF ElectedTypeInv, TypeInv, TypeOK, ElectionTypeOK, LeaderCalls, Running, At
<1>1. CASE Lead(p)
  BY <1>1 DEF Lead, Acquire
<1>2. CASE Exit(p)
  BY <1>2 DEF Exit, Stop, IdleCall
<1>3. CASE Boot(p) /\ UNCHANGED vars
  BY <1>3 DEF Boot, vars, callVars
<1>4. CASE (Observe(p) \/ Renew(p)) /\ UNCHANGED vars
  BY <1>4 DEF Observe, Renew, vars, callVars
<1>. QED
  BY <1>1, <1>2, <1>3, <1>4 DEF ElectionStep

LEMMA LeaderInit == ElectedInit => LeaderInv
BY DEF ElectedInit, ElectionInit, Init, LeaderInv, LeaseInv, Identified, LeaderAhead,
       LeaderSafe, LeaderCalls, Running, At, IdleCall

LEMMA LeaderStep ==
  ElectedTypeInv /\ LeaderInv /\ [ElectedNext]_allVars => LeaderInv'
<1>. SUFFICES ASSUME ElectedTypeInv, LeaderInv, [ElectedNext]_allVars PROVE LeaderInv'
  OBVIOUS
<1>0. ElectionTypeOK /\ TypeOK /\ LeaseInv /\ LeaderCalls
  BY DEF ElectedTypeInv, TypeInv, LeaderInv
<1>1. UNCHANGED leaseVars => LeaseInv'
  BY <1>0 DEF leaseVars, LeaseInv, Identified, LeaderAhead, LeaderSafe, Running
<1>2. UNCHANGED mode /\ call' = call => LeaderCalls'
  BY <1>0 DEF LeaderCalls, Running, At
<1>3. ASSUME NEW p \in Procs, ElectionStep(p)
      PROVE  LeaderInv'
  <2>1. Boot(p) \/ Observe(p) \/ Acquire(p) \/ Renew(p) \/ Stop(p)
    BY <1>3 DEF ElectionStep, Lead, Exit
  <2>. QED
    BY <1>0, <1>3, <2>1, ElectionCalls, IdentifiedKept, LeaseKept DEF LeaderInv, LeaseInv
<1>4. CASE Tick /\ UNCHANGED vars
  BY <1>0, <1>2, <1>4, TickKept DEF Tick, vars, callVars, LeaderInv
<1>5. CASE ProvisionStep /\ UNCHANGED leaseVars
  BY <1>0, <1>1, <1>5, ProvisionCalls DEF LeaderInv
<1>6. CASE UNCHANGED allVars
  BY <1>1, <1>2, <1>6 DEF allVars, vars, callVars, leaseVars, LeaderInv
<1>. QED
  BY <1>3, <1>4, <1>5, <1>6 DEF ElectedNext

LEMMA OneStays == ElectedTypeInv /\ LeaderInv => OneProvisions
<1>. SUFFICES ASSUME ElectedTypeInv, LeaderInv, NEW p \in Procs, NEW q \in Procs, p # q,
                     Provisioning(p), Provisioning(q)
              PROVE  Leaving(p) \/ Leaving(q)
  BY DEF OneProvisions
<1>1. Running(p) /\ Running(q)
  BY DEF Provisioning, LeaderInv, LeaderCalls
<1>2. holder # id[p] \/ holder # id[q]
  BY <1>1 DEF LeaderInv, LeaseInv, Identified, Running
<1>. QED
  BY <1>1, <1>2 DEF LeaderInv, LeaseInv, LeaderAhead, Leaving

LEMMA HangIsNeeded ==
  ASSUME Margin, ElectedTypeInv, LeaderInv
  PROVE  TwoNeedHang /\ (~OneCaller => hung)
<1>1. ASSUME ~hung, NEW p \in Procs, NEW q \in Procs, Running(p), Running(q)
      PROVE  p = q
  BY <1>1 DEF LeaderInv, LeaseInv, LeaderSafe, Identified, Running
<1>2. hung \in BOOLEAN
  BY DEF ElectedTypeInv, ElectionTypeOK
<1>. QED
  BY <1>1, <1>2 DEF TwoNeedHang, OneCaller, LeaderInv, LeaderCalls

\* main.go:162: of two processes that lead or have a call of Provision left, one has lost the
\* lease and gives up within Excess ticks unless it hangs, for any number of processes,
\* starts and faults and whatever durations the flags have.
THEOREM OneProvisionsAtATime == ElectedSpec => []OneProvisions
BY OneStays, ElectedTypeInit, ElectedTypeStep, LeaderInit, LeaderStep, PTL DEF ElectedSpec

\* main.go:64-66: with flags that leave a leader the time to give up before its lease ends, two
\* processes lead only if one of them hangs.
THEOREM TwoLeadersNeedHang == Margin => (ElectedSpec => []TwoNeedHang)
<1>. SUFFICES ASSUME Margin PROVE ElectedSpec => []TwoNeedHang
  OBVIOUS
<1>1. ElectedTypeInv /\ LeaderInv => TwoNeedHang
  BY HangIsNeeded
<1>. QED
  BY <1>1, ElectedTypeInit, ElectedTypeStep, LeaderInit, LeaderStep, PTL DEF ElectedSpec

-----------------------------------------------------------------------------
(* Custody across changes of the leader *)

\* What holds of the provisioning until two leaders are in calls for one claim at once.
Provisioned == OneCaller /\ CustodyInv /\ OwnersCreated /\ CallsHandOver

UntilOverlap == overlap \/ Provisioned

\* A step of a process's own, the leader's or the cluster's is one of the provisioner, or
\* drops the calls of a process and fills its caches.
LEMMA ElectedSteps ==
  ASSUME ElectedTypeInv, [ElectedNext]_allVars
  PROVE  \/ [Next]_vars
         \/ /\ UNCHANGED clusterVars
            /\ \A q \in Procs, c \in Claims :
                 /\ call'[q][c] \in {call[q][c], IdleCall}
                 /\ seen'[q][c] \in {seen[q][c], NodeToProvision(c)}
<1>1. ASSUME NEW p \in Procs, Lead(p) \/ Exit(p)
      PROVE  /\ UNCHANGED clusterVars
             /\ \A q \in Procs, c \in Claims :
                  /\ call'[q][c] \in {call[q][c], IdleCall}
                  /\ seen'[q][c] \in {seen[q][c], NodeToProvision(c)}
  <2>1. call \in CallMap /\ seen \in [Procs -> [Claims -> Nodes \cup {None}]]
    BY TypeParts DEF ElectedTypeInv, TypeInv, TypeOK
  <2>2. CASE Lead(p)
    BY <2>1, <2>2 DEF Lead
  <2>3. CASE Exit(p)
    BY <2>1, <2>3 DEF Exit, CallMap
  <2>. QED
    BY <1>1, <2>2, <2>3
<1>2. UNCHANGED vars \/ ProvisionStep \/ \E p \in Procs : Lead(p) \/ Exit(p)
  BY DEF ElectedNext, ElectionStep, allVars
<1>. QED
  BY <1>1, <1>2, ProvisionNext

\* Calls that are dropped leave the others where they are.
LEMMA DroppedHandover ==
  ASSUME CallsHandOver, UNCHANGED pv,
         \A p \in Procs, c \in Claims : call'[p][c] \in {call[p][c], IdleCall}
  PROVE  CallsHandOver'
<1>. SUFFICES ASSUME NEW p \in Procs, NEW c \in Claims
              PROVE  CallHandover(p, c)'
  BY DEF CallsHandOver
<1>1. CASE call'[p][c] = call[p][c]
  BY <1>1 DEF CallsHandOver, CallHandover, At
<1>2. CASE call'[p][c] = IdleCall
  BY <1>2 DEF CallHandover, IdleCall, At
<1>. QED
  BY <1>1, <1>2

LEMMA ProvisionedKept ==
  ASSUME Separate, ElectedTypeInv, Provisioned, [ElectedNext]_allVars
  PROVE  /\ CustodyInv' /\ OwnersCreated' /\ CallsHandOver'
         /\ [Ownership!Next]_Ownership!vars
<1>1. TypeOK
  BY DEF ElectedTypeInv, TypeInv
<1>2. CASE [Next]_vars
  <2>1. CustodyInv' /\ OwnersCreated' /\ [Ownership!Next]_Ownership!vars
    BY <1>1, <1>2, CustodyStep, OwnersCreatedStep, OwnershipStep DEF Provisioned
  <2>2. CallsHandOver'
    BY <1>1, <1>2, CallHandoverKept DEF Provisioned, CallsHandOver
  <2>. QED
    BY <2>1, <2>2
<1>3. CASE ~[Next]_vars
  <2>1. /\ UNCHANGED claim /\ UNCHANGED helper /\ UNCHANGED owner /\ UNCHANGED pv
        /\ \A q \in Procs, c \in Claims :
             /\ call'[q][c] \in {call[q][c], IdleCall}
             /\ seen'[q][c] \in {seen[q][c], NodeToProvision(c)}
    BY <1>3, ElectedSteps DEF clusterVars
  <2>2. CustodyInv' /\ CallsHandOver'
    BY <1>1, <2>1, RestartKept, DroppedHandover DEF Provisioned
  <2>3. SameOwners /\ OwnersCreated'
    BY <2>1 DEF SameOwners, OwnersCreated, Provisioned
  <2>. QED
    BY <2>1, <2>2, <2>3, ClaimsAlike, VolumesAlike, NothingMoved
<1>. QED
  BY <1>2, <1>3

LEMMA UntilOverlapInit == ElectedInit => UntilOverlap /\ Ownership!Init
<1>. SUFFICES ASSUME ElectedInit PROVE UntilOverlap /\ Ownership!Init
  OBVIOUS
<1>1. CustodyInv /\ OwnersCreated /\ Ownership!Init
  BY CustodyInit, OwnershipInit DEF ElectedInit
<1>2. OneCaller
  BY DEF ElectedInit, Init, OneCaller, At, IdleCall
<1>3. CallsHandOver
  BY HandoverInit DEF ElectedInit, HandoverInv, CallsHandOver
<1>. QED
  BY <1>1, <1>2, <1>3 DEF UntilOverlap, Provisioned

LEMMA UntilOverlapStep ==
  ASSUME Separate, ElectedTypeInv, UntilOverlap, [ElectedNext]_allVars
  PROVE  UntilOverlap'
<1>1. CASE overlap
  BY <1>1 DEF ElectedNext, allVars, UntilOverlap
<1>2. CASE ~overlap /\ ~overlap'
  <2>1. Provisioned
    BY <1>2 DEF UntilOverlap
  <2>2. OneCaller'
    <3>1. CASE UNCHANGED allVars
      BY <2>1, <3>1 DEF allVars, vars, callVars, Provisioned, OneCaller, At
    <3>2. CASE ElectedNext
      BY <1>2, <3>2, Zenon DEF ElectedNext
    <3>. QED
      BY <3>1, <3>2
  <2>. QED
    BY <2>1, <2>2, ProvisionedKept DEF UntilOverlap, Provisioned
<1>3. CASE overlap'
  BY <1>3 DEF UntilOverlap
<1>. QED
  BY <1>1, <1>2, <1>3

LEMMA UntilOverlapInvariant == Separate => (ElectedSpec => []UntilOverlap)
<1>. SUFFICES ASSUME Separate PROVE ElectedSpec => []UntilOverlap
  OBVIOUS
<1>1. ElectedTypeInv /\ UntilOverlap /\ [ElectedNext]_allVars => UntilOverlap'
  BY UntilOverlapStep
<1>. QED
  BY <1>1, ElectedTypeInit, ElectedTypeStep, UntilOverlapInit, PTL DEF ElectedSpec

\* For any number of processes that elect a leader, any durations, claims of different names
\* and method annotation: until two leaders are in calls for one claim at once, every volume
\* with policy Delete stays in somebody's custody, though leaders hang, die in the middle of
\* releasePV or bondPVC and are replaced by processes that know only what they read.
THEOREM ElectedCustody == Separate => (ElectedSpec => []CustodyUntilOverlap)
<1>1. UntilOverlap => CustodyUntilOverlap
  BY DEF UntilOverlap, Provisioned, CustodyUntilOverlap
<1>. QED
  BY <1>1, UntilOverlapInvariant, PTL

\* As far as that the volume of a live claim is never reclaimed, whichever processes had a
\* part in giving it to the claim.
THEOREM ElectedVolumesKept == Separate => (ElectedSpec => []KeptUntilOverlap)
<1>1. CustodyUntilOverlap => KeptUntilOverlap
  BY CustodyKeepsBound DEF CustodyUntilOverlap, KeptUntilOverlap
<1>. QED
  BY <1>1, ElectedCustody, PTL

\* And as far as that what Provision returns for a live claim is complete, also when the
\* leader that returns it found the work of another half done.
THEOREM ElectedHandovers == Separate => (ElectedSpec => []CompleteUntilOverlap)
<1>1. UntilOverlap => CompleteUntilOverlap
  BY HandoverCompletes DEF UntilOverlap, Provisioned, CompleteUntilOverlap
<1>. QED
  BY <1>1, UntilOverlapInvariant, PTL

\* As long as two leaders are in no calls for one claim at once, the processes together move
\* volumes only as VolumeOwnership allows: a new leader that repeats the steps of the last
\* one gives no claim a second volume and takes none back.
THEOREM ElectedOwnership ==
  Separate => (ElectedSpec /\ []~overlap => ImplementsOwnership)
<1>. SUFFICES ASSUME Separate PROVE ElectedSpec /\ []~overlap => ImplementsOwnership
  OBVIOUS
<1>1. ElectedTypeInv /\ UntilOverlap /\ ~overlap /\ [ElectedNext]_allVars
        => [Ownership!Next]_Ownership!vars
  BY ProvisionedKept DEF UntilOverlap
<1>2. ElectedSpec => []UntilOverlap
  BY UntilOverlapInvariant
<1>. QED
  BY <1>1, <1>2, ElectedTypeInit, ElectedTypeStep, UntilOverlapInit, PTL
  DEF ElectedSpec, ImplementsOwnership, Ownership!Spec

\* With flags that leave a leader the time to give up before its lease ends, the volume of a
\* live claim is lost by processes that hang, if at all: never by any other failure of any
\* number of processes.
THEOREM OnlyHangsLose == Margin /\ Separate => (ElectedSpec => []KeptUnlessHung)
<1>. SUFFICES ASSUME Margin, Separate PROVE ElectedSpec => []KeptUnlessHung
  OBVIOUS
<1>. DEFINE Apart  == ~OneCaller => hung
            Traced == overlap => hung
<1>1. ElectedTypeInv /\ LeaderInv => Apart
  BY HangIsNeeded
<1>2. ElectedInit => Traced
  BY DEF ElectedInit
<1>3. Traced /\ Apart' /\ [ElectedNext]_allVars => Traced'
  <2>. SUFFICES ASSUME Traced, Apart', [ElectedNext]_allVars, overlap'
                PROVE  hung'
    OBVIOUS
  <2>1. hung => hung'
    BY DEF ElectedNext, ElectionStep, Lead, Exit, Boot, Observe, Acquire, Renew, Stop, Tick,
           allVars, leaseVars
  <2>2. overlap \/ ~OneCaller'
    BY Zenon DEF ElectedNext, allVars
  <2>. QED
    BY <2>1, <2>2
<1>4. Traced /\ KeptUntilOverlap => KeptUnlessHung
  BY DEF KeptUntilOverlap, KeptUnlessHung
<1>. HIDE DEF Apart, Traced
<1>. QED
  BY <1>1, <1>2, <1>3, <1>4, ElectedVolumesKept, ElectedTypeInit, ElectedTypeStep,
     LeaderInit, LeaderStep, PTL DEF ElectedSpec

=============================================================================
