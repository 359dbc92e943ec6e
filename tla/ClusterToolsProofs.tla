------------------------- MODULE ClusterToolsProofs -------------------------
(* Theorems about ClusterTools, for every value of its constants. *)
EXTENDS ClusterTools, TLAPS, FiniteSetTheorems

-----------------------------------------------------------------------------
(* Lists of nodes *)

LEMMA EmptyList == <<>> \in Seq(Nodes) /\ ToSet(<<>>) = {}
BY DEF ToSet

LEMMA RestOfList ==
  ASSUME NEW s \in Seq(Nodes), s # <<>>
  PROVE  /\ Head(s) \in Nodes /\ Tail(s) \in Seq(Nodes)
         /\ ToSet(s) = {Head(s)} \cup ToSet(Tail(s))
<1>1. Len(s) \in Nat \ {0} /\ DOMAIN s = 1 .. Len(s)
  OBVIOUS
<1>2. /\ Tail(s) \in Seq(Nodes) /\ Head(s) = s[1]
      /\ Len(Tail(s)) = Len(s) - 1
      /\ \A i \in 1 .. Len(s) - 1 : Tail(s)[i] = s[i + 1]
  BY <1>1
<1>3. ToSet(s) \subseteq {Head(s)} \cup ToSet(Tail(s))
  <2>1. ASSUME NEW i \in 1 .. Len(s), i # 1
        PROVE  s[i] \in ToSet(Tail(s))
    <3>1. i - 1 \in 1 .. Len(s) - 1 /\ Tail(s)[i - 1] = s[i]
      BY <1>1, <1>2, <2>1
    <3>2. DOMAIN Tail(s) = 1 .. Len(s) - 1
      BY <1>1, <1>2
    <3>. QED
      BY <3>1, <3>2 DEF ToSet
  <2>. QED
    BY <1>1, <1>2, <2>1 DEF ToSet
<1>4. {Head(s)} \cup ToSet(Tail(s)) \subseteq ToSet(s)
  <2>1. DOMAIN Tail(s) = 1 .. Len(s) - 1
    BY <1>1, <1>2
  <2>2. \A i \in 1 .. Len(s) - 1 : i + 1 \in 1 .. Len(s)
    BY <1>1
  <2>. QED
    BY <1>1, <1>2, <2>1, <2>2 DEF ToSet
<1>. QED
  BY <1>1, <1>2, <1>3, <1>4

LEMMA ListAppended ==
  ASSUME NEW s \in Seq(Nodes), NEW n \in Nodes
  PROVE  Append(s, n) \in Seq(Nodes) /\ ToSet(Append(s, n)) = ToSet(s) \cup {n}
<1>1. /\ Append(s, n) \in Seq(Nodes) /\ Len(s) \in Nat /\ Len(Append(s, n)) = Len(s) + 1
      /\ \A i \in 1 .. Len(s) : Append(s, n)[i] = s[i]
      /\ Append(s, n)[Len(s) + 1] = n
  OBVIOUS
<1>2. DOMAIN Append(s, n) = 1 .. Len(s) + 1 /\ DOMAIN s = 1 .. Len(s)
  BY <1>1
<1>. QED
  BY <1>1, <1>2 DEF ToSet

\* What CSINodes may return is a list.
LEMMA ListingIsList ==
  ASSUME NEW list \in SetToAllKPermutations(Nodes)
  PROVE  list \in Seq(Nodes)
<1>1. PICK S \in SUBSET Nodes : list \in SetToSeqs(S)
  BY DEF SetToAllKPermutations
<1>2. Cardinality(S) \in Nat
  BY CordonAssumption, FS_Subset, FS_CardinalityType
<1>3. list \in [1 .. Cardinality(S) -> S]
  BY <1>1 DEF SetToSeqs
<1>. QED
  BY <1>2, <1>3

-----------------------------------------------------------------------------
(* The nodes *)

\* The nodes that an administrator held are none of the caller's own.
HeldApart ==
  /\ HeldStays
  /\ pc = "patch" => todo # <<>> /\ Head(todo) \notin kept
  /\ ToSet(cordonedNodes) \cap kept = {}
  /\ pc = "uncordon" => ToSet(todo) \subseteq ToSet(cordonedNodes)

\* The nodes that CondonNodes has passed are cordoned.
PassedCordoned ==
  /\ WorkIsSafe
  /\ pc \in {"get", "patch"} => ToSet(listed) \subseteq ToSet(todo) \cup unschedulable \cup released

\* Without an error all that is cordoned is held, or on a list to be uncordoned.
CordonedListed ==
  faults = 0 =>
    /\ pc # "failed"
    /\ unschedulable \subseteq held \cup ToSet(IF pc = "uncordon" THEN todo ELSE cordonedNodes)

CordonInv == TypeOK /\ HeldApart /\ PassedCordoned /\ CordonedListed

\* What TypeOK and a list that is not at its end give.
LEMMA NextNode ==
  ASSUME TypeOK, todo # <<>>
  PROVE  /\ Head(todo) \in Nodes /\ Head(todo) \in ToSet(listed)
         /\ Tail(todo) \in Seq(Nodes) /\ ToSet(Tail(todo)) \subseteq ToSet(todo)
         /\ ToSet(todo) = {Head(todo)} \cup ToSet(Tail(todo))
<1>1. todo \in Seq(Nodes)
  BY DEF TypeOK
<1>. QED
  BY <1>1, RestOfList DEF TypeOK

LEMMA CordonInit == Init => CordonInv
BY EmptyList, CordonAssumption
DEF Init, CordonInv, TypeOK, HeldApart, PassedCordoned, CordonedListed, HeldStays, WorkIsSafe

LEMMA CSINodesKept ==
  ASSUME CordonInv, CSINodes
  PROVE  CordonInv'
<1>1. listed' \in Seq(Nodes)
  BY ListingIsList DEF CSINodes
<1>2. ToSet(cordonedNodes) = {} /\ ToSet(cordonedNodes') = {} /\ cordonedNodes' \in Seq(Nodes)
  BY EmptyList DEF CSINodes, CordonInv, TypeOK
<1>3. TypeOK'
  BY <1>1, <1>2 DEF CSINodes, CordonInv, TypeOK
<1>4. HeldApart'
  BY <1>2 DEF CSINodes, HeldApart, HeldStays
<1>5. PassedCordoned'
  BY DEF CSINodes, PassedCordoned, WorkIsSafe
<1>6. CordonedListed'
  BY <1>2 DEF CSINodes, CordonInv, CordonedListed
<1>. QED
  BY <1>3, <1>4, <1>5, <1>6 DEF CordonInv

LEMMA GetNodeKept ==
  ASSUME CordonInv, GetNode
  PROVE  CordonInv'
<1>1. /\ UNCHANGED <<adminVars, cordonedNodes, listed, faults>> /\ todo # <<>> /\ pc = "get"
      /\ \/ Head(todo) \in unschedulable /\ todo' = Tail(todo) /\ pc' = "get"
         \/ Head(todo) \notin unschedulable /\ todo' = todo /\ pc' = "patch"
  BY DEF GetNode
<1>2. /\ Head(todo) \in Nodes /\ Tail(todo) \in Seq(Nodes)
      /\ ToSet(todo) = {Head(todo)} \cup ToSet(Tail(todo))
  BY <1>1, NextNode DEF CordonInv
<1>3. TypeOK'
  BY <1>1, <1>2 DEF CordonInv, TypeOK, adminVars
<1>4. HeldApart'
  BY <1>1, <1>2 DEF CordonInv, HeldApart, HeldStays, adminVars
<1>5. PassedCordoned'
  BY <1>1, <1>2 DEF CordonInv, PassedCordoned, WorkIsSafe, adminVars
<1>6. CordonedListed'
  BY <1>1 DEF CordonInv, CordonedListed, adminVars
<1>. QED
  BY <1>3, <1>4, <1>5, <1>6 DEF CordonInv

LEMMA PatchNodeKept ==
  ASSUME CordonInv, PatchNode
  PROVE  CordonInv'
<1>1. /\ UNCHANGED <<held, kept, released, listed, faults>> /\ pc = "patch" /\ pc' = "get"
      /\ unschedulable' = unschedulable \cup {Head(todo)} /\ todo' = Tail(todo)
      /\ cordonedNodes' = Append(cordonedNodes, Head(todo))
  BY DEF PatchNode
<1>2. todo # <<>> /\ Head(todo) \notin kept
  BY <1>1 DEF CordonInv, HeldApart
<1>3. /\ Head(todo) \in Nodes /\ Tail(todo) \in Seq(Nodes)
      /\ Head(todo) \in ToSet(listed)
      /\ ToSet(todo) = {Head(todo)} \cup ToSet(Tail(todo))
  BY <1>2, NextNode DEF CordonInv
<1>4. /\ cordonedNodes' \in Seq(Nodes)
      /\ ToSet(cordonedNodes') = ToSet(cordonedNodes) \cup {Head(todo)}
  BY <1>1, <1>3, ListAppended DEF CordonInv, TypeOK
<1>5. TypeOK'
  BY <1>1, <1>3, <1>4 DEF CordonInv, TypeOK
<1>6. HeldApart'
  BY <1>1, <1>2, <1>4 DEF CordonInv, HeldApart, HeldStays
<1>7. PassedCordoned'
  BY <1>1, <1>3 DEF CordonInv, PassedCordoned, WorkIsSafe
<1>8. CordonedListed'
  BY <1>1, <1>4 DEF CordonInv, CordonedListed
<1>. QED
  BY <1>5, <1>6, <1>7, <1>8 DEF CordonInv

LEMMA WorkKept ==
  ASSUME CordonInv, CordonReturns \/ Uncordon \/ UncordonReturns
  PROVE  CordonInv'
<1>1. CASE CordonReturns
  BY <1>1, EmptyList
  DEF CordonReturns, CordonInv, TypeOK, HeldApart, PassedCordoned, CordonedListed, HeldStays,
      WorkIsSafe, adminVars
<1>2. CASE Uncordon
  BY <1>2
  DEF Uncordon, CordonInv, TypeOK, HeldApart, PassedCordoned, CordonedListed, HeldStays,
      WorkIsSafe, adminVars
<1>3. CASE UncordonReturns
  BY <1>3, EmptyList
  DEF UncordonReturns, Return, CordonInv, TypeOK, HeldApart, PassedCordoned, CordonedListed,
      HeldStays, WorkIsSafe, adminVars
<1>. QED
  BY <1>1, <1>2, <1>3

LEMMA UncondonNodeKept ==
  ASSUME CordonInv, UncondonNode
  PROVE  CordonInv'
<1>1. /\ UNCHANGED <<held, kept, released, pc, cordonedNodes, listed, faults>>
      /\ pc = "uncordon" /\ todo # <<>>
      /\ unschedulable' = unschedulable \ {Head(todo)} /\ todo' = Tail(todo)
  BY DEF UncondonNode
<1>2. /\ Head(todo) \in Nodes /\ Tail(todo) \in Seq(Nodes)
      /\ ToSet(todo) = {Head(todo)} \cup ToSet(Tail(todo))
  BY <1>1, NextNode DEF CordonInv
<1>3. TypeOK'
  BY <1>1, <1>2 DEF CordonInv, TypeOK
<1>4. HeldApart'
  BY <1>1, <1>2 DEF CordonInv, HeldApart, HeldStays
<1>5. PassedCordoned'
  BY <1>1 DEF PassedCordoned, WorkIsSafe
<1>6. CordonedListed'
  BY <1>1, <1>2 DEF CordonInv, CordonedListed
<1>. QED
  BY <1>3, <1>4, <1>5, <1>6 DEF CordonInv

\* A request that fails ends the call; the nodes it has cordoned are on no list then.
LEMMA ApiErrorKept ==
  ASSUME CordonInv, ApiError
  PROVE  CordonInv'
<1>1. /\ UNCHANGED <<held, kept, released, listed>> /\ todo # <<>>
      /\ pc' = "failed" /\ todo' = <<>> /\ cordonedNodes' = <<>>
      /\ faults < MaxFaults /\ faults' = faults + 1
      /\ \/ UNCHANGED unschedulable
         \/ unschedulable' = unschedulable \cup {Head(todo)}
         \/ pc = "uncordon" /\ unschedulable' = unschedulable \ {Head(todo)}
  BY DEF ApiError, Return, Fault
<1>2. Head(todo) \in Nodes /\ Head(todo) \in ToSet(todo)
  BY <1>1, NextNode DEF CordonInv
<1>3. faults' \in 0 .. MaxFaults /\ faults' # 0
  BY <1>1, CordonAssumption DEF CordonInv, TypeOK
<1>4. TypeOK'
  BY <1>1, <1>2, <1>3, EmptyList DEF CordonInv, TypeOK
<1>5. HeldApart'
  BY <1>1, <1>2, EmptyList DEF CordonInv, HeldApart, HeldStays
<1>6. PassedCordoned' /\ CordonedListed'
  BY <1>1, <1>3 DEF PassedCordoned, WorkIsSafe, CordonedListed
<1>. QED
  BY <1>4, <1>5, <1>6 DEF CordonInv

LEMMA AdminKept ==
  ASSUME CordonInv, NEW n \in Nodes, AdminCordons(n) \/ AdminUncordons(n)
  PROVE  CordonInv'
<1>1. UNCHANGED <<pc, todo, cordonedNodes, listed, faults>>
  BY DEF AdminCordons, AdminUncordons
<1>2. CASE AdminCordons(n)
  BY <1>1, <1>2
  DEF AdminCordons, CordonInv, TypeOK, HeldApart, PassedCordoned, CordonedListed, HeldStays,
      WorkIsSafe
<1>3. CASE AdminUncordons(n)
  BY <1>1, <1>3
  DEF AdminUncordons, CordonInv, TypeOK, HeldApart, PassedCordoned, CordonedListed, HeldStays,
      WorkIsSafe
<1>. QED
  BY <1>2, <1>3

\* The steps of PVWaitDelete and of those who use the volume leave the nodes alone.
LEMMA NodesAlone ==
  ASSUME CordonInv, UNCHANGED nodeVars, faults' \in 0 .. MaxFaults, faults' = 0 => faults = 0
  PROVE  CordonInv'
BY DEF nodeVars, adminVars, CordonInv, TypeOK, HeldApart, PassedCordoned, CordonedListed,
       HeldStays, WorkIsSafe

-----------------------------------------------------------------------------
(* The volume *)

\* A call that an event or a missing volume can end has seen the volume gone; unless a
\* request has failed, so has a call that has answered nil.
GoneSeen ==
  LET call == wait[Caller]
  IN  /\ call.event => call.gone
      /\ call.pc \in {"get", "open", "watch"} /\ ~exists => call.gone
      /\ NilMeansGone

WaitInv == Volume!TypeOK /\ GoneSeen

LEMMA WaitInit == Volume!Init => WaitInv
BY CordonAssumption, ToolsAssumption
DEF Volume!Init, WaitInv, Volume!TypeOK, Volume!WaitType, Volume!Results, GoneSeen, NilMeansGone

\* wait is the one call of Caller.
LEMMA CallChanges ==
  ASSUME Volume!TypeOK, NEW r, wait' = [wait EXCEPT ![Caller] = r]
  PROVE  /\ wait'[Caller] = r
         /\ r \in Volume!WaitType => wait' \in [{Caller} -> Volume!WaitType]
BY DEF Volume!TypeOK

LEMMA CallKept ==
  ASSUME WaitInv, Volume!Call(Caller)
  PROVE  WaitInv'
<1>1. /\ wait' = [wait EXCEPT ![Caller] = [pc |-> "get", event |-> FALSE, gone |-> ~exists]]
      /\ UNCHANGED <<exists, made, faults>>
  BY DEF Volume!Call
<1>2. [pc |-> "get", event |-> FALSE, gone |-> ~exists] \in Volume!WaitType
  BY DEF Volume!WaitType
<1>3. /\ wait'[Caller] = [pc |-> "get", event |-> FALSE, gone |-> ~exists]
      /\ wait' \in [{Caller} -> Volume!WaitType]
  BY <1>1, <1>2, CallChanges DEF WaitInv
<1>4. Volume!TypeOK'
  BY <1>1, <1>3 DEF WaitInv, Volume!TypeOK
<1>5. GoneSeen'
  BY <1>1, <1>3 DEF GoneSeen, NilMeansGone
<1>. QED
  BY <1>4, <1>5 DEF WaitInv

\* A step of the call changes only where it is: what there must be to see it there.
LEMMA GotoKept ==
  ASSUME WaitInv, NEW l, Volume!Goto(Caller, l), UNCHANGED <<exists, made>>,
         l \in {"open", "watch"} \cup Volume!Results,
         wait[Caller].event => l \in {"watch", "nil", "timeout"},
         l \in {"open", "watch"} => wait[Caller].pc \in {"get", "open", "watch"},
         faults' \in 0 .. MaxFaults, faults' = 0 => faults = 0,
         l = "nil" /\ faults' = 0 => wait[Caller].gone
  PROVE  WaitInv'
<1>. DEFINE r == [wait[Caller] EXCEPT !.pc = l]
<1>1. wait[Caller] \in Volume!WaitType
  BY DEF WaitInv, Volume!TypeOK
<1>2. /\ r.pc = l /\ r.event = wait[Caller].event /\ r.gone = wait[Caller].gone
      /\ r \in Volume!WaitType
  BY <1>1 DEF Volume!WaitType
<1>3. wait' = [wait EXCEPT ![Caller] = r]
  BY DEF Volume!Goto, WaitInv, Volume!TypeOK
<1>. HIDE DEF r
<1>4. wait'[Caller] = r /\ wait' \in [{Caller} -> Volume!WaitType]
  BY <1>2, <1>3, CallChanges DEF WaitInv
<1>5. Volume!TypeOK'
  BY <1>2, <1>4 DEF WaitInv, Volume!TypeOK
<1>6. GoneSeen'
  BY <1>2, <1>4 DEF WaitInv, GoneSeen, NilMeansGone, Volume!Results
<1>. QED
  BY <1>5, <1>6 DEF WaitInv

LEMMA FaultCounted ==
  ASSUME faults \in 0 .. MaxFaults, faults < MaxFaults, faults' = faults + 1
  PROVE  faults' \in 0 .. MaxFaults /\ faults' # 0
BY CordonAssumption

LEMMA WaitStepKept ==
  ASSUME WaitInv, Volume!Step(Caller)
  PROVE  WaitInv'
<1>. USE DEF Volume!At, Volume!Results
<1>1. /\ faults \in 0 .. MaxFaults
      /\ wait[Caller].event => wait[Caller].pc \in {"watch", "nil", "timeout"}
  BY DEF WaitInv, Volume!TypeOK
<1>2. CASE Volume!GetVolume(Caller)
  <2>1. /\ wait[Caller].pc = "get" /\ ~wait[Caller].event
        /\ Volume!Goto(Caller, IF exists THEN "open" ELSE "nil")
        /\ UNCHANGED <<exists, made, faults>>
    BY <1>1, <1>2 DEF Volume!GetVolume
  <2>2. CASE exists
    BY <1>1, <2>1, <2>2, GotoKept
  <2>3. CASE ~exists
    BY <1>1, <2>1, <2>3, GotoKept DEF WaitInv, GoneSeen
  <2>. QED
    BY <2>2, <2>3
<1>3. CASE Volume!OpenWatch(Caller)
  BY <1>1, <1>3, GotoKept DEF Volume!OpenWatch
<1>4. CASE Volume!TakeEvent(Caller)
  BY <1>1, <1>4, GotoKept DEF Volume!TakeEvent, WaitInv, GoneSeen
<1>5. CASE Volume!Timeout(Caller)
  BY <1>1, <1>5, GotoKept DEF Volume!Timeout
<1>. QED
  BY <1>2, <1>3, <1>4, <1>5 DEF Volume!Step

LEMMA WaitFailsKept ==
  ASSUME WaitInv, Volume!WaitFails(Caller)
  PROVE  WaitInv' /\ faults' \in 0 .. MaxFaults /\ faults' # 0
<1>. USE DEF Volume!At, Volume!Results
<1>1. /\ faults \in 0 .. MaxFaults
      /\ wait[Caller].event => wait[Caller].pc \in {"watch", "nil", "timeout"}
  BY DEF WaitInv, Volume!TypeOK
<1>2. faults' \in 0 .. MaxFaults /\ faults' # 0
  BY <1>1, FaultCounted
  DEF Volume!WaitFails, Volume!GetFails, Volume!OpenFails, Volume!WatchClosed, Volume!Fault
<1>3. CASE Volume!GetFails(Caller)
  BY <1>1, <1>2, <1>3, GotoKept DEF Volume!GetFails
<1>4. CASE Volume!OpenFails(Caller)
  BY <1>1, <1>2, <1>4, GotoKept DEF Volume!OpenFails
<1>5. CASE Volume!WatchClosed(Caller)
  BY <1>1, <1>2, <1>5, GotoKept DEF Volume!WatchClosed
<1>. QED
  BY <1>2, <1>3, <1>4, <1>5 DEF Volume!WaitFails

LEMMA DeletionKept ==
  ASSUME WaitInv, Volume!DeleteVolume
  PROVE  WaitInv'
<1>. DEFINE r == [wait[Caller] EXCEPT !.event = @ \/ wait[Caller].pc = "watch", !.gone = TRUE]
<1>1. wait[Caller] \in Volume!WaitType
  BY DEF WaitInv, Volume!TypeOK
<1>2. /\ r.pc = wait[Caller].pc /\ r.gone = TRUE
      /\ r.event = (wait[Caller].event \/ wait[Caller].pc = "watch")
      /\ r \in Volume!WaitType
  BY <1>1 DEF Volume!WaitType
<1>3. wait' = [w \in {Caller} |-> r] /\ exists' = FALSE /\ UNCHANGED <<made, faults>>
  BY DEF Volume!DeleteVolume, Volume!At
<1>. HIDE DEF r
<1>4. wait'[Caller] = r /\ wait' \in [{Caller} -> Volume!WaitType]
  BY <1>2, <1>3
<1>5. Volume!TypeOK'
  BY <1>2, <1>3, <1>4 DEF WaitInv, Volume!TypeOK
<1>6. GoneSeen'
  BY <1>2, <1>3, <1>4 DEF GoneSeen, NilMeansGone
<1>. QED
  BY <1>5, <1>6 DEF WaitInv

LEMMA NewVolumeKept ==
  ASSUME WaitInv, Volume!MakeVolume
  PROVE  WaitInv'
BY ToolsAssumption DEF Volume!MakeVolume, WaitInv, Volume!TypeOK, GoneSeen, NilMeansGone

\* The steps at the nodes leave the volume and the call alone.
LEMMA VolumeAlone ==
  ASSUME WaitInv, UNCHANGED volumeVars, faults' \in 0 .. MaxFaults, faults' = 0 => faults = 0
  PROVE  WaitInv'
BY DEF volumeVars, WaitInv, Volume!TypeOK, GoneSeen, NilMeansGone

-----------------------------------------------------------------------------
(* Both together *)

ToolsInv == CordonInv /\ WaitInv

LEMMA ToolsStep ==
  ASSUME ToolsInv, [ToolsNext]_<<vars, volumeVars>>
  PROVE  ToolsInv'
<1>1. CordonInv /\ WaitInv /\ faults \in 0 .. MaxFaults
  BY DEF ToolsInv, CordonInv, TypeOK
\* A step at the nodes that keeps the count of faults, and one that does not.
<1>2. ASSUME CordonInv', UNCHANGED volumeVars, faults' = 0 => faults = 0
      PROVE  ToolsInv'
  <2>1. faults' \in 0 .. MaxFaults
    BY <1>2 DEF CordonInv, TypeOK
  <2>. QED
    BY <1>1, <1>2, <2>1, VolumeAlone DEF ToolsInv
<1>3. ASSUME WaitInv', UNCHANGED nodeVars, faults' = 0 => faults = 0
      PROVE  ToolsInv'
  <2>1. faults' \in 0 .. MaxFaults
    BY <1>3 DEF WaitInv, Volume!TypeOK
  <2>. QED
    BY <1>1, <1>3, <2>1, NodesAlone DEF ToolsInv
<1>4. CASE CSINodes /\ UNCHANGED volumeVars
  <2>1. CordonInv'
    BY <1>1, <1>4, CSINodesKept
  <2>. QED
    BY <1>2, <1>4, <2>1 DEF CSINodes
<1>5. CASE NodeStep /\ UNCHANGED volumeVars
  <2>1. CordonInv'
    BY <1>1, <1>5, GetNodeKept, PatchNodeKept, UncondonNodeKept, WorkKept DEF NodeStep
  <2>2. UNCHANGED faults
    BY <1>5 DEF NodeStep, GetNode, PatchNode, UncondonNode, UncordonReturns
  <2>. QED
    BY <1>2, <1>5, <2>1, <2>2
<1>6. CASE StartWait
  <2>1. CordonInv' /\ WaitInv'
    BY <1>1, <1>6, WorkKept, CallKept DEF StartWait
  <2>. QED
    BY <2>1 DEF ToolsInv
<1>7. CASE Volume!Step(Caller) /\ UNCHANGED nodeVars
  <2>1. WaitInv'
    BY <1>1, <1>7, WaitStepKept
  <2>2. UNCHANGED faults
    BY <1>7
    DEF Volume!Step, Volume!GetVolume, Volume!OpenWatch, Volume!TakeEvent, Volume!Timeout
  <2>. QED
    BY <1>3, <1>7, <2>1, <2>2
<1>8. CASE EndWait
  <2>1. CordonInv'
    BY <1>1, <1>8, WorkKept DEF EndWait
  <2>2. UNCHANGED <<volumeVars, faults>>
    BY <1>8 DEF EndWait, Uncordon
  <2>. QED
    BY <1>2, <2>1, <2>2
<1>9. CASE ApiError /\ UNCHANGED volumeVars
  <2>1. CordonInv'
    BY <1>1, <1>9, ApiErrorKept
  <2>2. faults' # 0
    BY <1>1, <1>9, FaultCounted DEF ApiError, Fault
  <2>. QED
    BY <1>2, <1>9, <2>1, <2>2
<1>10. CASE Volume!WaitFails(Caller) /\ UNCHANGED nodeVars
  BY <1>1, <1>3, <1>10, WaitFailsKept
<1>11. CASE AdminStep /\ UNCHANGED volumeVars
  <2>1. CordonInv'
    BY <1>1, <1>11, AdminKept DEF AdminStep
  <2>2. UNCHANGED faults
    BY <1>11 DEF AdminStep, AdminCordons, AdminUncordons
  <2>. QED
    BY <1>2, <1>11, <2>1, <2>2
<1>12. CASE (Volume!DeleteVolume \/ Volume!MakeVolume) /\ UNCHANGED nodeVars
  <2>1. WaitInv'
    BY <1>1, <1>12, DeletionKept, NewVolumeKept
  <2>2. UNCHANGED faults
    BY <1>12 DEF Volume!DeleteVolume, Volume!MakeVolume
  <2>. QED
    BY <1>3, <1>12, <2>1, <2>2
<1>13. CASE UNCHANGED <<vars, volumeVars>>
  <2>1. UNCHANGED nodeVars /\ UNCHANGED volumeVars /\ UNCHANGED faults
    BY <1>13 DEF vars, nodeVars
  <2>2. CordonInv'
    BY <1>1, <2>1, NodesAlone
  <2>. QED
    BY <1>2, <2>1, <2>2
<1>. QED
  BY <1>4, <1>5, <1>6, <1>7, <1>8, <1>9, <1>10, <1>11, <1>12, <1>13
  DEF ToolsNext, CallerStep, Others

LEMMA ToolsInvariant == ToolsSpec => []ToolsInv
<1>1. ToolsInit => ToolsInv
  BY CordonInit, WaitInit DEF ToolsInit, ToolsInv
<1>2. ToolsInv /\ [ToolsNext]_<<vars, volumeVars>> => ToolsInv'
  BY ToolsStep
<1>. QED
  BY <1>1, <1>2, PTL DEF ToolsSpec

-----------------------------------------------------------------------------
\* The lists and places of CondonNodes, UncondonNodes and PVWaitDelete keep their types:
\* no list holds a node that CSINodes did not return, and an ended call leaves none.
THEOREM ToolsTypeCorrect == ToolsSpec => []ToolsTypeOK
<1>1. ToolsInv => ToolsTypeOK
  BY DEF ToolsInv, CordonInv, WaitInv, ToolsTypeOK
<1>. QED
  BY <1>1, ToolsInvariant, PTL

\* Whatever fails and however often the caller tries again, UncondonNodes never
\* uncordons a node that an administrator has held since before CSINodes: CondonNodes
\* skips what it finds cordoned (nodes.go:61).
THEOREM HeldNodesStay == ToolsSpec => []HeldStays
<1>1. ToolsInv => HeldStays
  BY DEF ToolsInv, CordonInv, HeldApart
<1>. QED
  BY <1>1, ToolsInvariant, PTL

\* While the caller waits for the volume, no node on which the driver ran is open for
\* pods, but for those that an administrator has uncordoned in between.
THEOREM WorkSafe == ToolsSpec => []WorkIsSafe
<1>1. ToolsInv => WorkIsSafe
  BY DEF ToolsInv, CordonInv, PassedCordoned
<1>. QED
  BY <1>1, ToolsInvariant, PTL

\* A caller that has passed the list of CondonNodes on to UncondonNodes, and met no
\* error, leaves no node cordoned that no administrator holds.
THEOREM NoneLeft == ToolsSpec => []NothingLeft
<1>1. ToolsInv => NothingLeft
  BY EmptyList DEF ToolsInv, CordonInv, TypeOK, CordonedListed, NothingLeft
<1>. QED
  BY <1>1, ToolsInvariant, PTL

\* PVWaitDelete answers nil only for a volume that was gone during the call: neither the
\* gap between its Get and its Watch nor a volume made anew misleads it.
THEOREM NilIsGone == ToolsSpec => []NilMeansGone
<1>1. ToolsInv => NilMeansGone
  BY DEF ToolsInv, WaitInv, GoneSeen
<1>. QED
  BY <1>1, ToolsInvariant, PTL

=============================================================================
