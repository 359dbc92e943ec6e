-------------------------- MODULE NodePluginProofs --------------------------
(* Theorems about NodePlugin, for every value of its constants. *)
EXTENDS NodePlugin, TLAPS

\* An answer of NodeGetInfo names a Node object and gives both labels.
AnswersComplete ==
  rpc.state = "answered" => rpc.id \in Nodes /\ \A k \in Keys : rpc.segments[k] # None

PluginInv == PluginTypeOK /\ AnswersComplete

RPCType == [state    : {"idle", "called", "answered"},
            id       : Nodes \cup {None},
            segments : [Keys -> Values \cup {None}]]

LEMMA NoCallType ==
  /\ NoCall \in RPCType /\ NoCall.state = "idle"
  /\ [NoCall EXCEPT !.state = "called"] \in RPCType
  /\ [NoCall EXCEPT !.state = "called"].state = "called"
BY DEF NoCall, RPCType

-----------------------------------------------------------------------------
(* The types *)

LEMMA PluginInit == Init => PluginInv
BY PluginAssumption, NoCallType DEF Init, PluginInv, PluginTypeOK, AnswersComplete, RPCType

\* main: the socket file is live exactly while the process listens on it.
LEMMA MainKept ==
  ASSUME PluginInv, Boot \/ ParseEndpoint \/ Listen \/ Serve
  PROVE  PluginInv'
BY DEF PluginInv, PluginTypeOK, AnswersComplete, Boot, ParseEndpoint, Listen, Serve

LEMMA CrashKept ==
  ASSUME PluginInv, Crash
  PROVE  PluginInv'
<1>1. UNCHANGED <<nodeID, labels, csinode>> /\ proc' = "down" /\ rpc' \in {rpc, NoCall}
  BY DEF Crash
<1>2. faults' \in 0 .. MaxFaults
  BY PluginAssumption DEF Crash, PluginInv, PluginTypeOK
<1>3. socket' \in {"none", "live", "stale"} /\ socket' # "live"
  BY DEF Crash, PluginInv, PluginTypeOK
<1>. QED
  BY <1>1, <1>2, <1>3, NoCallType DEF PluginInv, PluginTypeOK, AnswersComplete, RPCType

\* NodeGetInfo answers what it has read of a node with both labels.
LEMMA AnswerKept ==
  ASSUME PluginInv, NodeGetInfo
  PROVE  PluginInv'
<1>1. /\ UNCHANGED <<nodeID, proc, socket, labels, csinode, faults>>
      /\ nodeID \in Nodes /\ \A k \in Keys : labels[nodeID][k] # None
      /\ rpc' = [state |-> "answered", id |-> nodeID, segments |-> labels[nodeID]]
  BY DEF NodeGetInfo, Answer, Labelled
<1>2. labels[nodeID] \in [Keys -> Values \cup {None}]
  BY <1>1 DEF PluginInv, PluginTypeOK
<1>3. rpc' \in RPCType /\ AnswersComplete'
  BY <1>1, <1>2 DEF RPCType, AnswersComplete
<1>. QED
  BY <1>1, <1>3 DEF PluginInv, PluginTypeOK, RPCType

LEMMA CallKept ==
  ASSUME PluginInv, NodeGetInfoError \/ Call
  PROVE  PluginInv'
<1>1. /\ UNCHANGED <<nodeID, proc, socket, labels, csinode>>
      /\ rpc' \in RPCType /\ rpc'.state # "answered"
  BY NoCallType DEF NodeGetInfoError, Call
<1>2. faults' \in 0 .. MaxFaults
  BY PluginAssumption DEF NodeGetInfoError, Call, PluginInv, PluginTypeOK
<1>. QED
  BY <1>1, <1>2 DEF PluginInv, PluginTypeOK, AnswersComplete, RPCType

\* The kubelet gives the node the answered labels that it lacks.
LEMMA RegisterKept ==
  ASSUME PluginInv, Register
  PROVE  PluginInv'
<1>. DEFINE merged == [k \in Keys |-> IF labels[Here][k] = None THEN rpc.segments[k]
                                                                ELSE labels[Here][k]]
<1>1. /\ UNCHANGED <<nodeID, proc, socket, faults>> /\ rpc' = NoCall
      /\ \/ UNCHANGED <<labels, csinode>>
         \/ labels' = [labels EXCEPT ![Here] = merged] /\ csinode' = rpc.id
  BY DEF Register
<1>2. rpc.id \in Nodes \cup {None} /\ rpc.segments \in [Keys -> Values \cup {None}]
  BY DEF PluginInv, PluginTypeOK
<1>3. labels[Here] \in [Keys -> Values \cup {None}]
  BY PluginAssumption DEF PluginInv, PluginTypeOK
<1>4. merged \in [Keys -> Values \cup {None}]
  BY <1>2, <1>3
<1>. HIDE DEF merged
<1>5. labels' \in [Nodes -> [Keys -> Values \cup {None}]] /\ csinode' \in Nodes \cup {None}
  BY <1>1, <1>2, <1>4 DEF PluginInv, PluginTypeOK
<1>. QED
  BY <1>1, <1>5, NoCallType DEF PluginInv, PluginTypeOK, AnswersComplete, RPCType

LEMMA SetLabelKept ==
  ASSUME PluginInv, NEW n \in Nodes, NEW k \in Keys, SetLabel(n, k)
  PROVE  PluginInv'
<1>1. UNCHANGED <<nodeID, proc, socket, rpc, csinode, faults>>
  BY DEF SetLabel
<1>2. labels' \in [Nodes -> [Keys -> Values \cup {None}]]
  BY DEF SetLabel, PluginInv, PluginTypeOK
<1>. QED
  BY <1>1, <1>2 DEF PluginInv, PluginTypeOK, AnswersComplete

LEMMA PluginStep == PluginInv /\ [Next]_vars => PluginInv'
<1>1. PluginInv /\ UNCHANGED vars => PluginInv'
  BY DEF vars, PluginInv, PluginTypeOK, AnswersComplete
<1>. QED
  BY <1>1, MainKept, CrashKept, AnswerKept, CallKept, RegisterKept, SetLabelKept DEF Next

\* Whatever name the plugin is given, however often its process dies and whatever is done
\* to the labels, the socket file is live exactly while a process listens on it, and
\* what the kubelet registers is a node's name.
THEOREM PluginTypeCorrect == FairSpec => []PluginTypeOK
<1>1. PluginInv => PluginTypeOK
  BY DEF PluginInv
<1>. QED
  BY <1>1, PluginInit, PluginStep, PTL DEF FairSpec

-----------------------------------------------------------------------------
(* The registration *)

LEMMA RegisterComplete ==
  ASSUME PluginInv, [Next]_vars, csinode' # csinode
  PROVE  csinode' \in Nodes /\ Labelled(Here)'
<1>1. Register
  BY DEF Next, vars, Boot, ParseEndpoint, Listen, Serve, Crash, NodeGetInfo, Answer,
         NodeGetInfoError, Call, SetLabel
<1>. DEFINE merged == [k \in Keys |-> IF labels[Here][k] = None THEN rpc.segments[k]
                                                                ELSE labels[Here][k]]
<1>2. /\ rpc.state = "answered" /\ merged = rpc.segments
      /\ labels' = [labels EXCEPT ![Here] = merged] /\ csinode' = rpc.id
  BY <1>1 DEF Register
<1>3. rpc.id \in Nodes /\ \A k \in Keys : rpc.segments[k] # None
  BY <1>2 DEF PluginInv, AnswersComplete
<1>. HIDE DEF merged
<1>4. labels'[Here] = rpc.segments
  BY <1>2, PluginAssumption DEF PluginInv, PluginTypeOK
<1>. QED
  BY <1>2, <1>3, <1>4, PluginAssumption DEF Labelled

\* The driver becomes known on a node only under the name of a Node object, and the node
\* then bears both topology keys, though labels are set and removed between the answer of
\* NodeGetInfo and the registration (node.go, NodeGetInfo).
THEOREM RegistrationsComplete == FairSpec => RegisteredComplete
<1>. DEFINE Complete == csinode' # csinode => csinode' \in Nodes /\ Labelled(Here)'
<1>. SUFFICES FairSpec => [][Complete]_vars
  BY DEF RegisteredComplete
<1>1. PluginInv /\ [Next]_vars => Complete
  BY RegisterComplete
<1>. HIDE DEF Complete
<1>. QED
  BY <1>1, PluginInit, PluginStep, PTL DEF FairSpec

=============================================================================
