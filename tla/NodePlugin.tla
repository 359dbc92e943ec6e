---------------------------- MODULE NodePlugin ----------------------------
(***************************************************************************)
(* The driver's process on one node (cmd/controller with pkg/csi), the     *)
(* kubelet that registers the driver with what NodeGetInfo answers, and    *)
(* administrators who label nodes.  All other RPCs answer without reading  *)
(* or changing anything.  Processes on the node follow one another; they   *)
(* share the file of the Unix socket, which outlives them.                 *)
(***************************************************************************)
EXTENDS Naturals

CONSTANTS
  Nodes,     \* names of the Node objects
  Here,      \* the node the plugin runs on
  Names,     \* what --node-id or NODE_NAME may hold
  Values,    \* values of the region and zone labels
  None,      \* no value: the label, or the name, is missing or empty
  MaxFaults  \* bound on crashes and API errors

ASSUME PluginAssumption ==
  /\ Here \in Nodes
  /\ None \notin Nodes \cup Values
  /\ MaxFaults \in Nat

VARIABLES
  nodeID,  \* the configured name
  proc,    \* where main is
  socket,  \* the socket file: nobody listens on a "stale" one
  labels,  \* labels[n]: the region and zone labels of node n
  rpc,     \* the kubelet's call of NodeGetInfo
  csinode, \* the driver's entry in the CSINode object: its node id, or None
  faults

vars == <<nodeID, proc, socket, labels, rpc, csinode, faults>>

Keys == {"region", "zone"}

NoCall == [state |-> "idle", id |-> None, segments |-> [k \in Keys |-> None]]

PluginTypeOK ==
  /\ nodeID \in Names
  /\ proc \in {"down", "starting", "cleared", "listening", "serving"}
  /\ socket \in {"none", "live", "stale"}
  /\ socket = "live" <=> proc \in {"listening", "serving"}
  /\ labels \in [Nodes -> [Keys -> Values \cup {None}]]
  /\ rpc \in [state    : {"idle", "called", "answered"},
              id       : Nodes \cup {None},
              segments : [Keys -> Values \cup {None}]]
  /\ csinode \in Nodes \cup {None}
  /\ faults \in 0 .. MaxFaults

Init ==
  /\ nodeID \in Names
  /\ proc = "down"
  /\ socket = "none"
  /\ labels \in [Nodes -> [Keys -> {None}]]
  /\ rpc = NoCall
  /\ csinode = None
  /\ faults = 0

Labelled(n) == n \in Nodes /\ \A k \in Keys : labels[n][k] # None

-----------------------------------------------------------------------------
(* main *)

\* The kubelet starts the container; main ends at once if it has no node name.
Boot ==
  /\ proc = "down"
  /\ nodeID # None
  /\ proc' = "starting"
  /\ UNCHANGED <<nodeID, socket, labels, rpc, csinode, faults>>

\* (faulty) the file of an earlier process is left
ParseEndpointOnly ==
  /\ proc = "starting"
  /\ proc' = "cleared"
  /\ UNCHANGED <<nodeID, socket, labels, rpc, csinode, faults>>

\* ParseEndpoint removes the socket file.
ParseEndpoint ==
  /\ proc = "starting"
  /\ proc' = "cleared"
  /\ socket' = "none"
  /\ UNCHANGED <<nodeID, labels, rpc, csinode, faults>>

\* Listen fails if there is a file, and main exits.
Listen ==
  /\ proc = "cleared"
  /\ IF socket = "none"
       THEN socket' = "live" /\ proc' = "listening"
       ELSE proc' = "down" /\ UNCHANGED socket
  /\ UNCHANGED <<nodeID, labels, rpc, csinode, faults>>

\* (faulty) the endpoint is parsed again, for the log
ServeOnNothing ==
  /\ proc = "listening"
  /\ proc' = "serving"
  /\ socket' = "none"
  /\ UNCHANGED <<nodeID, labels, rpc, csinode, faults>>

\* The services are registered and served; connections made before have waited.
Serve ==
  /\ proc = "listening"
  /\ proc' = "serving"
  /\ UNCHANGED <<nodeID, socket, labels, rpc, csinode, faults>>

\* The process dies.  Nobody removes its socket file.
Crash ==
  /\ faults < MaxFaults
  /\ proc # "down"
  /\ faults' = faults + 1
  /\ proc' = "down"
  /\ socket' = IF socket = "live" THEN "stale" ELSE socket
  /\ rpc' = IF rpc.state = "called" THEN NoCall ELSE rpc
  /\ UNCHANGED <<nodeID, labels, csinode>>

-----------------------------------------------------------------------------
(* NodeGetInfo *)

Answer(n) ==
  /\ rpc.state = "called"
  /\ proc = "serving"
  /\ rpc' = [state |-> "answered", id |-> n, segments |-> labels[n]]
  /\ UNCHANGED <<nodeID, proc, socket, labels, csinode, faults>>

\* (faulty) a node needs a region or a zone
NodeGetInfoPartly ==
  /\ nodeID \in Nodes /\ \E k \in Keys : labels[nodeID][k] # None
  /\ Answer(nodeID)

\* The Node object is read by the configured name; its region and zone are answered.
NodeGetInfo == Labelled(nodeID) /\ Answer(nodeID)

\* There is no Node of that name, a label is missing, or the request fails.
NodeGetInfoError ==
  /\ rpc.state = "called"
  /\ proc = "serving"
  /\ \/ ~Labelled(nodeID) /\ UNCHANGED faults
     \/ faults < MaxFaults /\ faults' = faults + 1
  /\ rpc' = NoCall
  /\ UNCHANGED <<nodeID, proc, socket, labels, csinode>>

-----------------------------------------------------------------------------
(* The kubelet and its registrar: until the driver is registered they connect *)
(* to the socket and ask.                                                     *)

Call ==
  /\ rpc.state = "idle"
  /\ socket = "live"
  /\ csinode = None
  /\ rpc' = [NoCall EXCEPT !.state = "called"]
  /\ UNCHANGED <<nodeID, proc, socket, labels, csinode, faults>>

\* The node is given the labels it lacks; a label of another value is a collision,
\* and the call is made again.
Register ==
  LET merged == [k \in Keys |-> IF labels[Here][k] = None THEN rpc.segments[k]
                                                           ELSE labels[Here][k]]
  IN
  /\ rpc.state = "answered"
  /\ rpc' = NoCall
  /\ IF merged = rpc.segments
       THEN /\ labels' = [labels EXCEPT ![Here] = merged]
            /\ csinode' = rpc.id
       ELSE UNCHANGED <<labels, csinode>>
  /\ UNCHANGED <<nodeID, proc, socket, faults>>

\* An administrator sets or removes a label.
SetLabel(n, k) ==
  /\ \E v \in Values \cup {None} : labels' = [labels EXCEPT ![n][k] = v]
  /\ UNCHANGED <<nodeID, proc, socket, rpc, csinode, faults>>

-----------------------------------------------------------------------------
Next ==
  \/ Boot
  \/ ParseEndpoint
  \/ Listen
  \/ Serve
  \/ Crash
  \/ NodeGetInfo
  \/ NodeGetInfoError
  \/ Call
  \/ Register
  \/ \E n \in Nodes, k \in Keys : SetLabel(n, k)

\* The process and the kubelet go on; an error of the API server is a fault.
Fairness ==
  /\ WF_vars(Boot)
  /\ WF_vars(ParseEndpoint)
  /\ WF_vars(Listen)
  /\ WF_vars(Serve)
  /\ WF_vars(NodeGetInfo)
  /\ WF_vars(NodeGetInfoError /\ UNCHANGED faults)
  /\ WF_vars(Call)
  /\ WF_vars(Register)

FairSpec == Init /\ [][Next]_vars /\ Fairness

-----------------------------------------------------------------------------
\* NodeGetInfo answers with both labels or not at all: when the driver becomes known
\* on a node, the node bears the two keys by which getTopologyFromNode describes it,
\* and the id, which CondonNodes will take for a name, is that of a Node, though
\* labels come and go between the answer and the registration.
RegisteredComplete ==
  [][csinode' # csinode => csinode' \in Nodes /\ Labelled(Here)']_vars

\* However often the process dies and leaves its socket file behind, a node that
\* keeps its labels has the driver at last.
RegisteredAtLast ==
  \A r, z \in Values :
    (<>[](labels[Here].region = r /\ labels[Here].zone = z) /\ nodeID = Here)
      => <>(csinode = Here)

=============================================================================
