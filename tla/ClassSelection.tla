--------------------------- MODULE ClassSelection ---------------------------
(***************************************************************************)
(* HybridProvisioner.getStorageClassFromNode and the topology terms it     *)
(* compares (pkg/provisioner/topology.go): the choice of the backend       *)
(* storage class for one node, while the listed objects change.            *)
(*                                                                         *)
(* Label keys and values are numbers, ordered as strings.Compare orders    *)
(* the strings they stand for.  A topologySegment is a pair <<key, value>>,*)
(* a topologyTerm a sequence of segments.                                  *)
(***************************************************************************)
EXTENDS Naturals, Sequences, SequencesExt, Functions

CONSTANTS
  Names,      \* the storageClasses parameter, a sequence of class names
  Driver,     \* Driver[k]: the provisioner of class k
  Allowed,    \* Allowed[k]: its allowedTopologies, a sequence (OR) of sequences
              \* (AND) of [key, values]
  Keys, Values,
  KeyLists,   \* the lists of topology keys a driver may register on the node
  None

Known == ToSet(Names)
Drivers == {Driver[k] : k \in Known}

\* The API server wants a value in every expression and a key in one expression of a
\* term at most.
ASSUME SelectionAssumption ==
  /\ Keys \subseteq Nat /\ Values \subseteq Nat
  /\ None \notin Values /\ None \notin KeyLists /\ None \notin Known
  /\ None \notin [Drivers -> KeyLists \cup {None}]
  /\ Names \in Seq(Known)
  /\ KeyLists \subseteq Seq(Keys)
  /\ \A k \in Known :
       LET Expressions == [key : Keys, values : Seq(Nat) \ {<<>>}] IN
       /\ Allowed[k] \in Seq(Seq(Expressions))
       /\ \A t \in ToSet(Allowed[k]) : \A i, j \in DOMAIN t : t[i].key = t[j].key => i = j

VARIABLES
  classes,     \* the StorageClass objects that exist
  csiDrivers,  \* the CSIDriver objects that exist
  labels,      \* labels[x]: the value of label x of the node, or None
  csiNode      \* csiNode[d]: the topology keys d registered on the node's
               \* CSINode, or None; csiNode = None: there is no CSINode

vars == <<classes, csiDrivers, labels, csiNode>>

TypeOK ==
  /\ classes \subseteq Known
  /\ csiDrivers \subseteq Drivers
  /\ labels \in [Keys -> Values \cup {None}]
  /\ csiNode = None \/ csiNode \in [Drivers -> KeyLists \cup {None}]

-----------------------------------------------------------------------------
(* topology.go *)

Before(a, b) == a[1] < b[1] \/ (a[1] = b[1] /\ a[2] < b[2])

\* (faulty) the order of construction is kept
sortNot(term) == term

sort(term) ==
  LET p == CHOOSE p \in Bijection(DOMAIN term, DOMAIN term) :
             \A i, j \in DOMAIN term : i < j => ~Before(term[p[j]], term[p[i]])
  IN  [i \in DOMAIN term |-> term[p[i]]]

\* Distribute an expression (a key and the values it may have) over terms.
Distribute(oldTerms, e) ==
  IF oldTerms = {}
    THEN {<< <<e.key, v>> >> : v \in ToSet(e.values)}
    ELSE {Append(t, <<e.key, v>>) : t \in oldTerms, v \in ToSet(e.values)}

\* The terms that the first i expressions of a TopologySelectorTerm give.
TermsOf(selector) ==
  LET terms[i \in 0 .. Len(selector)] ==
        IF i = 0 THEN {} ELSE Distribute(terms[i - 1], selector[i])
  IN  terms

\* The disjunction of conjunctions of disjunctions as one disjunction of terms; in which
\* order they come does not matter to the search for one of them.
flatten(allowed) ==
  {sort(t) : t \in UNION {TermsOf(selector)[Len(selector)] : selector \in ToSet(allowed)}}

getTopologyKeys(d) ==
  IF csiNode[d] = None THEN <<>> ELSE csiNode[d]

isMissingKey(keys) == \E x \in ToSet(keys) : labels[x] = None

getTopologyFromNode(keys) ==
  sort([i \in DOMAIN keys |-> <<keys[i], labels[keys[i]]>>])

\* m segments of t, in their order, are matched so far, or more than t has once the
\* values of a key have differed; k2 is the next segment of the other term.
Match(t, m, k2) ==
  IF m >= Len(t) \/ t[m + 1][1] # k2[1] THEN m
  ELSE IF t[m + 1][2] # k2[2] THEN Len(t) + 1
  ELSE m + 1

Matched(t, other) ==
  LET j[i \in 0 .. Len(other)] == IF i = 0 THEN 0 ELSE Match(t, j[i - 1], other[i])
  IN  j

subset(t, other) == Matched(t, other)[Len(other)] = Len(t)

-----------------------------------------------------------------------------
(* getStorageClassFromNode *)

\* (faulty) the driver's presence on the node alone decides
TopologyAcceptsAny(k) == ~isMissingKey(getTopologyKeys(Driver[k]))

TopologyAccepts(k) ==
  LET keys == getTopologyKeys(Driver[k]) IN
  \/ Allowed[k] = <<>>
  \/ /\ ~isMissingKey(keys)
     /\ \E t \in flatten(Allowed[k]) : subset(t, getTopologyFromNode(keys))

\* A class whose driver has no CSIDriver object is taken to be served anywhere.
DriverAccepts(k) == Driver[k] \notin csiDrivers \/ csiNode[Driver[k]] # None

Accepts(k) == k \in classes /\ TopologyAccepts(k) /\ DriverAccepts(k)

\* (faulty) the last class that is accepted
getLastStorageClassFromNode ==
  LET good == {i \in DOMAIN Names : csiNode # None /\ Accepts(Names[i])}
  IN IF good = {} THEN None ELSE Names[Max(good)]

getStorageClassFromNode ==
  LET good == {i \in DOMAIN Names : csiNode # None /\ Accepts(Names[i])}
  IN IF good = {} THEN None ELSE Names[Min(good)]

-----------------------------------------------------------------------------
(* The objects change. *)

Init ==
  /\ classes = Known
  /\ csiDrivers = {}
  /\ labels = [x \in Keys |-> None]
  /\ csiNode = None

ToggleClass(k) ==
  /\ classes' = IF k \in classes THEN classes \ {k} ELSE classes \cup {k}
  /\ UNCHANGED <<csiDrivers, labels, csiNode>>

ToggleCSIDriver(d) ==
  /\ csiDrivers' = IF d \in csiDrivers THEN csiDrivers \ {d} ELSE csiDrivers \cup {d}
  /\ UNCHANGED <<classes, labels, csiNode>>

SetLabel(x, y) ==
  /\ labels' = [labels EXCEPT ![x] = y]
  /\ UNCHANGED <<classes, csiDrivers, csiNode>>

CreateCSINode ==
  /\ csiNode = None
  /\ csiNode' = [d \in Drivers |-> None]
  /\ UNCHANGED <<classes, csiDrivers, labels>>

DeleteCSINode ==
  /\ csiNode # None
  /\ csiNode' = None
  /\ UNCHANGED <<classes, csiDrivers, labels>>

Register(d, keys) ==
  /\ csiNode # None
  /\ csiNode[d] = None
  /\ csiNode' = [csiNode EXCEPT ![d] = keys]
  /\ UNCHANGED <<classes, csiDrivers, labels>>

Unregister(d) ==
  /\ csiNode # None
  /\ csiNode[d] # None
  /\ csiNode' = [csiNode EXCEPT ![d] = None]
  /\ UNCHANGED <<classes, csiDrivers, labels>>

Next ==
  \/ \E k \in Known : ToggleClass(k)
  \/ \E d \in Drivers : ToggleCSIDriver(d) \/ Unregister(d)
  \/ \E x \in Keys, y \in Values \cup {None} : SetLabel(x, y)
  \/ CreateCSINode \/ DeleteCSINode
  \/ \E d \in Drivers, keys \in KeyLists : Register(d, keys)

Spec == Init /\ [][Next]_vars

-----------------------------------------------------------------------------
(* What is promised *)

\* The node lies in the allowed topology of k: its labels agree with every
\* expression of one of the terms.
Located(k) ==
  \/ Allowed[k] = <<>>
  \/ \E t \in ToSet(Allowed[k]) :
       /\ t # <<>>
       /\ \A e \in ToSet(t) : labels[e.key] \in ToSet(e.values)

\* The driver of k runs on the node and its topology covers what k asks for.
Served(k) ==
  /\ csiNode[Driver[k]] # None
  /\ Allowed[k] # <<>> =>
       /\ \A x \in ToSet(csiNode[Driver[k]]) : labels[x] # None
       /\ \E t \in ToSet(Allowed[k]) :
            /\ t # <<>>
            /\ \A e \in ToSet(t) : /\ e.key \in ToSet(csiNode[Driver[k]])
                                   /\ labels[e.key] \in ToSet(e.values)

\* Flattening, sorting and the one-pass comparison decide exactly whether some
\* term of allowedTopologies holds of the node, whatever the order in which keys
\* were registered and expressions were written.
TopologyExact ==
  csiNode # None =>
    \A k \in Known : csiNode[Driver[k]] # None => (TopologyAccepts(k) <=> Served(k))

\* README.md:54 "The first storage class has the highest priority": no class
\* before the chosen one could have served the node, the chosen one lies in its
\* allowed topology, and its driver runs on the node unless it has no CSIDriver.
FirstServingClass ==
  csiNode # None =>
    LET r == getStorageClassFromNode IN
    /\ \A i \in DOMAIN Names :
         Names[i] \in classes /\ Served(Names[i]) => \E j \in 1 .. i : Names[j] = r
    /\ r # None => /\ r \in classes
                   /\ Located(r)
                   /\ Driver[r] \in csiDrivers => csiNode[Driver[r]] # None

\* A driver that comes up on the node never takes a choice away: it keeps it or
\* moves it to a class earlier in the list.
RegistrationImproves ==
  [][\A d \in Drivers, keys \in KeyLists :
       Register(d, keys) /\ getStorageClassFromNode # None =>
         \E i, j \in DOMAIN Names : /\ i <= j
                                    /\ Names[i] = getStorageClassFromNode'
                                    /\ Names[j] = getStorageClassFromNode]_vars

=============================================================================
