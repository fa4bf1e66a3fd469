----------------------------------- MODULE Dag ---------------------------------
(***************************************************************************)
(* The graph of a run as its set of edges: what parents_by_key and          *)
(* descendants (graph_validation.py) return, as sets.  TopologyProofs       *)
(* proves that the code's loops compute them on every admitted graph.      *)
(***************************************************************************)
EXTENDS Integers, Sequences

CONSTANTS
    NodeKeys,       \* the keys of the nodes in the run's graph_snapshot
    Edges           \* its edges, pairs <<from, to>>

ASSUME NodesAssumption == NodeKeys # {}
ASSUME EdgesAssumption == Edges \subseteq NodeKeys \X NodeKeys

Parents(k) == {p \in NodeKeys : <<p, k>> \in Edges}

Leaves == {k \in NodeKeys : \A e \in Edges : e[1] # k}

\* Mutant: only the children.
ReachableInOneStep == [t \in NodeKeys |-> {k \in NodeKeys : <<t, k>> \in Edges}]

\* The keys reachable from t: in every set that holds the children of t and is
\* closed under edges.
Reachable ==
    [t \in NodeKeys |->
        {k \in NodeKeys : \A S \in SUBSET NodeKeys :
            /\ \A c \in NodeKeys : <<t, c>> \in Edges => c \in S
            /\ \A e \in Edges : e[1] \in S => e[2] \in S
            => k \in S}]

DescendantsOf(t) == Reachable[t]

\* What a run needs of the order its engine goes through the nodes in.
OrdersNodes(order) ==
    /\ order \in Seq(NodeKeys)
    /\ \A k \in NodeKeys : \E i \in DOMAIN order : order[i] = k
    /\ \A i, j \in DOMAIN order :
         /\ order[i] = order[j] => i = j
         /\ <<order[i], order[j]>> \in Edges => i < j
================================================================================
