---------------------------- MODULE MCGraphTopology ----------------------------
(***************************************************************************)
(* Checks GraphTopology against the textbook definitions on every list of  *)
(* at most MaxEdges edges over Keys and one key the graph does not have.    *)
(* The edge list grows one edge at a time, so every prefix is an input too. *)
(***************************************************************************)
EXTENDS GraphTopology

CONSTANTS
    Keys,       \* the node keys of the graph, a sequence
    Stranger,   \* a key an edge may name although no node has it
    MaxEdges    \* bound: longest edge list

ASSUME KeysAssumption == Keys \in Seq({Keys[i] : i \in DOMAIN Keys})

KeysOfFour == <<"a", "b", "c", "d">>

VARIABLE edges

KeySet == {Keys[i] : i \in DOMAIN Keys}

Init == edges = <<>>

AddEdge ==
    /\ Len(edges) < MaxEdges
    /\ \E src, dst \in KeySet \cup {Stranger} : edges' = Append(edges, <<src, dst>>)

Spec == Init /\ [][AddEdge]_edges

EdgeSet == {edges[i] : i \in DOMAIN edges}

\* k is reachable from t: every set that holds t's children and is closed
\* under edges holds k.
Reaches(t, k) ==
    \A S \in SUBSET KeySet :
        /\ \A e \in EdgeSet : e[1] = t => e[2] \in S
        /\ \A e \in EdgeSet : e[1] \in S => e[2] \in S
        => k \in S

IsDag ==
    /\ \A i, j \in DOMAIN Keys : Keys[i] = Keys[j] => i = j
    /\ \A e \in EdgeSet : e[1] \in KeySet /\ e[2] \in KeySet
    /\ \A i, j \in DOMAIN edges : edges[i] = edges[j] => i = j
    /\ \A k \in KeySet : ~Reaches(k, k)

(* The gate of every graph write, assert_valid_graph, lets a list through   *)
(* exactly when it is a DAG over the known keys without repeated edges.     *)
GateAdmitsExactlyDags == GraphFault(Keys, edges) = "none" <=> IsDag

\* Every key once, and no edge points backwards.
OrderIsTopological(order) ==
    /\ Len(order) = Len(Keys)
    /\ ToSet(order) = KeySet
    /\ \A e \in EdgeSet : \A i, j \in DOMAIN order :
         order[i] = e[1] /\ order[j] = e[2] => i < j

\* The keys reachable from t, never t.
DescendantsAreReachable(t) == Descendants(Keys, edges, t) = {k \in KeySet : Reaches(t, k)}

\* A key is a root exactly when it has no parent, and k is a child of each parent.
ParentsAgreeWithRoots(k, parents, roots) ==
    /\ k \in ToSet(roots) <=> parents[k] = <<>>
    /\ ToSet(parents[k]) \X {k} \subseteq EdgeSet
    /\ Len(parents[k]) = Cardinality({e \in EdgeSet : e[2] = k})

(* On a graph the gate lets through, what the engine and a rollback read    *)
(* off it is that graph: topological_order meets parents before children,   *)
(* descendants are what a rollback must invalidate, and the keys that       *)
(* root_keys feeds with the run's input are those without parents_by_key.   *)
HelpersReadTheDag ==
    GraphFault(Keys, edges) = "none" =>
        /\ OrderIsTopological(TopologicalOrder(Keys, edges))
        /\ \A t \in KeySet :
             /\ DescendantsAreReachable(t)
             /\ ParentsAgreeWithRoots(t, ParentsByKey(Keys, edges), RootKeys(Keys, edges))
================================================================================
