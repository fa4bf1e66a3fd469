----------------------------- MODULE GraphTopology -----------------------------
(***************************************************************************)
(* The pure helpers of backend/app/modules/orchestrator/graph_validation.py *)
(* on a graph given as a sequence of node keys and a sequence of edges      *)
(* <<from, to>>, in declaration order, as the code receives them.           *)
(*                                                                         *)
(* Each Python loop is an iteration of a step operator: state number i is   *)
(* what the local variables hold after i turns of the loop.  A loop that    *)
(* pops one key per turn stops by itself, so the state after as many turns  *)
(* as there are keys is its result.                                        *)
(***************************************************************************)
EXTENDS Integers, Sequences, FiniteSets, SequencesExt

(* The items of s at the places P, in the order of s: what a Python loop    *)
(* over s keeps that appends the items it looks for to a list.             *)
Picked(s, P) ==
    LET upto[i \in 0..Len(s)] ==
            IF i = 0 THEN <<>>
            ELSE IF i \in P THEN Append(upto[i - 1], s[i]) ELSE upto[i - 1]
    IN  upto[Len(s)]

\* The children of a key, one entry per edge, in edge order (`adjacency`).
Children(edges, key) ==
    Picked([i \in DOMAIN edges |-> edges[i][2]], {i \in DOMAIN edges : edges[i][1] = key})

ParentsByKey(keys, edges) ==
    [k \in ToSet(keys) |->
        Picked([i \in DOMAIN edges |-> edges[i][1]], {i \in DOMAIN edges : edges[i][2] = k})]

RootKeys(keys, edges) ==
    Picked(keys, {j \in DOMAIN keys : \A i \in DOMAIN edges : edges[i][2] # keys[j]})

(***************************************************************************)
(* Kahn's pass, shared by assert_valid_graph and topological_order.  One    *)
(* turn pops the head of the queue, appends it to the order, lowers the     *)
(* in-degree of its children and queues those that reach zero.             *)
(***************************************************************************)
KahnStart(keys, edges) ==
    LET degree == [k \in ToSet(keys) |->
                      Cardinality({i \in DOMAIN edges : edges[i][2] = k})]
    IN  [degree |-> degree,
         queue  |-> Picked(keys, {i \in DOMAIN keys : degree[keys[i]] = 0}),
         order  |-> <<>>]

\* Mutant: a child is queued as soon as one of its parents is done.
KahnTurnEager(edges, s) ==
    IF s.queue = <<>> THEN s
    ELSE [degree |-> s.degree,
          queue  |-> Tail(s.queue) \o Children(edges, Head(s.queue)),
          order  |-> Append(s.order, Head(s.queue))]

KahnTurn(edges, s) ==
    IF s.queue = <<>> THEN s
    ELSE LET node     == Head(s.queue)
             children == Children(edges, node)
             lowered  == [k \in DOMAIN s.degree |->
                 s.degree[k] - Cardinality({i \in DOMAIN children : children[i] = k})]
             \* The turn of the inner loop at which a child reaches zero.
             freed    == {i \in DOMAIN children :
                            /\ lowered[children[i]] = 0
                            /\ \A j \in DOMAIN children :
                                 children[j] = children[i] => j <= i}
         IN  [degree |-> lowered,
              queue  |-> Tail(s.queue) \o Picked(children, freed),
              order  |-> Append(s.order, node)]

Kahn(keys, edges) ==
    LET state[i \in 0..Len(keys)] ==
            IF i = 0 THEN KahnStart(keys, edges) ELSE KahnTurn(edges, state[i - 1])
    IN  state[Len(keys)]

TopologicalOrder(keys, edges) == Kahn(keys, edges).order

(***************************************************************************)
(* assert_valid_graph: the checks in the order the code makes them, with   *)
(* the first one that fails as the result.  Edges are looked at one by     *)
(* one, each against the edges before it.                                  *)
(***************************************************************************)
\* Mutant: a repeated edge is let through.
EdgeFaultRepeated(keys, edges, i) ==
    CASE edges[i][1] \notin ToSet(keys) -> "unknown from-node"
      [] edges[i][1] \in ToSet(keys) /\ edges[i][2] \notin ToSet(keys) -> "unknown to-node"
      [] edges[i][1] \in ToSet(keys) /\ edges[i][1] = edges[i][2] -> "self-loop"
      [] OTHER -> "none"

EdgeFault(keys, edges, i) ==
    LET src == edges[i][1]
        dst == edges[i][2]
    IN  CASE src \notin ToSet(keys) -> "unknown from-node"
          [] src \in ToSet(keys) /\ dst \notin ToSet(keys) -> "unknown to-node"
          [] src \in ToSet(keys) /\ src = dst -> "self-loop"
          [] src # dst /\ {src, dst} \subseteq ToSet(keys)
                /\ \E j \in 1..(i - 1) : edges[j] = edges[i] -> "duplicate edge"
          [] OTHER -> "none"

GraphFault(keys, edges) ==
    LET bad == {i \in DOMAIN edges : EdgeFault(keys, edges, i) # "none"}
    IN  CASE ~IsInjective(keys) -> "duplicate node_key"
          [] IsInjective(keys) /\ bad # {} ->
                EdgeFault(keys, edges, CHOOSE i \in bad : \A j \in bad : i <= j)
          [] IsInjective(keys) /\ bad = {}
                /\ Len(Kahn(keys, edges).order) # Len(keys) -> "cycle"
          [] OTHER -> "none"

(***************************************************************************)
(* descendants: a depth-first walk with a stack; keys already seen are     *)
(* popped and dropped.  The stack grows by one entry per edge out of a key *)
(* seen for the first time, so the number of edges bounds the turns.       *)
(***************************************************************************)
WalkTurn(edges, s) ==
    IF s.stack = <<>> THEN s
    ELSE LET node == Last(s.stack)
         IN  IF node \in s.seen
             THEN [s EXCEPT !.stack = Front(@)]
             ELSE [seen  |-> s.seen \cup {node},
                   stack |-> Front(s.stack) \o Children(edges, node)]

Descendants(keys, edges, target) ==
    LET state[i \in 0..(2 * Len(edges))] ==
            IF i = 0 THEN [seen |-> {}, stack |-> Children(edges, target)]
            ELSE WalkTurn(edges, state[i - 1])
    IN  state[2 * Len(edges)].seen \ {target}
================================================================================
