------------------------------- MODULE MCGraphRun ------------------------------
(***************************************************************************)
(* The graphs and approver sets TLC checks GraphRun on.  Each graph's Order *)
(* is what topological_order returns for it.                               *)
(***************************************************************************)
EXTENDS GraphRunInvariant, TLC

Topology == INSTANCE GraphTopology

\* Model values named by the configurations.
CONSTANTS a, b, c, d, e, ann, bob

Abc == {a, b, c}
Abcde == {a, b, c, d, e}
AnnBob == {ann, bob}

\* a -> b -> c
ChainEdges == {<<a, b>>, <<b, c>>}
ChainOrder == <<a, b, c>>

ASSUME ChainOrderIsComputed ==
    ChainOrder = Topology!TopologicalOrder(<<a, b, c>>, <<<<a, b>>, <<b, c>>>>)

\* a runs by itself; ann reviews b; ann and bob review c.
ChainApprovers == (a :> {}) @@ (b :> {ann}) @@ (c :> AnnBob)

\* The same with two approvers of the node a rollback goes to.
PairedApprovers == (a :> {}) @@ (b :> AnnBob) @@ (c :> AnnBob)

\* Nothing distinguishes the job slots, nor the approvers in PairedApprovers.
Interchangeable == Permutations(Workers) \cup Permutations(Users)

\* Two leaves, c and e; e has two parents, and rolling e back to a takes c,
\* which may be completed already, with it.
WideEdges == {<<a, b>>, <<b, c>>, <<a, d>>, <<d, e>>, <<a, e>>}
WideOrder == <<a, b, d, c, e>>

ASSUME WideOrderIsComputed ==
    WideOrder = Topology!TopologicalOrder(<<a, b, c, d, e>>,
                                          <<<<a, b>>, <<b, c>>, <<a, d>>, <<d, e>>, <<a, e>>>>)

\* ann reviews a; bob reviews e.
WideApprovers == (a :> {ann}) @@ (b :> {}) @@ (c :> {}) @@ (d :> {}) @@ (e :> {bob})
================================================================================
