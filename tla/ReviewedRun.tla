------------------------------ MODULE ReviewedRun ------------------------------
(***************************************************************************)
(* What a graph run promises its users, without jobs, requests or rows: the *)
(* nodes run one at a time, each after its parents; a gated node's output   *)
(* goes to its reviewers, who let it pass, send it back or roll the run     *)
(* back to a parent in one stroke; the run ends when nothing is left, with  *)
(* the status its nodes call for.  GraphRun implements this.               *)
(***************************************************************************)
EXTENDS Dag

CONSTANT GatedNodes     \* the nodes that have approvers, a subset of NodeKeys

VARIABLES
    phase,      \* the run
    node        \* node key -> where the node is

Init ==
    /\ phase = "pending"
    /\ node = [k \in NodeKeys |-> "pending"]

Ready ==
    {k \in NodeKeys : /\ node[k] = "pending"
                      /\ \A p \in Parents(k) : node[p] = "completed"}

Idle == \A k \in NodeKeys : node[k] \notin {"running", "awaiting_approval"}

Begin == phase = "pending" /\ phase' = "running" /\ UNCHANGED node

StartNode(k) ==
    /\ phase = "running"
    /\ Idle
    /\ k \in Ready
    /\ node' = [node EXCEPT ![k] = "running"]
    /\ UNCHANGED phase

FinishNode(k) ==
    /\ phase = "running"
    /\ node[k] = "running"
    /\ \E to \in {"failed", IF k \in GatedNodes THEN "awaiting_approval" ELSE "completed"} :
         node' = [node EXCEPT ![k] = to]
    /\ UNCHANGED phase

\* The reviewers may be quicker than the pause.
Pause == phase = "running" /\ phase' = "awaiting_human" /\ UNCHANGED node
Resume == phase = "awaiting_human" /\ phase' = "running" /\ UNCHANGED node

Decide(k) ==
    /\ node[k] = "awaiting_approval"
    /\ \E to \in {"completed", "pending"} : node' = [node EXCEPT ![k] = to]
    /\ UNCHANGED phase

RollBack(k, t) ==
    /\ phase = "awaiting_human"
    /\ node[k] = "awaiting_approval"
    /\ t \in Parents(k)
    /\ node' = [m \in NodeKeys |->
                  IF m \in DescendantsOf(t) \cup {t} THEN "pending" ELSE node[m]]
    /\ UNCHANGED phase

Outcome ==
    IF \A k \in NodeKeys : node[k] # "failed" THEN "completed"
    ELSE IF \E k \in Leaves : node[k] = "completed"
         THEN "completed_with_failures" ELSE "failed"

End ==
    /\ phase = "running"
    /\ Idle
    /\ Ready = {}
    /\ phase' = Outcome
    /\ UNCHANGED node

Next ==
    \/ Begin \/ Pause \/ Resume \/ End
    \/ \E k \in NodeKeys : StartNode(k) \/ FinishNode(k) \/ Decide(k)
    \/ \E k, t \in NodeKeys : RollBack(k, t)

Spec == Init /\ [][Next]_<<phase, node>>
================================================================================
