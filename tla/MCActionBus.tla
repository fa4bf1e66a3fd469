------------------------------ MODULE MCActionBus ------------------------------
(***************************************************************************)
(* Events and bindings for TLC.                                             *)
(***************************************************************************)
EXTENDS ActionBus, TLC

\* Model values named by the configurations.
CONSTANTS wf, ag, s1, s2

\* A workflow and an agent wait for the first event, which may be the only one;
\* for the second one an agent or the same workflow.
Mixed == 1 :> {wf, ag}
MixedThenAgent == (1 :> {wf, ag}) @@ (2 :> {ag})
TwoMixed == (1 :> {wf, ag}) @@ (2 :> {wf})
================================================================================
