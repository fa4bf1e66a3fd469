-------------------------------- MODULE MCEditing ------------------------------
(***************************************************************************)
(* The two artifacts people, the chat and undo rewrite side by side: the   *)
(* workflow graph and the mini app.  They share no state, so each behaviour *)
(* follows one of them; `focus` says which.                                *)
(***************************************************************************)
EXTENDS GraphAuthoring, MiniAppBuild, TLC

CONSTANTS n1, n2

VARIABLE focus

FewDrafts == {[keys |-> {n1, n2}, edges |-> {<<n1, n2>>}], [keys |-> {n1, n2}, edges |-> {}]}

Symmetry == Permutations(Builders)

Init == AuthoringInit /\ AppInit /\ focus \in {"graph", "app"}

GraphStep == focus = "graph" /\ AuthoringNext /\ UNCHANGED <<appVars, focus>>
AppStep == focus = "app" /\ AppNext /\ UNCHANGED <<authoringVars, focus>>

Next == GraphStep \/ AppStep

Spec == Init /\ [][Next]_<<authoringVars, appVars, focus>>

\* The rows and what each request knows have their types.
EditingTypeOK == AuthoringTypeOK /\ AppTypeOK
================================================================================
