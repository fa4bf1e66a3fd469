------------------------------- MODULE MCFlatRun -------------------------------
(***************************************************************************)
(* Worker processes and job slots for the runs of FlatRun.                  *)
(***************************************************************************)
EXTENDS FlatRun, TLC

\* Model values named by the configurations.
CONSTANTS p1, p2, s1, s2, s3

OneHome == (s1 :> p1) @@ (s2 :> p1)
TwoHomes == (s1 :> p1) @@ (s2 :> p1) @@ (s3 :> p2)

\* Nothing distinguishes the tasks.
AnyTask == Permutations(Tasks)
================================================================================
