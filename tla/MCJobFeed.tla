----------------------------- MODULE MCJobFeed ------------------------------
(* JobFeed on small sets of jobs and tabs. *)
EXTENDS JobFeed, TLC

CONSTANTS j1, j2, c1, c2

Jobs1 == {j1}
Jobs2 == {j1, j2}
Clients1 == {c1}
Clients2 == {c1, c2}

\* Jobs and tabs are interchangeable: no definition tells two of them apart.
Interchangeable == Permutations(Jobs2) \cup Permutations(Clients2)
=============================================================================
