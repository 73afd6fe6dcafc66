-------------------------- MODULE MCZone8Erasure ---------------------------
(* Instances of Zone8Erasure: one subject with one archived item, two       *)
(* erasure requests for it and one concurrent archive of the same item.     *)
EXTENDS Zone8Erasure, TLC
CONSTANTS s1, i1, j1, j2, c1
MCSubjectOf == i1 :> s1

\* Jobs are interchangeable: the only job a definition names is the place
\* holder in sweep.cur, which SweepNext overwrites before it is read.
JobSymmetry == Permutations(Jobs)
============================================================================
