--------------------------- MODULE MCZone8Archive ---------------------------
(* Three items, two of which have the same payload, so that two different  *)
(* batches may have the same blob; two calls at a time; lists that share   *)
(* an item, so that calls conflict, and fast-track lists of one.           *)
EXTENDS Zone8Archive, TLC

CONSTANTS i1, i2, i3, p1, p2, s1, s2

MCItems == {i1, i2, i3}
MCPayloads == {p1, p2}
MCPayloadOf == (i1 :> p1) @@ (i2 :> p1) @@ (i3 :> p2)
MCSweeps == {s1, s2}
MCLists == {<<i1>>, <<i2>>, <<i1, i3>>, <<i3, i2>>}
SweepSymmetry == Permutations(MCSweeps)
=============================================================================
