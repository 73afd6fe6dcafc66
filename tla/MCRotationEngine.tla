-------------------------- MODULE MCRotationEngine --------------------------
(* Two tenants that share a zone's wheel and own one item each, and a clock *)
(* with two instants.                                                       *)
EXTENDS RotationEngine, TLC

CONSTANTS i1, i2, t1, t2

MCItems == {i1, i2}
MCTenants == {t1, t2}
MCTenantOf == (i1 :> t1) @@ (i2 :> t2)
(* Swapping the two tenants together with their items.                      *)
MCSymmetry ==
  {(i1 :> i2) @@ (i2 :> i1) @@ (t1 :> t2) @@ (t2 :> t1)}
MCCooldowns == {0, 1}
=============================================================================
