---------------------- MODULE MCProvenanceWriteGate ----------------------
(* Two threads in one process and one in another; one tenant; two keys,    *)
(* one of them used for two requests, one of which is attested for an      *)
(* instant, and a request that fails its checks.                           *)
EXTENDS ProvenanceWriteGate, TLC

CONSTANTS g1, g2, th1, th2, th3, t1, k1, k2, x, y

MCGates == {g1, g2}
MCThreads == {th1, th2, th3}
MCGateOf == (th1 :> g1) @@ (th2 :> g1) @@ (th3 :> g2)
MCTenants == {t1}
MCKeys == {k1, k2}
MCTenantOf == (k1 :> t1) @@ (k2 :> t1)
MCContents == {x, y}
Request(k, c, source, turn) ==
  [key |-> k, content |-> c, source |-> source, turn |-> turn, bound |-> TRUE]
MCRequests == {Request(k1, x, "other", NoTurn), Request(k1, y, "user_stated", 0),
               Request(k2, x, "unknown", NoTurn)}
MCSymmetry == {(th1 :> th2) @@ (th2 :> th1)}
=============================================================================
