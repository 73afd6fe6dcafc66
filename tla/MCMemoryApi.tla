------------------------------ MODULE MCMemoryApi ------------------------------
(***************************************************************************)
(* Two tenants that use the same session name and the same task hash; two  *)
(* writers, who may write the same procedure; a client that updates it, or *)
(* the first one's item, or writes; and one that deletes or assembles.     *)
(* The long text does not fit the first budget; the other assembly reads   *)
(* one entry of Zone 1.                                                    *)
(***************************************************************************)
EXTENDS MemoryApi

CONSTANTS t1, t2, h

Writing(t, s, zone) ==
  [op |-> "write", tenant |-> t, session |-> s, zone |-> zone, hash |-> h]
On(op, t, n) == [op |-> op, tenant |-> t, item |-> n]
Reading(t, from, budget, max) ==
  [op |-> "assemble", tenant |-> t, zones |-> from, hash |-> h,
   budget |-> budget, max |-> max]

MCRequests ==
  <<{Writing(t1, "s", z) : z \in {"procedural", "episodic"}},
    {Writing(t1, "s", "episodic"), Writing(t2, "s", "procedural"),
     Writing(t1, "r", "procedural")},
    {On("update", t1, 1), On("update", t1, h), Writing(t1, "s", "working")},
    {Reading(t1, {"working", "procedural", "semantic"}, 1, 3),
     Reading(t1, {"working"}, 3, 1),
     On("delete", t1, 1), On("delete", t1, h), On("get", t1, 1)}>>
MCTokens == <<1, 2, 1, 1>>
=============================================================================
