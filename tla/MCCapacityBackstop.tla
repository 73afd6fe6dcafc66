-------------------------- MODULE MCCapacityBackstop --------------------------
(* Two episodes over a cap of one, so that the cap decides by score and by *)
(* age, and a procedure, within its cap, that only MaxAge evicts.  The     *)
(* first episode is the one that is indexed and whose erasure is asked for.*)
EXTENDS CapacityBackstop

CONSTANTS c1, c2

MCItems == 1..3
MCZoneOf == <<"episodic", "episodic", "procedural">>
MCCallers == {c1, c2}
MCScores == {0, 1}
MCCap == [z \in Zones |-> 1]
MCIndexed == {1}
MCAgeing == {1, 3}
MCOfSubject == {1}
=============================================================================
