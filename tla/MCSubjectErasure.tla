--------------------------- MODULE MCSubjectErasure ---------------------------
(***************************************************************************)
(* One subject with an item of every kind, each written at any time; both  *)
(* Zone 5 adapters.  Subjects share nothing, and the proof is for any.     *)
(***************************************************************************)
EXTENDS SubjectErasure

CONSTANT s1

MCItems == {<<s1, "edge">>, <<s1, "attribute">>, <<s1, "alias">>,
            <<s1, "archived">>}
MCSubjectOf == [i \in MCItems |-> i[1]]
MCKindOf == [i \in MCItems |-> i[2]]
=============================================================================
