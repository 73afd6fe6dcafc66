------------------------ MODULE MCConflictAwareWrites ------------------------
(* Two requests at a time.  The facts take every routing of classify: an   *)
(* attribute alone, with an edge, with a blank predicate, edges of two     *)
(* subjects, a general fact, and two subjects without an object; attribute *)
(* and edge of the first ones are shared, so that requests conflict.       *)
EXTENDS ConflictAwareWrites, TLC

CONSTANTS w1, w2, e1, e2

MCWriters == {w1, w2}
MCEntities == {e1, e2}
AFact(s, o, reverse, blank) ==
  [subjects |-> s, objects |-> o, reverse |-> reverse, blank |-> blank]
Plain == AFact(<<e1>>, <<e2>>, FALSE, FALSE)
Reverse == AFact(<<e1>>, <<e2>>, TRUE, FALSE)
Blank == AFact(<<e1>>, <<>>, FALSE, TRUE)
Two == AFact(<<e1, e2>>, <<e2>>, FALSE, FALSE)
General == AFact(<<>>, <<>>, FALSE, FALSE)
Nothing == AFact(<<e1, e2>>, <<>>, FALSE, FALSE)
MCFacts == {Plain, Reverse, Blank, Two, General, Nothing}
MCRequests == {<<Reverse>>, <<Two>>, <<Blank, Plain>>, <<General, Nothing>>}
WriterSymmetry == Permutations(MCWriters)
=============================================================================
