------------------------ MODULE MCRotationWheelCalls ------------------------
(* Two items, two or three instants, two or three generations: an item can  *)
(* be rescheduled, leave the wheel, and come back under a generation that   *)
(* an entry still in the heap also has.                                     *)
EXTENDS RotationWheelCalls

CONSTANTS i1, i2

MCItems == {i1, i2}
=============================================================================
