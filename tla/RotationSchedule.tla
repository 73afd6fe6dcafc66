-------------------------- MODULE RotationSchedule --------------------------
(***************************************************************************)
(* What the docstrings of a rotation timer wheel promise its callers       *)
(* (domain/rotation_timer_wheel.py:140 and 156-160): each item has at most *)
(* one deadline, the latest one it was given, and pop_due returns, and     *)
(* unschedules, every item whose deadline has passed and no other.         *)
(***************************************************************************)
EXTENDS Naturals

CONSTANTS Items,    \* the items of one zone
          MaxTime   \* bound on instants

VARIABLES deadline,  \* deadline[i]: the instant i falls due, or Unscheduled
          answer     \* the last sweep: its instant, and the items it surfaced

Times == 0 .. MaxTime
Unscheduled == MaxTime + 1

Live == {i \in Items : deadline[i] # Unscheduled}
DueBy(t) == {i \in Live : deadline[i] <= t}

Init == /\ deadline = [i \in Items |-> Unscheduled]
        /\ answer = [asOf |-> 0, items |-> {}]

Set(i, t) == /\ deadline' = [deadline EXCEPT ![i] = t]
             /\ UNCHANGED answer

Clear(i) == /\ deadline' = [deadline EXCEPT ![i] = Unscheduled]
            /\ UNCHANGED answer

\* A sweep at t surfaces, and so unschedules, exactly what is due by t.
Surface(t) ==
  /\ deadline' = [i \in Items |-> IF i \in DueBy(t) THEN Unscheduled
                                                   ELSE deadline[i]]
  /\ answer' = [asOf |-> t, items |-> DueBy(t)]

Next == \/ \E i \in Items, t \in Times : Set(i, t)
        \/ \E i \in Items : Clear(i)
        \/ \E t \in Times : Surface(t)

Spec == Init /\ [][Next]_<<deadline, answer>>
=============================================================================
