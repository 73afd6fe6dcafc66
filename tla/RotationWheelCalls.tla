------------------------- MODULE RotationWheelCalls -------------------------
(***************************************************************************)
(* A rotation timer wheel under arbitrary calls: any caller may schedule   *)
(* or invalidate any item, or pop at any instant (the wheel has no clock:  *)
(* as_of is the caller's).  The last answer of pop_due is kept, since what *)
(* the wheel promises is about its answers.                                *)
(***************************************************************************)
EXTENDS RotationTimerWheel

VARIABLE answer     \* the last pop_due: [asOf: its argument, items: who came out]

callVars == <<heap, gen, dueAt, answer>>

CallsInit == WheelInit /\ answer = [asOf |-> 0, items |-> {}]

CallSchedule(i, t) == Schedule(i, t) /\ UNCHANGED answer
CallInvalidate(i) == Invalidate(i) /\ UNCHANGED answer
CallPopDue(t) == /\ PopDue(t)
                 /\ answer' = [asOf |-> t, items |-> {e.item : e \in Surfaced(t)}]

CallsNext == \/ \E i \in Items, t \in Times : CallSchedule(i, t)
             \/ \E i \in Items : CallInvalidate(i)
             \/ \E t \in Times : CallPopDue(t)

CallsSpec == CallsInit /\ [][CallsNext]_callVars

-----------------------------------------------------------------------------
(***************************************************************************)
(* Properties.                                                             *)
(***************************************************************************)

\* The heap holds well-formed triples, and the two maps of the wheel always
\* have the same keys.
CallsTypeOK == /\ WheelTypeOK
               /\ answer \in [asOf : Times, items : SUBSET Items]

\* The wheel keeps the promise of RotationSchedule: pop_due returns, and
\* unschedules, the items whose latest deadline is at or before as_of, and no
\* others.  It does not: an invalidated item that is scheduled again gets
\* generation 1 again, and the entry of generation 1 that invalidate left in
\* the heap surfaces the item and takes its new deadline away.
Promise == INSTANCE RotationSchedule WITH deadline <- dueAt
ImplementsSchedule == Promise!Spec

\* No call gives an item a generation that an entry of it in the heap still
\* has: what a counter that only increases would see to, and the code's does
\* not.  The wheel that also satisfies this keeps the promise.
FreshGenerations ==
  \A e \in heap : gen'[e.item] # gen[e.item] => gen'[e.item] # e.gen
=============================================================================
