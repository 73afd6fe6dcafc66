------------------------- MODULE RotationTimerWheel -------------------------
(***************************************************************************)
(* domain/rotation_timer_wheel.py: one zone's min-heap of rotation         *)
(* deadlines with lazy deletion.  Rescheduling or invalidating an item     *)
(* never touches the heap: it only changes the item's current generation,  *)
(* and pop_due drops the heap entries of another generation as it meets    *)
(* them.  The generation of an item that leaves the wheel is forgotten, so *)
(* its next one is 1 again.                                                *)
(*                                                                         *)
(* The heap is the set of its triples: pop_due takes every entry due by    *)
(* as_of, so neither the order in the heap nor an exact duplicate matters. *)
(***************************************************************************)
EXTENDS Naturals

CONSTANTS Items,    \* item ids (never blank)
          MaxTime,  \* bound: the last instant
          MaxGen    \* bound: the generations an item may go through

ASSUME BoundsAssumption == MaxTime \in Nat /\ MaxGen \in Nat

VARIABLES heap,     \* _heap: the entries pushed and not yet popped
          gen,      \* _generation: gen[i], 0 when i has no key
          dueAt     \* _due_at_by_item: dueAt[i], Absent when i has no key

wheel == <<heap, gen, dueAt>>

Times == 0 .. MaxTime
Absent == MaxTime + 1
Entries == [due : Times, gen : 1 .. MaxGen, item : Items]

IsLive(i) == gen[i] # 0

\* Well-formed triples, and the same keys in the two maps.
WheelTypeOK == /\ heap \subseteq Entries
               /\ gen \in [Items -> 0 .. MaxGen]
               /\ dueAt \in [Items -> Times \cup {Absent}]
               /\ \A i \in Items : IsLive(i) <=> dueAt[i] # Absent

WheelInit == /\ heap = {}
             /\ gen = [i \in Items |-> 0]
             /\ dueAt = [i \in Items |-> Absent]

(***************************************************************************)
(* schedule: the next generation of the item becomes the current one.      *)
(***************************************************************************)
\* Mutant: the heap gets the generation that schedule is about to supersede.
ScheduleOldGeneration(i, t) ==
  /\ gen[i] < MaxGen
  /\ heap' = heap \cup {[due |-> t, gen |-> gen[i], item |-> i]}
  /\ gen' = [gen EXCEPT ![i] = @ + 1]
  /\ dueAt' = [dueAt EXCEPT ![i] = t]

Schedule(i, t) ==
  /\ gen[i] < MaxGen
  /\ heap' = heap \cup {[due |-> t, gen |-> gen[i] + 1, item |-> i]}
  /\ gen' = [gen EXCEPT ![i] = @ + 1]
  /\ dueAt' = [dueAt EXCEPT ![i] = t]

(***************************************************************************)
(* invalidate: both maps forget the item; its heap entries stay behind.    *)
(***************************************************************************)
Invalidate(i) == /\ gen' = [gen EXCEPT ![i] = 0]
                 /\ dueAt' = [dueAt EXCEPT ![i] = Absent]
                 /\ UNCHANGED heap

(***************************************************************************)
(* pop_due(as_of).  The loop pops every entry due by as_of in ascending    *)
(* order; the first one of an item whose generation is current is          *)
(* surfaced, and the item then has no generation, so the rest are dropped. *)
(***************************************************************************)
\* Mutant: an entry due exactly at as_of stays in the heap.
VisitedBefore(t) == {e \in heap : e.due < t}

\* The entries the loop pops.
Visited(t) == {e \in heap : e.due <= t}
\* Those of them that count when the loop starts.
Current(t) == {e \in Visited(t) : e.gen = gen[e.item]}

\* What pop_due returns.
Surfaced(t) ==
  {[item |-> e.item, due |-> e.due] :
     e \in {e \in Current(t) :
              \A f \in Current(t) : f.item = e.item => e.due <= f.due}}

SurfacedItems(t) == {e.item : e \in Current(t)}

PopDue(t) ==
  /\ heap' = heap \ Visited(t)
  /\ gen' = [i \in Items |-> IF i \in SurfacedItems(t) THEN 0 ELSE gen[i]]
  /\ dueAt' = [i \in Items |-> IF i \in SurfacedItems(t) THEN Absent
                                                          ELSE dueAt[i]]
-----------------------------------------------------------------------------
\* Lazy deletion never orphans a current deadline: however items were
\* rescheduled, invalidated and popped, the heap holds the very entry that
\* the two maps describe, so a later pop_due will meet it.
LiveEntryInHeap ==
  \A i \in Items :
    IsLive(i) => [due |-> dueAt[i], gen |-> gen[i], item |-> i] \in heap
=============================================================================
