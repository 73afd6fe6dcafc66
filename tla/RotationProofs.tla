--------------------------- MODULE RotationProofs ---------------------------
(***************************************************************************)
(* The rotation timer wheel and the engine that uses it, for every set of  *)
(* items and tenants and every bound on instants and generations.          *)
(*                                                                         *)
(* The wheel: its maps stay in step, and lazy deletion never loses a live  *)
(* deadline.  The invariant is LiveEntryInHeap: generations may be reused, *)
(* so a stale entry can come back to life, but the live entry itself is    *)
(* always in the heap.  It is proved once, for the wheel's own operations, *)
(* and used for the wheel under arbitrary calls and for the engine.  The   *)
(* wheel does not implement RotationSchedule, because generations are      *)
(* reused; that this is the only reason is proved too: it does wherever    *)
(* FreshGenerations holds.                                                 *)
(*                                                                         *)
(* The engine: a sweep takes whatever is due, no deadline lies before its  *)
(* item's crossing, an item is announced at most once, and an announcement *)
(* is lost only where a call fails or the process stops.  The last two     *)
(* need to know who may act on an item: an entry reaches compress only in  *)
(* the sweep of the tenant that owns the item, so the state that sweep     *)
(* read is still the item's state when it compresses it.                   *)
(***************************************************************************)
EXTENDS RotationEngine, RotationWheelCalls, WellFoundedInduction, TLAPS

WheelIInv == WheelTypeOK /\ LiveEntryInHeap

-----------------------------------------------------------------------------
(***************************************************************************)
(* The wheel's operations.                                                 *)
(***************************************************************************)
\* An empty wheel satisfies the wheel's invariant.
LEMMA WheelInitIInv == WheelInit => WheelIInv
  BY BoundsAssumption
  DEF WheelInit, WheelIInv, WheelTypeOK, LiveEntryInHeap, IsLive, Absent, Times

\* schedule pushes the very entry that its maps describe.
LEMMA ScheduleIInv ==
  ASSUME WheelIInv, NEW i \in Items, NEW t \in Times, Schedule(i, t)
  PROVE  WheelIInv'
  <1> DEFINE g == gen[i] + 1
             new == [due |-> t, gen |-> g, item |-> i]
  <1>1. gen[i] \in 0 .. MaxGen /\ gen[i] < MaxGen
    BY DEF WheelIInv, WheelTypeOK, Schedule
  <1>2. g \in 1 .. MaxGen
    BY <1>1, BoundsAssumption
  <1>3. new \in Entries
    BY <1>2 DEF Entries
  <1>4. /\ heap' = heap \cup {new}
        /\ gen' = [gen EXCEPT ![i] = g]
        /\ dueAt' = [dueAt EXCEPT ![i] = t]
    BY DEF Schedule
  <1> HIDE DEF g
  <1>5. /\ gen'[i] = g /\ dueAt'[i] = t
        /\ \A j \in Items \ {i} : gen'[j] = gen[j] /\ dueAt'[j] = dueAt[j]
    BY <1>4 DEF WheelIInv, WheelTypeOK
  <1>6. WheelTypeOK'
    <2>1. heap' \subseteq Entries
      BY <1>3, <1>4 DEF WheelIInv, WheelTypeOK, Entries, Times
    <2>2. gen' \in [Items -> 0 .. MaxGen]
      BY <1>2, <1>4, BoundsAssumption DEF WheelIInv, WheelTypeOK
    <2>3. dueAt' \in [Items -> Times \cup {Absent}]
      BY <1>4 DEF WheelIInv, WheelTypeOK, Times, Absent
    <2>4. \A j \in Items : gen'[j] # 0 <=> dueAt'[j] # Absent
      BY <1>2, <1>5, BoundsAssumption
      DEF WheelIInv, WheelTypeOK, IsLive, Times, Absent
    <2> QED BY <2>1, <2>2, <2>3, <2>4 DEF WheelTypeOK, IsLive, Times, Absent, Entries
  <1>7. LiveEntryInHeap'
    BY <1>4, <1>5 DEF WheelIInv, LiveEntryInHeap, IsLive
  <1> QED BY <1>6, <1>7 DEF WheelIInv

\* invalidate takes the item out of both maps, and nothing out of the heap.
LEMMA InvalidateIInv ==
  ASSUME WheelIInv, NEW i \in Items, Invalidate(i)
  PROVE  WheelIInv'
  <1>1. /\ heap' = heap
        /\ gen' = [gen EXCEPT ![i] = 0]
        /\ dueAt' = [dueAt EXCEPT ![i] = Absent]
    BY DEF Invalidate
  <1>2. /\ gen'[i] = 0 /\ dueAt'[i] = Absent
        /\ \A j \in Items \ {i} : gen'[j] = gen[j] /\ dueAt'[j] = dueAt[j]
    BY <1>1 DEF WheelIInv, WheelTypeOK
  <1>3. WheelTypeOK'
    BY <1>1, <1>2, BoundsAssumption
    DEF WheelIInv, WheelTypeOK, IsLive, Times, Absent, Entries
  <1>4. LiveEntryInHeap'
    BY <1>1, <1>2 DEF WheelIInv, LiveEntryInHeap, IsLive
  <1> QED BY <1>3, <1>4 DEF WheelIInv

\* pop_due keeps the live entry of every item it does not surface: had it
\* visited that entry, the entry would have been current.
LEMMA PopDueIInv ==
  ASSUME WheelIInv, NEW t \in Times, PopDue(t)
  PROVE  WheelIInv'
  <1>1. /\ heap' = heap \ Visited(t)
        /\ gen' = [i \in Items |-> IF i \in SurfacedItems(t) THEN 0 ELSE gen[i]]
        /\ dueAt' = [i \in Items |-> IF i \in SurfacedItems(t)
                                       THEN Absent ELSE dueAt[i]]
    BY DEF PopDue
  <1>2. WheelTypeOK'
    BY <1>1, BoundsAssumption
    DEF WheelIInv, WheelTypeOK, IsLive, Times, Absent, Entries
  <1>3. LiveEntryInHeap'
    <2> SUFFICES ASSUME NEW i \in Items, gen'[i] # 0
                 PROVE  [due |-> dueAt'[i], gen |-> gen'[i], item |-> i] \in heap'
      BY DEF LiveEntryInHeap, IsLive
    <2> DEFINE e == [due |-> dueAt[i], gen |-> gen[i], item |-> i]
    <2>1. i \notin SurfacedItems(t) /\ gen'[i] = gen[i] /\ dueAt'[i] = dueAt[i]
      BY <1>1
    <2>2. e \in heap
      BY <2>1 DEF WheelIInv, LiveEntryInHeap, IsLive
    <2>3. e \notin Visited(t)
      <3>1. e.item = i /\ e.gen = gen[i]
        OBVIOUS
      <3> HIDE DEF e
      <3> QED BY <2>1, <3>1 DEF SurfacedItems, Current
    <2> QED BY <1>1, <2>1, <2>2, <2>3
  <1> QED BY <1>2, <1>3 DEF WheelIInv

\* What pop_due surfaces is well formed.
LEMMA SurfacedType ==
  ASSUME WheelTypeOK, NEW t \in Times
  PROVE  /\ Surfaced(t) \subseteq [item : Items, due : Times]
         /\ SurfacedItems(t) \subseteq Items
  BY DEF Surfaced, SurfacedItems, Current, Visited, WheelTypeOK, Entries

\* A nonempty set of instants has a least one.
LEMMA LeastInstant ==
  ASSUME NEW T \in SUBSET Nat, T # {}
  PROVE  \E m \in T : \A k \in T : m <= k
  <1>1. PICK m \in T : \A k \in T : <<k, m>> \notin OpToRel(<, Nat)
    BY NatLessThanWellFounded, WFMin
  <1>2. \A k \in T : ~ (k < m)
    BY <1>1 DEF OpToRel
  <1> QED BY <1>2

\* What pop_due answers is the set of items it unschedules: every item with
\* a current entry that is due has an earliest one, which stands for it.
LEMMA AnswerIsSurfaced ==
  ASSUME WheelTypeOK, NEW t \in Times
  PROVE  {e.item : e \in Surfaced(t)} = SurfacedItems(t)
  <1>1. ASSUME NEW i \in SurfacedItems(t)
        PROVE  i \in {e.item : e \in Surfaced(t)}
    <2> DEFINE T == {e.due : e \in {c \in Current(t) : c.item = i}}
    <2>1. T \in SUBSET Nat
      BY BoundsAssumption DEF Current, Visited, WheelTypeOK, Entries, Times
    <2>2. T # {}
      BY <1>1 DEF SurfacedItems
    <2>3. PICK m \in T : \A k \in T : m <= k
      BY <2>1, <2>2, LeastInstant
    <2>4. PICK c \in Current(t) : c.item = i /\ c.due = m
      BY <2>3
    <2>5. \A f \in Current(t) : f.item = c.item => c.due <= f.due
      BY <2>3, <2>4
    <2>6. [item |-> i, due |-> m] \in Surfaced(t)
      BY <2>4, <2>5 DEF Surfaced
    <2> QED BY <2>6
  <1> QED BY <1>1 DEF Surfaced, SurfacedItems

\* Everything whose deadline has passed has its entry among the current ones.
LEMMA DueIsSurfaced ==
  ASSUME WheelIInv, NEW t \in Times, NEW i \in Items, IsLive(i), dueAt[i] <= t
  PROVE  i \in SurfacedItems(t)
  <1> DEFINE e == [due |-> dueAt[i], gen |-> gen[i], item |-> i]
  <1>1. e \in heap
    BY DEF WheelIInv, LiveEntryInHeap
  <1>2. e.item = i /\ e.gen = gen[i] /\ e.due = dueAt[i]
    OBVIOUS
  <1> HIDE DEF e
  <1> QED BY <1>1, <1>2 DEF SurfacedItems, Current, Visited

\* Only items that have a deadline are surfaced.
LEMMA SurfacedIsLive ==
  ASSUME WheelTypeOK, NEW t \in Times
  PROVE  \A i \in SurfacedItems(t) : i \in Items /\ IsLive(i) /\ dueAt[i] # Absent
  <1> SUFFICES ASSUME NEW e \in heap, e.gen = gen[e.item]
               PROVE  e.item \in Items /\ IsLive(e.item) /\ dueAt[e.item] # Absent
    BY DEF SurfacedItems, Current, Visited
  <1>1. e.item \in Items /\ e.gen \in 1 .. MaxGen
    BY DEF WheelTypeOK, Entries
  <1> QED BY <1>1, BoundsAssumption DEF WheelTypeOK, IsLive

-----------------------------------------------------------------------------
(***************************************************************************)
(* The wheel under arbitrary calls.                                        *)
(***************************************************************************)
CallsIInv == CallsTypeOK /\ LiveEntryInHeap

\* The initial state of the wheel satisfies the invariant.
LEMMA CallsInitIInv == CallsInit => CallsIInv
  BY WheelInitIInv, BoundsAssumption
  DEF CallsInit, CallsIInv, CallsTypeOK, WheelIInv, Times

\* Every call keeps the invariant.
LEMMA CallsStepIInv == CallsIInv /\ [CallsNext]_callVars => CallsIInv'
  <1> SUFFICES ASSUME CallsIInv, [CallsNext]_callVars PROVE CallsIInv'
    OBVIOUS
  <1> USE DEF CallsIInv, CallsTypeOK, WheelIInv
  <1>1. ASSUME NEW i \in Items, NEW t \in Times, CallSchedule(i, t) PROVE CallsIInv'
    BY <1>1, ScheduleIInv DEF CallSchedule, Times
  <1>2. ASSUME NEW i \in Items, CallInvalidate(i) PROVE CallsIInv'
    BY <1>2, InvalidateIInv DEF CallInvalidate, Times
  <1>3. ASSUME NEW t \in Times, CallPopDue(t) PROVE CallsIInv'
    <2>1. WheelIInv'
      BY <1>3, PopDueIInv DEF CallPopDue
    <2>2. answer' \in [asOf : Times, items : SUBSET Items]
      BY <1>3, SurfacedType, AnswerIsSurfaced DEF CallPopDue
    <2> QED BY <2>1, <2>2 DEF Times
  <1>4. CASE UNCHANGED callVars
    BY <1>4
    DEF callVars, WheelTypeOK, LiveEntryInHeap, IsLive, Times, Absent, Entries
  <1> QED BY <1>1, <1>2, <1>3, <1>4 DEF CallsNext

\* The maps of the wheel keep the same keys, and the heap stays well formed,
\* through every sequence of calls.
THEOREM WheelTypeCorrect == CallsSpec => []CallsTypeOK
  <1>1. CallsIInv => CallsTypeOK
    BY DEF CallsIInv
  <1> QED BY <1>1, CallsInitIInv, CallsStepIInv, PTL DEF CallsSpec

\* Lazy deletion never orphans a live deadline: its entry is in the heap.
THEOREM LiveDeadlineKept == CallsSpec => []LiveEntryInHeap
  <1>1. CallsIInv => LiveEntryInHeap
    BY DEF CallsIInv
  <1> QED BY <1>1, CallsInitIInv, CallsStepIInv, PTL DEF CallsSpec

\* An entry in the heap that has its item's current generation is the live
\* one.
Unambiguous == \A e \in heap : e.gen = gen[e.item] => e.due = dueAt[e.item]

\* So it stays while no call reuses the generation of an entry in the heap.
LEMMA CallsStepUnambiguous ==
  CallsIInv /\ Unambiguous /\ [CallsNext]_callVars /\ [FreshGenerations]_callVars
    => Unambiguous'
  <1> SUFFICES ASSUME CallsIInv, Unambiguous, [CallsNext]_callVars,
                      [FreshGenerations]_callVars
               PROVE  Unambiguous'
    OBVIOUS
  <1> USE DEF CallsIInv, CallsTypeOK
  <1>0. /\ \A e \in heap : e.item \in Items /\ e.gen \in Nat /\ e.gen # 0
        /\ \A i \in Items : gen[i] \in Nat
    BY BoundsAssumption DEF WheelTypeOK, Entries
  <1>1. ASSUME NEW i \in Items, NEW t \in Times, CallSchedule(i, t)
        PROVE  Unambiguous'
    <2> DEFINE new == [due |-> t, gen |-> gen[i] + 1, item |-> i]
    <2>1. heap' = heap \cup {new}
      BY <1>1 DEF CallSchedule, Schedule
    <2>2. /\ gen'[i] = gen[i] + 1 /\ dueAt'[i] = t
          /\ \A j \in Items \ {i} : gen'[j] = gen[j] /\ dueAt'[j] = dueAt[j]
      BY <1>1 DEF CallSchedule, Schedule, WheelTypeOK
    <2>3. gen'[i] # gen[i]
      BY <1>0, <2>2
    <2>4. FreshGenerations
      BY <2>3 DEF callVars
    <2>5. ASSUME NEW e \in heap, e.gen = gen'[e.item]
          PROVE  e.due = dueAt'[e.item]
      <3>1. e.item # i
        BY <2>3, <2>4, <2>5 DEF FreshGenerations
      <3> QED BY <1>0, <2>2, <2>5, <3>1 DEF Unambiguous
    <2>6. new.item = i /\ new.due = t
      OBVIOUS
    <2> HIDE DEF new
    <2> QED BY <2>1, <2>2, <2>5, <2>6 DEF Unambiguous
  <1>2. ASSUME NEW i \in Items, CallInvalidate(i)
        PROVE  Unambiguous'
    <2>1. /\ heap' = heap /\ gen'[i] = 0
          /\ \A j \in Items \ {i} : gen'[j] = gen[j] /\ dueAt'[j] = dueAt[j]
      BY <1>2 DEF CallInvalidate, Invalidate, WheelTypeOK
    <2> QED BY <1>0, <2>1 DEF Unambiguous
  <1>3. ASSUME NEW t \in Times, CallPopDue(t)
        PROVE  Unambiguous'
    <2>1. /\ heap' \subseteq heap
          /\ \A j \in Items :
               gen'[j] = 0 \/ (gen'[j] = gen[j] /\ dueAt'[j] = dueAt[j])
      BY <1>3 DEF CallPopDue, PopDue
    <2> QED BY <1>0, <2>1 DEF Unambiguous
  <1>4. CASE UNCHANGED callVars
    BY <1>4 DEF callVars, Unambiguous
  <1> QED BY <1>1, <1>2, <1>3, <1>4 DEF CallsNext

\* pop_due is then a Surface step of the schedule: what it surfaces is what
\* is due.
LEMMA PopDueRefines ==
  ASSUME CallsIInv, Unambiguous, NEW t \in Times, CallPopDue(t)
  PROVE  Promise!Surface(t)
  <1> USE DEF CallsIInv, CallsTypeOK, WheelIInv
  <1>1. ASSUME NEW i \in SurfacedItems(t)
        PROVE  i \in Promise!DueBy(t)
    <2>1. PICK e \in Current(t) : e.item = i
      BY <1>1 DEF SurfacedItems
    <2>2. e.due = dueAt[i] /\ e.due <= t
      BY <2>1 DEF Current, Visited, Unambiguous
    <2>3. i \in Items /\ dueAt[i] # Absent
      BY <1>1, SurfacedIsLive
    <2> QED BY <2>2, <2>3
            DEF Promise!DueBy, Promise!Live, Promise!Unscheduled, Absent
  <1>2. Promise!DueBy(t) \subseteq SurfacedItems(t)
    BY DueIsSurfaced
    DEF Promise!DueBy, Promise!Live, Promise!Unscheduled, Absent, WheelTypeOK
  <1>3. SurfacedItems(t) = Promise!DueBy(t)
    BY <1>1, <1>2
  <1>4. dueAt' = [i \in Items |-> IF i \in SurfacedItems(t)
                                   THEN Promise!Unscheduled ELSE dueAt[i]]
    BY DEF CallPopDue, PopDue, Promise!Unscheduled, Absent
  <1>5. answer' = [asOf |-> t, items |-> SurfacedItems(t)]
    BY AnswerIsSurfaced DEF CallPopDue
  <1> QED BY <1>3, <1>4, <1>5 DEF Promise!Surface

\* Every call is a step of the schedule, or changes nothing of it.
LEMMA CallsStepRefines ==
  CallsIInv /\ Unambiguous /\ [CallsNext]_callVars
    => [Promise!Next]_<<dueAt, answer>>
  <1> SUFFICES ASSUME CallsIInv, Unambiguous, [CallsNext]_callVars
               PROVE  [Promise!Next]_<<dueAt, answer>>
    OBVIOUS
  <1>1. ASSUME NEW i \in Items, NEW t \in Times, CallSchedule(i, t)
        PROVE  Promise!Next
    <2>1. Promise!Set(i, t)
      BY <1>1 DEF CallSchedule, Schedule, Promise!Set
    <2> QED BY <2>1 DEF Promise!Next, Promise!Times, Times
  <1>2. ASSUME NEW i \in Items, CallInvalidate(i)
        PROVE  Promise!Next
    <2>1. Promise!Clear(i)
      BY <1>2 DEF CallInvalidate, Invalidate, Promise!Clear,
                  Promise!Unscheduled, Absent
    <2> QED BY <2>1 DEF Promise!Next
  <1>3. ASSUME NEW t \in Times, CallPopDue(t)
        PROVE  Promise!Next
    BY <1>3, PopDueRefines DEF Promise!Next, Promise!Times, Times
  <1>4. CASE UNCHANGED callVars
    BY <1>4 DEF callVars
  <1> QED BY <1>1, <1>2, <1>3, <1>4 DEF CallsNext

\* The reused generation is all that keeps the wheel from what pop_due says:
\* where no item gets the generation of an entry of it that is still in the
\* heap, the wheel implements RotationSchedule.
THEOREM WheelKeepsPromise ==
  CallsSpec /\ [][FreshGenerations]_callVars => ImplementsSchedule
  <1>1. CallsInit => Promise!Init /\ Unambiguous
    BY DEF CallsInit, WheelInit, Promise!Init, Promise!Unscheduled, Absent,
           Unambiguous
  <1> QED BY <1>1, CallsInitIInv, CallsStepIInv, CallsStepUnambiguous,
             CallsStepRefines, PTL
          DEF CallsSpec, ImplementsSchedule, Promise!Spec

-----------------------------------------------------------------------------
(***************************************************************************)
(* The engine.                                                             *)
(***************************************************************************)
\* Past the score check, a sweep holds an item of its own tenant...
OwnItemInHand ==
  \A t \in Tenants :
    /\ sweep[t].pc = "score" => sweep[t].cur \in Items
    /\ sweep[t].pc \in {"compress", "publish"} =>
         sweep[t].cur \in Items /\ TenantOf[sweep[t].cur] = t

\* ... that is Active until this sweep compresses it, and compressed but not
\* announced until this sweep publishes.
HandMatchesState ==
  \A t \in Tenants :
    /\ sweep[t].pc = "compress" => life[sweep[t].cur] = "active"
    /\ sweep[t].pc = "publish" => /\ life[sweep[t].cur] = "compressed"
                                   /\ events[sweep[t].cur] = 0

AnnouncedOnce ==
  \A i \in Items : /\ events[i] \in {0, 1}
                   /\ life[i] = "active" => events[i] = 0

-----------------------------------------------------------------------------
\* A scheduled delay is never shorter than the time to the crossing, nor
\* longer than the time to MaxAge.
LEMMA DeadlineBounds ==
  ASSUME NEW r \in Int, r >= -1, NEW m \in Times, NEW c \in Nat,
         Deadline(r, m, c) # Pinned
  PROVE  /\ Deadline(r, m, c) \in Nat
         /\ Larger(r, 0) <= Deadline(r, m, c)
         /\ Deadline(r, m, c) <= m
  BY BoundsAssumption DEF Deadline, Larger, Smaller, Times

\* Which sweep record a step of tenant t's sweep leaves behind.
LEMMA ContinueType ==
  ASSUME sweep \in [Tenants -> SweepRecords],
         NEW t \in Tenants, NEW r \in SweepRecords, Continue(t, r)
  PROVE  /\ sweep' \in [Tenants -> SweepRecords]
         /\ sweep'[t] = r
         /\ \A u \in Tenants \ {t} : sweep'[u] = sweep[u]
  BY DEF Continue

\* A sweep whose entry in hand is done with goes on to the next one.
LEMMA HandIsEmpty ==
  ASSUME sweep \in [Tenants -> SweepRecords], NEW t \in Tenants
  PROVE  /\ Unconsumed(t) => sweep'[t].pc = "next"
         /\ Publish(t) => sweep'[t].pc = "next"
         /\ SweepAborts(t) => sweep'[t].pc = "idle"
         /\ PortFails(t) => sweep'[t].pc = "next"
  <1> DEFINE r == [sweep[t] EXCEPT !.pc = "next", !.cur = NoItem]
  <1>1. r.pc = "next" /\ Idle.pc = "idle"
    BY DEF SweepRecords, Idle
  <1> HIDE DEF r
  <1>2. Continue(t, r) => sweep'[t].pc = "next"
    BY <1>1 DEF Continue
  <1>3. Continue(t, Idle) => sweep'[t].pc = "idle"
    BY <1>1 DEF Continue
  <1> QED BY <1>2, <1>3 DEF r, Unconsumed, Publish, SweepAborts, PortFails

\* An idle sweep is well formed.
LEMMA IdleType == Idle \in SweepRecords
  BY DEF Idle, SweepRecords

\* The wheel and the clock: what does not depend on whose sweep holds what.
InTime == TypeOK /\ LiveEntryInHeap /\ DeadlineAfterCrossing

\* The initial states are well formed.
LEMMA InitType == Init => InTime
  <1> SUFFICES ASSUME Init PROVE InTime
    OBVIOUS
  <1>1. WheelIInv
    BY WheelInitIInv DEF Init
  <1> QED BY <1>1, BoundsAssumption, EngineAssumption, IdleType
          DEF Init, InTime, TypeOK, WheelIInv, DeadlineAfterCrossing, WheelInit,
              IsLive, Times

\* schedule_or_pin sets a deadline that is in the horizon and not early.
LEMMA ScheduleOrPinType ==
  ASSUME InTime, NEW i \in Items,
         NEW r \in -1 .. MaxTime + 1, NEW m \in Times, NEW c \in Cooldowns,
         now + r <= MaxTime + 1, ScheduleOrPin(i, r, m, c)
  PROVE  InTime'
  <1> USE DEF InTime, WheelIInv
  <1> DEFINE delta == Deadline(r, m, c)
             q == Larger(r, 0)
  <1>0. q \in Nat /\ now + q <= MaxTime + 1 /\ now \in Nat
    BY BoundsAssumption DEF TypeOK, Times, Larger
  <1>1. /\ now + m <= MaxTime
        /\ mutations' \in 0 .. MaxMutations
        /\ crosses' = [crosses EXCEPT ![i] = now + q]
        /\ UNCHANGED <<now, life, sweep, events, faults>>
    BY EngineAssumption DEF ScheduleOrPin, TypeOK
  <1> HIDE DEF q
  <1>2. /\ now + q \in 0 .. MaxTime + 1
        /\ crosses' \in [Items -> 0 .. MaxTime + 1]
        /\ crosses'[i] = now + q
        /\ \A j \in Items \ {i} : crosses'[j] = crosses[j]
    BY <1>0, <1>1, BoundsAssumption DEF TypeOK, Times
  <1>3. ASSUME WheelIInv', \A j \in Items \ {i} : gen'[j] = gen[j] /\ dueAt'[j] = dueAt[j],
               gen'[i] = 0 \/ dueAt'[i] >= now + q
        PROVE  InTime'
    <2>1. DeadlineAfterCrossing'
      BY <1>2, <1>3 DEF DeadlineAfterCrossing, IsLive
    <2> QED BY <1>1, <1>2, <1>3, <2>1 DEF TypeOK, Times, SweepRecords
  <1>4. CASE delta = Pinned
    <2>1. Invalidate(i)
      BY <1>4 DEF ScheduleOrPin
    <2>2. WheelIInv'
      BY <2>1, InvalidateIInv DEF TypeOK
    <2> QED BY <1>3, <2>1, <2>2 DEF Invalidate, TypeOK, WheelTypeOK
  <1>5. CASE delta # Pinned
    <2> DEFINE d == now + delta
    <2>1. Schedule(i, d)
      BY <1>5 DEF ScheduleOrPin
    <2>2. d \in Times /\ now + q <= d
      <3>1. r \in Int /\ r >= -1 /\ c \in Nat /\ m \in Nat
        BY EngineAssumption, BoundsAssumption DEF Times
      <3>2. delta \in Nat /\ q <= delta /\ delta <= m
        BY <1>5, <3>1, DeadlineBounds DEF q
      <3> HIDE DEF delta
      <3> QED BY <1>0, <1>1, <3>1, <3>2, BoundsAssumption DEF Times
    <2> HIDE DEF d
    <2>3. WheelIInv'
      BY <2>1, <2>2, ScheduleIInv DEF TypeOK
    <2>4. /\ dueAt'[i] = d
          /\ \A j \in Items \ {i} : gen'[j] = gen[j] /\ dueAt'[j] = dueAt[j]
      BY <2>1 DEF Schedule, TypeOK, WheelTypeOK
    <2>5. dueAt'[i] >= now + q
      BY <1>0, <1>2, <2>2, <2>4, BoundsAssumption DEF Times
    <2> QED BY <1>3, <2>3, <2>4, <2>5
  <1> QED BY <1>4, <1>5

\* pop_due keeps the state well formed, and no deadline becomes early.
LEMMA StartSweepType ==
  ASSUME InTime, NEW t \in Tenants, StartSweep(t)
  PROVE  InTime'
  <1> USE DEF InTime, WheelIInv
  <1>1. /\ PopDue(now)
        /\ UNCHANGED <<now, crosses, life, events, mutations, faults>>
    BY DEF StartSweep
  <1>2. WheelIInv'
    BY <1>1, PopDueIInv DEF TypeOK
  <1>3. [Idle EXCEPT !.pc = "next", !.due = Surfaced(now)] \in SweepRecords
    BY SurfacedType DEF Idle, SweepRecords, TypeOK
  <1>4. sweep' \in [Tenants -> SweepRecords]
    BY <1>3, ContinueType DEF StartSweep, TypeOK
  <1>5. DeadlineAfterCrossing'
    BY <1>1 DEF PopDue, DeadlineAfterCrossing, IsLive
  <1> QED BY <1>1, <1>2, <1>4, <1>5 DEF TypeOK, Times, SweepRecords

\* The other steps of a sweep leave the wheel, the clock and scores alone.
LEMMA SweepType ==
  ASSUME InTime, NEW t \in Tenants, OwnItemInHand,
         \/ TakeEntry(t) \/ Score(t) \/ Compress(t) \/ Publish(t)
         \/ EndSweep(t) \/ PortFails(t) \/ SweepAborts(t)
  PROVE  InTime'
  <1> USE DEF InTime
  <1>1. /\ UNCHANGED <<heap, gen, dueAt, now, crosses, mutations>>
        /\ sweep[t] \in SweepRecords
    BY DEF TakeEntry, Score, Compress, Publish, EndSweep, PortFails,
           SweepAborts, TypeOK
  <1>2. sweep' \in [Tenants -> SweepRecords]
    <2>1. ASSUME NEW r \in SweepRecords, Continue(t, r)
          PROVE  sweep' \in [Tenants -> SweepRecords]
      BY <2>1, ContinueType DEF TypeOK
    <2>2. \A pc \in {"next", "score", "compress", "publish"} :
            [sweep[t] EXCEPT !.pc = pc] \in SweepRecords
      BY <1>1 DEF SweepRecords
    <2>4. ASSUME NEW e \in sweep[t].due
          PROVE  [sweep[t] EXCEPT !.pc = "score", !.cur = e.item,
                                  !.due = @ \ {e}] \in SweepRecords
      BY <1>1, <2>4 DEF SweepRecords
    <2>5. [sweep[t] EXCEPT !.pc = "next", !.cur = NoItem] \in SweepRecords
      BY <1>1 DEF SweepRecords
    <2>6. CASE TakeEntry(t)
      BY <2>1, <2>4, <2>6 DEF TakeEntry
    <2>7. CASE Score(t)
      BY <2>1, <2>2, <2>5, <2>7 DEF Score, Unconsumed
    <2>8. CASE Compress(t)
      BY <2>1, <2>2, <2>8 DEF Compress
    <2>9. CASE Publish(t)
      BY <2>1, <2>5, <2>9 DEF Publish
    <2>10. CASE EndSweep(t) \/ SweepAborts(t)
      BY <2>1, <2>10, IdleType DEF EndSweep, SweepAborts
    <2>11. CASE PortFails(t)
      BY <2>1, <2>5, <2>11 DEF PortFails, Unconsumed
    <2> QED BY <2>6, <2>7, <2>8, <2>9, <2>10, <2>11
  <1>3. life' \in [Items -> {"active", "compressed"}]
    BY DEF TakeEntry, Score, Compress, Publish, EndSweep, PortFails,
           SweepAborts, StoreCompressed, TypeOK
  <1>4. events' \in [Items -> Nat]
    <2>1. CASE sweep[t].pc = "publish" /\ Announce(t)
      <3>1. sweep[t].cur \in Items /\ events \in [Items -> Nat]
        BY <2>1 DEF OwnItemInHand, TypeOK
      <3> QED BY <2>1, <3>1 DEF Announce
    <2>2. CASE UNCHANGED events
      BY <2>2 DEF TypeOK
    <2> QED BY <2>1, <2>2 DEF TakeEntry, Score, Compress, Publish, EndSweep,
                              PortFails, SweepAborts
  <1>5. faults' \in 0 .. MaxFaults
    <2>1. CASE PortFails(t) \/ SweepAborts(t)
      BY <2>1, EngineAssumption DEF PortFails, SweepAborts, Fault, TypeOK
    <2>2. CASE ~(PortFails(t) \/ SweepAborts(t))
      <3>1. faults' = faults
        BY <2>2 DEF TakeEntry, Score, Compress, Publish, EndSweep
      <3> QED BY <3>1 DEF TypeOK
    <2> QED BY <2>1, <2>2
  <1>6. WheelTypeOK' /\ now' \in Times /\ crosses' \in [Items -> 0 .. MaxTime + 1]
    BY <1>1 DEF TypeOK, WheelTypeOK, IsLive, Times, Absent, Entries
  <1>7. DeadlineAfterCrossing' /\ LiveEntryInHeap'
    BY <1>1 DEF DeadlineAfterCrossing, LiveEntryInHeap, IsLive
  <1>8. mutations' \in 0 .. MaxMutations
    BY <1>1 DEF TypeOK
  <1> QED BY <1>2, <1>3, <1>4, <1>5, <1>6, <1>7, <1>8
          DEF TypeOK, Times, SweepRecords

\* A crash leaves an empty wheel.
LEMMA CrashType ==
  ASSUME InTime, Crash
  PROVE  InTime'
  <1> USE DEF InTime
  <1>1. WheelIInv'
    BY BoundsAssumption
    DEF Crash, WheelIInv, WheelTypeOK, LiveEntryInHeap, IsLive, Absent, Times,
        Entries
  <1>2. DeadlineAfterCrossing'
    BY DEF Crash, DeadlineAfterCrossing, IsLive
  <1>3. /\ now' \in Times /\ crosses' \in [Items -> 0 .. MaxTime + 1]
        /\ life' \in [Items -> {"active", "compressed"}]
        /\ events' \in [Items -> Nat] /\ mutations' \in 0 .. MaxMutations
    BY DEF Crash, TypeOK, Times
  <1>4. faults' \in 0 .. MaxFaults
    BY EngineAssumption DEF Crash, Fault, TypeOK
  <1>5. sweep' \in [Tenants -> SweepRecords]
    BY IdleType DEF Crash
  <1> QED BY <1>1, <1>2, <1>3, <1>4, <1>5
          DEF WheelIInv, TypeOK, Times, SweepRecords

-----------------------------------------------------------------------------
HandsInOrder == /\ OwnItemInHand
                /\ HandMatchesState
                /\ AnnouncedOnce

IInv == InTime /\ HandsInOrder

\* The inductive invariant holds in the initial states.
LEMMA InitIInv == Init => IInv
  BY InitType DEF Init, Idle, IInv, HandsInOrder, OwnItemInHand, HandMatchesState,
                  AnnouncedOnce

\* What a step of tenant t's sweep does to the conjuncts about hands:
\* another sweep holds another item, since its item has another owner.
LEMMA SweepIInv ==
  ASSUME IInv, NEW t \in Tenants,
         \/ StartSweep(t) \/ TakeEntry(t) \/ Score(t) \/ Compress(t)
         \/ Publish(t) \/ EndSweep(t) \/ PortFails(t) \/ SweepAborts(t)
  PROVE  HandsInOrder'
  <1> DEFINE i == sweep[t].cur
  <1>0. /\ sweep \in [Tenants -> SweepRecords]
        /\ life \in [Items -> {"active", "compressed"}]
        /\ events \in [Items -> Nat]
        /\ sweep[t] \in SweepRecords
    BY DEF IInv, InTime, TypeOK
  <1>1. ASSUME NEW r \in SweepRecords, Continue(t, r), UNCHANGED <<life, events>>,
               r.pc = "score" => r.cur \in Items,
               r.pc # "publish",
               r.pc = "compress" => /\ r.cur \in Items
                                    /\ TenantOf[r.cur] = t
                                    /\ life[r.cur] = "active"
        PROVE  HandsInOrder'
    <2>1. sweep'[t] = r /\ \A u \in Tenants \ {t} : sweep'[u] = sweep[u]
      BY <1>0, <1>1, ContinueType
    <2> QED BY <1>1, <2>1
            DEF IInv, HandsInOrder, OwnItemInHand, HandMatchesState, AnnouncedOnce
  <1>2. CASE StartSweep(t)
    <2> DEFINE r == [Idle EXCEPT !.pc = "next", !.due = Surfaced(now)]
    <2>0. Surfaced(now) \subseteq [item : Items, due : Times]
      BY SurfacedType DEF IInv, InTime, TypeOK
    <2>1. r \in SweepRecords /\ r.pc = "next"
      BY <2>0 DEF Idle, SweepRecords
    <2>2. Continue(t, r) /\ UNCHANGED <<life, events>>
      BY <1>2 DEF StartSweep
    <2> HIDE DEF r
    <2> QED BY <1>1, <2>1, <2>2
  <1>3. CASE TakeEntry(t)
    <2>1. PICK e \in sweep[t].due :
            Continue(t, [sweep[t] EXCEPT !.pc = "score", !.cur = e.item,
                                         !.due = @ \ {e}])
      BY <1>3 DEF TakeEntry
    <2> DEFINE r == [sweep[t] EXCEPT !.pc = "score", !.cur = e.item,
                                     !.due = @ \ {e}]
    <2>2. r \in SweepRecords /\ r.pc = "score" /\ r.cur \in Items
      BY <1>0 DEF SweepRecords
    <2>3. UNCHANGED <<life, events>>
      BY <1>3 DEF TakeEntry
    <2> HIDE DEF r
    <2> QED BY <1>1, <2>1, <2>2, <2>3 DEF r
  <1>4. ASSUME Unconsumed(t), UNCHANGED <<life, events>>
        PROVE  HandsInOrder'
    <2> DEFINE r == [sweep[t] EXCEPT !.pc = "next", !.cur = NoItem]
    <2>1. r \in SweepRecords /\ r.pc = "next"
      BY <1>0 DEF SweepRecords
    <2>2. Continue(t, r)
      BY <1>4 DEF Unconsumed
    <2> HIDE DEF r
    <2> QED BY <1>1, <1>4, <2>1, <2>2
  <1>5. CASE Score(t)
    <2>1. i \in Items /\ sweep[t].pc = "score" /\ UNCHANGED <<life, events>>
      BY <1>5 DEF Score, IInv, HandsInOrder, OwnItemInHand
    <2>2. CASE Unconsumed(t)
      BY <1>4, <2>1, <2>2
    <2>3. CASE ~Unconsumed(t)
      <3> DEFINE r == [sweep[t] EXCEPT !.pc = "compress"]
      <3>1. Continue(t, r) /\ TenantOf[i] = t /\ life[i] = "active"
        BY <1>5, <2>3 DEF Score
      <3>2. r \in SweepRecords /\ r.pc = "compress" /\ r.cur = i
        BY <1>0 DEF SweepRecords
      <3> HIDE DEF r, i
      <3> QED BY <1>1, <2>1, <3>1, <3>2
    <2> QED BY <2>2, <2>3
  \* compress takes effect, and the sweep goes on to publish or gives up.
  <1>6. ASSUME NEW r \in SweepRecords, Continue(t, r), StoreCompressed(t),
               events' = events, sweep[t].pc = "compress",
               r.pc \in {"idle", "next", "publish"},
               r.pc = "publish" => r.cur = i
        PROVE  HandsInOrder'
    <2>1. sweep'[t] = r /\ \A u \in Tenants \ {t} : sweep'[u] = sweep[u]
      BY <1>0, <1>6, ContinueType
    <2>2. i \in Items /\ TenantOf[i] = t /\ events[i] = 0
      BY <1>6 DEF IInv, HandsInOrder, OwnItemInHand, HandMatchesState, AnnouncedOnce
    <2>3. life' = [life EXCEPT ![i] = "compressed"]
      BY <1>6 DEF StoreCompressed
    <2>4. /\ life'[i] = "compressed"
          /\ \A j \in Items \ {i} : life'[j] = life[j]
      BY <1>0, <2>2, <2>3
    <2> HIDE DEF i
    <2>5. OwnItemInHand'
      BY <1>6, <2>1, <2>2 DEF IInv, HandsInOrder, OwnItemInHand
    <2>6. HandMatchesState'
      BY <1>6, <2>1, <2>2, <2>4
      DEF IInv, HandsInOrder, OwnItemInHand, HandMatchesState
    <2>7. AnnouncedOnce'
      BY <1>6, <2>2, <2>4 DEF IInv, HandsInOrder, AnnouncedOnce
    <2> QED BY <2>5, <2>6, <2>7 DEF HandsInOrder
  <1>7. CASE Compress(t)
    <2> DEFINE r == [sweep[t] EXCEPT !.pc = "publish"]
    <2>1. r \in SweepRecords /\ r.pc = "publish" /\ r.cur = i
      BY <1>0 DEF SweepRecords
    <2>2. /\ Continue(t, r) /\ events' = events /\ StoreCompressed(t)
          /\ sweep[t].pc = "compress"
      BY <1>7 DEF Compress
    <2> HIDE DEF r
    <2> QED BY <1>6, <2>1, <2>2
  \* The event goes out, and the sweep goes on to the next entry or ends.
  <1>8. ASSUME NEW r \in SweepRecords, Continue(t, r), Announce(t),
               life' = life, sweep[t].pc = "publish", r.pc \in {"idle", "next"}
        PROVE  HandsInOrder'
    <2>1. sweep'[t] = r /\ \A u \in Tenants \ {t} : sweep'[u] = sweep[u]
      BY <1>0, <1>8, ContinueType
    <2>2. /\ i \in Items /\ TenantOf[i] = t /\ events[i] = 0
          /\ life[i] = "compressed"
      BY <1>8 DEF IInv, HandsInOrder, OwnItemInHand, HandMatchesState
    <2>3. events' = [events EXCEPT ![i] = @ + 1]
      BY <1>8 DEF Announce
    <2>4. /\ events'[i] = 1
          /\ \A j \in Items \ {i} : events'[j] = events[j]
      BY <1>0, <2>2, <2>3
    <2> HIDE DEF i
    <2>5. OwnItemInHand'
      BY <1>8, <2>1 DEF IInv, HandsInOrder, OwnItemInHand
    <2>6. HandMatchesState'
      BY <1>8, <2>1, <2>2, <2>4
      DEF IInv, HandsInOrder, OwnItemInHand, HandMatchesState
    <2>7. AnnouncedOnce'
      BY <1>8, <2>2, <2>4 DEF IInv, HandsInOrder, AnnouncedOnce
    <2> QED BY <2>5, <2>6, <2>7 DEF HandsInOrder
  <1>9. CASE Publish(t)
    <2> DEFINE r == [sweep[t] EXCEPT !.pc = "next", !.cur = NoItem]
    <2>1. r \in SweepRecords /\ r.pc = "next"
      BY <1>0 DEF SweepRecords
    <2>2. /\ Continue(t, r) /\ Announce(t) /\ life' = life
          /\ sweep[t].pc = "publish"
      BY <1>9 DEF Publish
    <2> HIDE DEF r
    <2> QED BY <1>8, <2>1, <2>2
  <1>10. CASE EndSweep(t)
    <2>1. Continue(t, Idle) /\ UNCHANGED <<life, events>>
      BY <1>10 DEF EndSweep
    <2> QED BY <1>1, <2>1, IdleType DEF Idle
  <1>11. CASE SweepAborts(t)
    <2>1. Continue(t, Idle) /\ Idle.pc = "idle"
      BY <1>11 DEF SweepAborts, Idle
    <2>2. \/ UNCHANGED <<life, events>>
          \/ sweep[t].pc = "compress" /\ StoreCompressed(t) /\ events' = events
          \/ sweep[t].pc = "publish" /\ Announce(t) /\ life' = life
      BY <1>11 DEF SweepAborts
    <2> QED BY <1>1, <1>6, <1>8, <2>1, <2>2, IdleType
  <1>12. CASE PortFails(t)
    <2> DEFINE r == [sweep[t] EXCEPT !.pc = "next", !.cur = NoItem]
    <2>1. r \in SweepRecords /\ r.pc = "next"
      BY <1>0 DEF SweepRecords
    <2>2. Unconsumed(t) /\ Continue(t, r) /\ events' = events
      BY <1>12 DEF PortFails, Unconsumed
    <2>3. \/ UNCHANGED life
          \/ sweep[t].pc = "compress" /\ StoreCompressed(t)
      BY <1>12 DEF PortFails
    <2> HIDE DEF r
    <2> QED BY <1>4, <1>6, <2>1, <2>2, <2>3
  <1> QED BY <1>2, <1>3, <1>5, <1>7, <1>9, <1>10, <1>11, <1>12

\* Every step keeps the inductive invariant.
LEMMA StepIInv == IInv /\ [Next]_vars => IInv'
  <1> SUFFICES ASSUME IInv, [Next]_vars PROVE IInv'
    OBVIOUS
  <1>1. ASSUME NEW i \in Items, NEW r \in -1 .. MaxTime + 1, NEW m \in Times,
               NEW c \in Cooldowns,
               now + r <= MaxTime + 1, ScheduleOrPin(i, r, m, c)
        PROVE  IInv'
    <2>1. UNCHANGED <<life, sweep, events>>
      BY <1>1 DEF ScheduleOrPin
    <2> QED BY <1>1, <2>1, ScheduleOrPinType
            DEF IInv, HandsInOrder, OwnItemInHand, HandMatchesState,
                AnnouncedOnce
  <1>2. CASE Tick
    <2>1. /\ UNCHANGED <<mutations, heap, gen, dueAt, crosses, life, sweep,
                        events, faults>>
          /\ now' \in Times
      BY <1>2, BoundsAssumption DEF Tick, IInv, InTime, TypeOK, Times
    <2> QED BY <2>1
            DEF IInv, InTime, TypeOK, WheelTypeOK, DeadlineAfterCrossing,
                LiveEntryInHeap, IsLive, Times, Absent, Entries, SweepRecords, HandsInOrder, OwnItemInHand,
                HandMatchesState, AnnouncedOnce
  <1>3. ASSUME NEW t \in Tenants, SweepStep(t) \/ PortFails(t) \/ SweepAborts(t)
        PROVE  IInv'
    <2>1. HandsInOrder'
      BY <1>3, SweepIInv DEF SweepStep
    <2>2. InTime'
      BY <1>3, StartSweepType, SweepType DEF SweepStep, IInv, HandsInOrder
    <2> QED BY <2>1, <2>2 DEF IInv
  <1>4. CASE Crash
    <2>1. HandsInOrder'
      BY <1>4 DEF Crash, Idle, IInv, HandsInOrder, OwnItemInHand,
                  HandMatchesState, AnnouncedOnce
    <2> QED BY <1>4, <2>1, CrashType DEF IInv
  <1>5. CASE UNCHANGED vars
    BY <1>5
    DEF vars, IInv, InTime, TypeOK, WheelTypeOK, DeadlineAfterCrossing,
        LiveEntryInHeap, IsLive, Times, Absent, Entries, SweepRecords, HandsInOrder, OwnItemInHand,
        HandMatchesState, AnnouncedOnce
  <1> QED BY <1>1, <1>2, <1>3, <1>4, <1>5 DEF Next

\* Every reachable state of the engine is well formed, deadlines stay within
\* the MaxAge horizon.
THEOREM EngineTypeCorrect == Spec => []TypeOK
  <1>1. IInv => TypeOK
    BY DEF IInv, InTime
  <1> QED BY <1>1, InitIInv, StepIInv, PTL DEF Spec

\* The engine never loses a deadline: whatever it schedules, pins, pops and
\* gives up on, each live deadline has its entry in the heap.
THEOREM EngineKeepsDeadlines == Spec => []LiveEntryInHeap
  <1>1. IInv => LiveEntryInHeap
    BY DEF IInv, InTime
  <1> QED BY <1>1, InitIInv, StepIInv, PTL DEF Spec

\* No live deadline lies before the instant its item's score reaches the
\* threshold.
THEOREM DeadlinesAreLateEnough == Spec => []DeadlineAfterCrossing
  <1>1. IInv => DeadlineAfterCrossing
    BY DEF IInv, InTime
  <1> QED BY <1>1, InitIInv, StepIInv, PTL DEF Spec

\* memory.compressed is published at most once for an item, whatever number
\* of tenants sweep the zone.
THEOREM CompressionIsAnnouncedOnce == Spec => []CompressedOnce
  <1>1. IInv => CompressedOnce
    <2> SUFFICES ASSUME AnnouncedOnce, NEW i \in Items
                 PROVE  events[i] <= 1
      BY DEF IInv, HandsInOrder, CompressedOnce
    <2>1. events[i] = 0 \/ events[i] = 1
      BY DEF AnnouncedOnce
    <2> QED BY <2>1
  <1> QED BY <1>1, InitIInv, StepIInv, PTL DEF Spec

\* Every step announces and silences as EventMatchesState says.
LEMMA StepAnnounces ==
  ASSUME IInv, IInv', [Next]_vars
  PROVE  /\ \A i \in Items : events'[i] > events[i] => life[i] = "compressed"
         /\ \A i \in Silent' \ Silent :
              /\ faults' > faults
              /\ \E t \in Tenants : /\ sweep[t].pc \in {"compress", "publish"}
                                   /\ sweep[t].cur = i
         /\ Silent \subseteq Silent'
  <1>0. /\ sweep \in [Tenants -> SweepRecords]
        /\ life \in [Items -> {"active", "compressed"}]
        /\ events \in [Items -> Nat] /\ faults \in Nat
        /\ HandsInOrder
    BY EngineAssumption DEF IInv, InTime, TypeOK
  \* Steps that neither store nor announce, nor drop a compressed item.
  <1>1. ASSUME UNCHANGED <<life, events>>,
               \A t \in Tenants : sweep'[t].pc = "publish" \/ sweep[t].pc = "publish"
                                 => sweep'[t] = sweep[t]
        PROVE  Silent' = Silent
    BY <1>1 DEF Silent
  <1>2. ASSUME UNCHANGED <<life, events, sweep>>
        PROVE  Silent' = Silent
    BY <1>2 DEF Silent
  <1>3. CASE UNCHANGED <<life, events, sweep>>
    BY <1>0, <1>2, <1>3
  <1>4. CASE Crash
    <2>1. UNCHANGED <<life, events>> /\ faults' > faults
      BY <1>0, <1>4 DEF Crash, Fault
    <2>2. Silent \subseteq Silent'
      BY <1>4, <2>1 DEF Crash, Idle, Silent
    <2>3. ASSUME NEW i \in Silent' \ Silent
          PROVE  \E t \in Tenants : sweep[t].pc = "publish" /\ sweep[t].cur = i
      BY <2>1, <2>3 DEF Silent
    <2> QED BY <1>0, <2>1, <2>2, <2>3
  <1>5. ASSUME NEW t \in Tenants, SweepStep(t) \/ PortFails(t) \/ SweepAborts(t)
        PROVE  /\ \A i \in Items : events'[i] > events[i] => life[i] = "compressed"
               /\ \A i \in Silent' \ Silent :
                    /\ faults' > faults
                    /\ sweep[t].pc \in {"compress", "publish"}
                    /\ sweep[t].cur = i
               /\ Silent \subseteq Silent'
    <2> DEFINE i == sweep[t].cur
    <2>1. \A u \in Tenants \ {t} : sweep'[u] = sweep[u]
      BY <1>0, <1>5 DEF SweepStep, StartSweep, TakeEntry, Score, Compress, Publish,
                        EndSweep, PortFails, SweepAborts, Unconsumed, Continue
    <2>2. CASE UNCHANGED <<life, events>> /\ sweep[t].pc # "publish"
               /\ sweep'[t].pc # "publish"
      <3>1. Silent' = Silent
        BY <1>1, <2>1, <2>2
      <3> QED BY <1>0, <2>2, <3>1
    <2>3. CASE Compress(t)
      <3>1. i \in Items /\ events' = events /\ sweep[t].pc = "compress"
        BY <2>3, <1>0 DEF Compress, HandsInOrder, OwnItemInHand
      <3>2. sweep'[t].pc = "publish" /\ sweep'[t].cur = i
        BY <1>0, <2>3 DEF Compress, Continue, SweepRecords
      <3>3. life' = [life EXCEPT ![i] = "compressed"] /\ life[i] = "active"
        BY <1>0, <2>3 DEF Compress, StoreCompressed, HandsInOrder, HandMatchesState
      <3>4. life'[i] = "compressed" /\ \A j \in Items \ {i} : life'[j] = life[j]
        BY <1>0, <3>1, <3>3
      <3> HIDE DEF i
      <3>5. Silent' = Silent
        BY <2>1, <3>1, <3>2, <3>3, <3>4 DEF Silent
      <3> QED BY <1>0, <3>1, <3>5
    <2>4. CASE Publish(t) \/ (SweepAborts(t) /\ sweep[t].pc = "publish" /\ Announce(t))
      <3>1. /\ i \in Items /\ life[i] = "compressed" /\ events[i] = 0
            /\ life' = life /\ sweep[t].pc = "publish"
        BY <1>0, <2>4 DEF Publish, SweepAborts, HandsInOrder, OwnItemInHand,
                          HandMatchesState
      <3>2. sweep'[t].pc # "publish"
        BY <1>0, <2>4, HandIsEmpty
      <3>3. events' = [events EXCEPT ![i] = @ + 1]
        BY <2>4 DEF Publish, Announce
      <3>4. events'[i] = 1 /\ \A j \in Items \ {i} : events'[j] = events[j]
        BY <1>0, <3>1, <3>3
      <3> HIDE DEF i
      <3>5. i \notin Silent /\ i \notin Silent'
        BY <3>1, <3>4 DEF i, Silent
      <3>6. Silent' = Silent
        BY <2>1, <3>1, <3>2, <3>4, <3>5 DEF i, Silent
      <3> QED BY <1>0, <3>1, <3>4, <3>6
    <2>5. CASE /\ PortFails(t) \/ SweepAborts(t)
               /\ sweep[t].pc = "compress" /\ StoreCompressed(t) /\ events' = events
      <3>1. faults' > faults /\ i \in Items /\ life[i] = "active"
        BY <1>0, <2>5 DEF PortFails, SweepAborts, Fault, HandsInOrder,
                          OwnItemInHand, HandMatchesState
      <3>2. sweep'[t].pc # "publish"
        BY <1>0, <2>5, HandIsEmpty
      <3>3. life' = [life EXCEPT ![i] = "compressed"]
        BY <2>5 DEF StoreCompressed
      <3>4. life'[i] = "compressed" /\ \A j \in Items \ {i} : life'[j] = life[j]
        BY <1>0, <3>1, <3>3
      <3> HIDE DEF i
      <3>5. Silent \subseteq Silent' /\ Silent' \ Silent \subseteq {i}
        BY <2>1, <2>5, <3>1, <3>2, <3>4 DEF Silent
      <3> QED BY <1>0, <2>5, <3>1, <3>5 DEF i
    <2>6. CASE SweepAborts(t) /\ sweep[t].pc = "publish" /\ UNCHANGED <<life, events>>
      <3>1. faults' > faults
        BY <1>0, <2>6 DEF SweepAborts, Fault
      <3>2. sweep'[t].pc # "publish"
        BY <1>0, <2>6, HandIsEmpty
      <3> HIDE DEF i
      <3>3. Silent \subseteq Silent' /\ Silent' \ Silent \subseteq {i}
        BY <2>1, <2>6, <3>2 DEF i, Silent
      <3> QED BY <1>0, <2>6, <3>1, <3>3 DEF i
    <2>7. CASE StartSweep(t) \/ TakeEntry(t) \/ Score(t) \/ EndSweep(t)
      <3>1. UNCHANGED <<life, events>> /\ sweep[t].pc # "publish"
        BY <2>7 DEF StartSweep, TakeEntry, Score, EndSweep
      <3>2. sweep'[t].pc # "publish"
        <4>1. Score(t) => sweep'[t].pc # "publish"
          <5>1. Continue(t, [sweep[t] EXCEPT !.pc = "compress"])
                  => sweep'[t].pc = "compress"
            BY <1>0 DEF Continue, SweepRecords
          <5> QED BY <1>0, <5>1, HandIsEmpty DEF Score
        <4>2. TakeEntry(t) => sweep'[t].pc # "publish"
          BY <1>0 DEF TakeEntry, Continue, SweepRecords
        <4>3. StartSweep(t) => sweep'[t].pc # "publish"
          <5> DEFINE r == [Idle EXCEPT !.pc = "next", !.due = Surfaced(now)]
          <5>1. r.pc = "next"
            BY DEF Idle
          <5> HIDE DEF r
          <5>2. Continue(t, r) => sweep'[t].pc = "next"
            BY <1>0, <5>1 DEF Continue
          <5> QED BY <5>2 DEF r, StartSweep
        <4>4. EndSweep(t) => sweep'[t].pc # "publish"
          BY <1>0 DEF EndSweep, Continue, Idle
        <4> QED BY <2>7, <4>1, <4>2, <4>3, <4>4
      <3> QED BY <2>2, <3>1, <3>2
    <2>8. CASE /\ PortFails(t) \/ SweepAborts(t)
               /\ sweep[t].pc # "publish" /\ UNCHANGED <<life, events>>
      <3>1. sweep'[t].pc # "publish"
        BY <1>0, <2>8, HandIsEmpty
      <3> QED BY <2>2, <2>8, <3>1
    <2>9. PortFails(t) => \/ UNCHANGED <<life, events>> /\ sweep[t].pc # "publish"
                          \/ /\ sweep[t].pc = "compress" /\ StoreCompressed(t)
                             /\ events' = events
      BY DEF PortFails
    <2>10. SweepAborts(t) =>
             \/ UNCHANGED <<life, events>>
             \/ sweep[t].pc = "compress" /\ StoreCompressed(t) /\ events' = events
             \/ sweep[t].pc = "publish" /\ Announce(t)
      BY DEF SweepAborts
    <2> HIDE DEF i
    <2> QED BY <1>5, <2>3, <2>4, <2>5, <2>6, <2>7, <2>8, <2>9, <2>10 DEF SweepStep
  <1>6. CASE Next
    <2>1. ASSUME NEW i \in Items, NEW r \in -1 .. MaxTime + 1, NEW m \in Times,
                 NEW c \in Cooldowns, ScheduleOrPin(i, r, m, c)
          PROVE  UNCHANGED <<life, events, sweep>>
      BY <2>1 DEF ScheduleOrPin
    <2>2. Tick => UNCHANGED <<life, events, sweep>>
      BY DEF Tick
    <2> QED BY <1>3, <1>4, <1>5, <1>6, <2>1, <2>2 DEF Next
  <1>7. CASE UNCHANGED vars
    BY <1>3, <1>7 DEF vars
  <1> QED BY <1>6, <1>7

\* An announcement is never ahead of storage, and is lost only where compress
\* or publish raises for that item or the process stops with it in hand; and
\* what was lost is never made good: for any tenants, items and failures.
THEOREM AnnouncementMatchesStorage == Spec => EventMatchesState
  <1>1. IInv /\ IInv' /\ [Next]_vars =>
          [/\ \A i \in Items : events'[i] > events[i] => life[i] = "compressed"
           /\ \A i \in Silent' \ Silent :
                /\ faults' > faults
                /\ \E t \in Tenants : /\ sweep[t].pc \in {"compress", "publish"}
                                     /\ sweep[t].cur = i
           /\ Silent \subseteq Silent']_vars
    BY StepAnnounces
  <1> QED BY <1>1, InitIInv, StepIInv, PTL DEF Spec, EventMatchesState

\* What pop_due surfaces covers everything due, under generations reused or
\* not.
LEMMA SweepTakesDue ==
  ASSUME IInv, [Next]_vars, NEW t \in Tenants,
         sweep[t].pc = "idle", sweep'[t].pc # "idle",
         NEW i \in Items, IsLive(i), dueAt[i] <= now
  PROVE  /\ \E e \in sweep'[t].due : e.item = i
         /\ gen'[i] = 0
  <1>0. /\ sweep \in [Tenants -> SweepRecords] /\ now \in Times
        /\ WheelIInv /\ HandsInOrder
    BY DEF IInv, InTime, TypeOK, WheelIInv
  <1>1. StartSweep(t)
    <2>1. CASE UNCHANGED sweep
      BY <2>1
    <2>2. CASE Crash
      BY <2>2 DEF Crash, Idle
    <2>3. ASSUME NEW u \in Tenants, SweepStep(u) \/ PortFails(u) \/ SweepAborts(u)
          PROVE  u = t /\ StartSweep(u)
      <3>1. \A v \in Tenants \ {u} : sweep'[v] = sweep[v]
        BY <1>0, <2>3
        DEF SweepStep, StartSweep, TakeEntry, Score, Compress, Publish, EndSweep,
            PortFails, SweepAborts, Unconsumed, Continue
      <3>2. u = t
        BY <3>1
      <3> QED BY <2>3, <3>2
              DEF SweepStep, TakeEntry, Score, Compress, Publish, EndSweep,
                  PortFails, SweepAborts
    <2>4. ASSUME NEW j \in Items, NEW r \in -1 .. MaxTime + 1, NEW m \in Times,
                 NEW c \in Cooldowns, ScheduleOrPin(j, r, m, c)
          PROVE  UNCHANGED sweep
      BY <2>4 DEF ScheduleOrPin
    <2> QED BY <2>1, <2>2, <2>3, <2>4 DEF Next, Tick, vars
  <1>2. i \in SurfacedItems(now)
    BY <1>0, DueIsSurfaced
  <1>3. \E e \in Surfaced(now) : e.item = i
    BY <1>0, <1>2, AnswerIsSurfaced DEF WheelIInv
  <1>4. sweep'[t].due = Surfaced(now) /\ gen'[i] = 0
    BY <1>0, <1>1, <1>2 DEF StartSweep, PopDue, Continue, Idle
  <1> QED BY <1>3, <1>4

\* A sweep takes everything whose deadline has passed, and leaves none of it
\* scheduled, for any items, tenants and order of calls.
THEOREM SweepsMissNothing == Spec => NothingDueKeptBack
  <1>1. IInv /\ [Next]_vars =>
          [\A t \in Tenants : sweep[t].pc = "idle" /\ sweep'[t].pc # "idle" =>
             \A i \in Items : IsLive(i) /\ dueAt[i] <= now =>
               /\ \E e \in sweep'[t].due : e.item = i
               /\ gen'[i] = 0]_vars
    BY SweepTakesDue
  <1> QED BY <1>1, InitIInv, StepIInv, PTL DEF Spec, NothingDueKeptBack
=============================================================================
