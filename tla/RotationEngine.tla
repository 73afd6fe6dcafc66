--------------------------- MODULE RotationEngine ---------------------------
(***************************************************************************)
(* application/rotation_engine.py for one zone: schedule_or_pin, called on *)
(* every write, access, conflict or override of an item, and run_sweep,    *)
(* which one worker per tenant runs.  All tenants of the zone share one    *)
(* wheel.  An item's MemoryScore only decays between two mutations, so it  *)
(* is modelled by the instant at which it falls to CompressThreshold.      *)
(* The candidate and transition ports have no implementation in the        *)
(* repository: they answer, or raise RotationEnginePortError, or raise     *)
(* something else, which ends the sweep; a compress that raises may have   *)
(* taken effect, and a publish that raises may have reached subscribers.   *)
(* The process may stop anywhere: the wheel and the sweeps are in memory.  *)
(***************************************************************************)
EXTENDS RotationTimerWheel, Integers, FiniteSets

CONSTANTS Tenants,    \* one sweep worker each
          TenantOf,   \* TenantOf[i]: the tenant that owns item i
          Cooldowns,  \* the cooldowns (seconds left) an item may have
          NoItem,     \* no entry in hand
          MaxMutations, \* bound: mutations of items (schedule_or_pin)
          MaxFaults   \* bound: port failures, failed publishes and crashes

ASSUME EngineAssumption == /\ TenantOf \in [Items -> Tenants]
                           /\ Cooldowns \subseteq Nat
                           /\ NoItem \notin Items
                           /\ MaxMutations \in Nat
                           /\ MaxFaults \in Nat

VARIABLES now,       \* the clock
          crosses,   \* crosses[i]: when i's score reaches the threshold
          life,      \* life[i]: the RotationState of i
          sweep,     \* sweep[t]: where tenant t's run_sweep is
          events,    \* events[i]: memory.compressed events published for i
          mutations, \* mutations so far
          faults     \* what failed so far

vars == <<heap, gen, dueAt, now, crosses, life, sweep, events, mutations,
          faults>>

Pinned == MaxTime + 2

\* due: the entries popped and not yet looked at; cur: the entry in hand.
SweepRecords == [pc : {"idle", "next", "score", "compress", "publish"},
                 due : SUBSET [item : Items, due : Times],
                 cur : Items \cup {NoItem}]
Idle == [pc |-> "idle", due |-> {}, cur |-> NoItem]

Init == /\ WheelInit
        /\ now = 0
        /\ crosses = [i \in Items |-> 0]
        /\ life = [i \in Items |-> "active"]
        /\ sweep = [t \in Tenants |-> Idle]
        /\ events = [i \in Items |-> 0]
        /\ mutations = 0
        /\ faults = 0

-----------------------------------------------------------------------------
(***************************************************************************)
(* compute_rotation_deadline, over the seconds r until the score reaches   *)
(* the threshold (-1 when it is already below).  u <= u_floor is           *)
(* r >= maxAge: reaching the threshold just when MaxAge fires is too late. *)
(***************************************************************************)
Larger(a, b) == IF a >= b THEN a ELSE b
Smaller(a, b) == IF a <= b THEN a ELSE b

\* Mutant: an item that cannot cross before MaxAge is scheduled at MaxAge.
DeadlineNeverPins(r, maxAge, cooldown) ==
  Smaller(Larger(r, cooldown), maxAge)

\* Mutant: the MaxAge ceiling is forgotten.
DeadlineNoCeiling(r, maxAge, cooldown) ==
  IF r >= maxAge THEN Pinned ELSE Larger(r, cooldown)

Deadline(r, maxAge, cooldown) ==
  IF r >= maxAge THEN Pinned ELSE Smaller(Larger(r, cooldown), maxAge)

(***************************************************************************)
(* schedule_or_pin, after a mutation that moved i's score: a crossing in r *)
(* seconds, MaxAge in maxAge seconds.  It does not look at i's state.      *)
(***************************************************************************)
ScheduleOrPin(i, r, maxAge, cooldown) ==
  LET delta == Deadline(r, maxAge, cooldown)
  IN  /\ mutations < MaxMutations /\ mutations' = mutations + 1
      /\ now + maxAge <= MaxTime
      /\ crosses' = [crosses EXCEPT ![i] = now + Larger(r, 0)]
      /\ IF delta = Pinned THEN Invalidate(i) ELSE Schedule(i, now + delta)
      /\ UNCHANGED <<now, life, sweep, events, faults>>

Tick == /\ now < MaxTime
        /\ now' = now + 1
        /\ UNCHANGED <<mutations, heap, gen, dueAt, crosses, life, sweep, events, faults>>

(***************************************************************************)
(* run_sweep.                                                              *)
(***************************************************************************)
\* Tenant t's sweep goes on as the record r.
Continue(t, r) == sweep' = [sweep EXCEPT ![t] = r]

\* Pop every due entry of the zone, whoever's it is.
StartSweep(t) ==
  /\ sweep[t].pc = "idle"
  /\ PopDue(now)
  /\ Continue(t, [Idle EXCEPT !.pc = "next", !.due = Surfaced(now)])
  /\ UNCHANGED <<mutations, now, crosses, life, events, faults>>

\* The entry in hand becomes a RotationSkip or a RotationFailure of the
\* result, and nothing else becomes of it.
Unconsumed(t) == Continue(t, [sweep[t] EXCEPT !.pc = "next", !.cur = NoItem])

\* The loop takes the entries in ascending due order.
TakeEntry(t) ==
  /\ sweep[t].pc = "next"
  /\ \E e \in sweep[t].due :
       /\ \A f \in sweep[t].due : e.due <= f.due
       /\ Continue(t, [sweep[t] EXCEPT !.pc = "score", !.cur = e.item,
                                       !.due = @ \ {e}])
  /\ UNCHANGED <<mutations, heap, gen, dueAt, now, crosses, life, events, faults>>

\* Mutant: the guarded transition is not consulted.
ScoreUnguarded(t) ==
  LET i == sweep[t].cur
  IN  /\ sweep[t].pc = "score"
      /\ IF TenantOf[i] # t \/ now < crosses[i]
           THEN Unconsumed(t)
           ELSE Continue(t, [sweep[t] EXCEPT !.pc = "compress"])
      /\ UNCHANGED <<mutations, heap, gen, dueAt, now, crosses, life, events, faults>>

\* current_state, the threshold guard and guarded_transition, in that order.
\* An item of another tenant does not exist for this one: a port failure.
Score(t) ==
  LET i == sweep[t].cur
  IN  /\ sweep[t].pc = "score"
      /\ IF TenantOf[i] # t \/ now < crosses[i] \/ life[i] # "active"
           THEN Unconsumed(t)
           ELSE Continue(t, [sweep[t] EXCEPT !.pc = "compress"])
      /\ UNCHANGED <<mutations, heap, gen, dueAt, now, crosses, life, events, faults>>

\* The item in hand is stored as Compressed.
StoreCompressed(t) == life' = [life EXCEPT ![sweep[t].cur] = "compressed"]

\* memory.compressed is published for the item in hand.
Announce(t) == events' = [events EXCEPT ![sweep[t].cur] = @ + 1]

Fault == faults < MaxFaults /\ faults' = faults + 1

\* Mutant: a failed compress is logged, and the loop body goes on.
PortFailsFallsThrough(t) ==
  /\ sweep[t].pc \in {"score", "compress"}
  /\ Fault
  /\ Continue(t, [sweep[t] EXCEPT !.pc = "publish"])
  /\ UNCHANGED <<mutations, heap, gen, dueAt, now, crosses, life, events>>

\* current_state or compress raises RotationEnginePortError; compress before
\* or after it took effect.
PortFails(t) ==
  /\ sweep[t].pc \in {"score", "compress"}
  /\ Fault
  /\ Unconsumed(t)
  /\ \/ UNCHANGED life
     \/ sweep[t].pc = "compress" /\ StoreCompressed(t)
  /\ UNCHANGED <<mutations, heap, gen, dueAt, now, crosses, events>>

\* A port raises anything else, or publish raises at all: the exception
\* leaves run_sweep, before or after the call took effect.
SweepAborts(t) ==
  /\ sweep[t].pc \in {"score", "compress", "publish"}
  /\ Fault
  /\ Continue(t, Idle)
  /\ \/ UNCHANGED <<life, events>>
     \/ sweep[t].pc = "compress" /\ StoreCompressed(t) /\ UNCHANGED events
     \/ sweep[t].pc = "publish" /\ Announce(t) /\ UNCHANGED life
  /\ UNCHANGED <<mutations, heap, gen, dueAt, now, crosses>>

\* The process stops and a new one begins, with an empty wheel.
Crash ==
  /\ Fault
  /\ heap' = {}
  /\ gen' = [i \in Items |-> 0]
  /\ dueAt' = [i \in Items |-> Absent]
  /\ sweep' = [t \in Tenants |-> Idle]
  /\ UNCHANGED <<mutations, now, crosses, life, events>>

\* The transition is durable before memory.compressed is published.
Compress(t) ==
  /\ sweep[t].pc = "compress"
  /\ StoreCompressed(t)
  /\ Continue(t, [sweep[t] EXCEPT !.pc = "publish"])
  /\ UNCHANGED <<mutations, heap, gen, dueAt, now, crosses, events, faults>>

Publish(t) ==
  /\ sweep[t].pc = "publish"
  /\ Announce(t)
  /\ Continue(t, [sweep[t] EXCEPT !.pc = "next", !.cur = NoItem])
  /\ UNCHANGED <<mutations, heap, gen, dueAt, now, crosses, life, faults>>

EndSweep(t) ==
  /\ sweep[t].pc = "next" /\ sweep[t].due = {}
  /\ Continue(t, Idle)
  /\ UNCHANGED <<mutations, heap, gen, dueAt, now, crosses, life, events, faults>>

SweepStep(t) == \/ StartSweep(t) \/ TakeEntry(t) \/ Score(t)
                \/ Compress(t) \/ Publish(t) \/ EndSweep(t)

Next == \/ \E i \in Items, r \in -1 .. MaxTime + 1, maxAge \in Times,
              c \in Cooldowns :
             now + r <= MaxTime + 1 /\ ScheduleOrPin(i, r, maxAge, c)
        \/ Tick
        \/ Crash
        \/ \E t \in Tenants : SweepStep(t) \/ PortFails(t) \/ SweepAborts(t)

Spec == Init /\ [][Next]_vars

-----------------------------------------------------------------------------
(***************************************************************************)
(* Properties.                                                             *)
(***************************************************************************)

\* The state is well formed; a deadline the engine sets is within the
\* horizon, which only the MaxAge ceiling of compute_rotation_deadline sees to.
TypeOK ==
  /\ WheelTypeOK
  /\ now \in Times
  /\ crosses \in [Items -> 0 .. MaxTime + 1]
  /\ life \in [Items -> {"active", "compressed"}]
  /\ sweep \in [Tenants -> SweepRecords]
  /\ events \in [Items -> Nat]
  /\ mutations \in 0 .. MaxMutations
  /\ faults \in 0 .. MaxFaults

\* However sweeps of several tenants, accesses to an item already compressed
\* and port failures interleave, memory.compressed is published at most once
\* for an item: the entry a late access puts back is stopped by the guard.
CompressedOnce == \A i \in Items : events[i] <= 1

\* Compressed items that nobody heard of and that no sweep is about to
\* announce.
Silent ==
  {i \in Items :
     /\ life[i] = "compressed" /\ events[i] = 0
     /\ \A t \in Tenants : ~(sweep[t].pc = "publish" /\ sweep[t].cur = i)}

\* Subscribers and storage can come apart in one way only.  An event is
\* published only for an item stored as compressed before.  A compressed
\* item loses its event only in a step where compress or publish raises for
\* that very item, or the process stops with it in hand; and then for good:
\* nothing announces it afterwards, since the guard stops every later sweep.
EventMatchesState ==
  [][/\ \A i \in Items : events'[i] > events[i] => life[i] = "compressed"
     /\ \A i \in Silent' \ Silent :
          /\ faults' > faults
          /\ \E t \in Tenants : /\ sweep[t].pc \in {"compress", "publish"}
                               /\ sweep[t].cur = i
     /\ Silent \subseteq Silent']_vars

\* A sweep that starts takes every item whose deadline has passed, whoever
\* scheduled it and whatever entries of earlier lives are in the heap, and
\* leaves none of them scheduled.
NothingDueKeptBack ==
  [][\A t \in Tenants : sweep[t].pc = "idle" /\ sweep'[t].pc # "idle" =>
       \A i \in Items : IsLive(i) /\ dueAt[i] <= now =>
         /\ \E e \in sweep'[t].due : e.item = i
         /\ gen'[i] = 0]_vars

\* A live deadline never lies before the instant the score reaches the
\* threshold, so a sweep that finds it due does not find the item too hot.
DeadlineAfterCrossing ==
  \A i \in Items : IsLive(i) => dueAt[i] >= crosses[i]
=============================================================================
