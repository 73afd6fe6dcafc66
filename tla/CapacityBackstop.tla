--------------------------- MODULE CapacityBackstop ---------------------------
(***************************************************************************)
(* The capacity backstops of Zone 2 (episodic) and Zone 4 (procedural),    *)
(* the erasure cascade they go through, and the retrieval index of Zone 6  *)
(* they must keep in step.  A sweep takes a snapshot of its zone, plans    *)
(* the evictions (the items above the cap with the lowest scores, and the  *)
(* compressed ones past MaxAge) and carries them out one by one: in Zone 2 *)
(* CrossZoneDpdpErasureCascade first, then Zone 6 (HybridRetrievalIndex-   *)
(* Repository.delete_item), then the zone itself.  A subject's erasure     *)
(* calls the cascade directly.  Calls overlap, and a port may fail at      *)
(* every step.                                                             *)
(*                                                                         *)
(* A score is a reading of the moment, so a snapshot may hold any scores.  *)
(* The vector and the lexical index of Zone 6 are always written and       *)
(* cleared one right after the other and both are searched: an item is in  *)
(* both or in neither.                                                     *)
(* Left out: tenants; restarts (obligations and Zone 6 are dictionaries of *)
(* the process, and a restart begins with none).                           *)
(***************************************************************************)
EXTENDS Integers, Sequences, FiniteSets, SequencesExt

CONSTANTS Items,      \* numbered in the order written_at (or last_used_at)
                      \* and item_id give to items with the same score
          ZoneOf,     \* ZoneOf[i]: the zone i is stored in
          Callers,    \* calls running at a time
          Scores,     \* the scores told apart
          Cap,        \* Cap[z]: capacity_cap
          Indexed,    \* bound: the items the host indexes,
          Ageing,     \* the items that may be compressed and reach MaxAge,
          OfSubject,  \* and those whose erasure may be asked for
          MaxFaults   \* bound: failing port calls

Zones == {"episodic", "procedural"}

ASSUME BackstopAssumption == /\ Items \subseteq Nat /\ IsFiniteSet(Items)
                             /\ ZoneOf \in [Items -> Zones]
                             /\ Scores \subseteq Nat
                             /\ Cap \in [Zones -> Nat \ {0}]
                             /\ Indexed \subseteq Items
                             /\ Ageing \subseteq Items
                             /\ OfSubject \subseteq {i \in Items :
                                                  ZoneOf[i] = "episodic"}
                             /\ MaxFaults \in Nat

VARIABLES life,       \* life[i]: "new", "stored", "gone"
          aged,       \* the compressed items past MaxAge
          ranked,     \* Zone 6: the items in the vector and lexical indexes
          catalog,    \* Zone 6: the items whose text it keeps
          indexed,    \* indexed[i]: the steps of index_item(i) carried out
          pending,    \* the erasure obligations
          job,        \* job[c]: where call c is
          announced,  \* the items memory.evicted was published for
          asked,      \* history: the items an obligation was created for
          late,       \* history: indexed during their eviction, or after it
          faults

zone6 == <<ranked, catalog, indexed, late>>
vars == <<life, aged, zone6, pending, job, announced, asked, faults>>

\* todo: the items still to do, the current one first; fulfilled: what the
\* cascade answered for it; broken: a statement of the connection failed.
Done == [kind |-> "idle", pc |-> "idle", todo |-> <<>>, fulfilled |-> FALSE,
         broken |-> FALSE]

Init == /\ life = [i \in Items |-> "new"]
        /\ aged = {} /\ pending = {} /\ announced = {}
        /\ ranked = {} /\ catalog = {}
        /\ indexed = [i \in Items |-> 0]
        /\ job = [c \in Callers |-> Done]
        /\ asked = {} /\ late = {}
        /\ faults = 0

Stored(z) == {i \in Items : ZoneOf[i] = z /\ life[i] = "stored"}
At(c, pc) == job[c].pc = pc
Current(c) == Head(job[c].todo)
Continue(c, r) == job' = [job EXCEPT ![c] = r]
Goto(c, pc) == Continue(c, [job[c] EXCEPT !.pc = pc])

-----------------------------------------------------------------------------
(***************************************************************************)
(* The host: it writes items and indexes them, asks for erasures; time     *)
(* passes.                                                                 *)
(***************************************************************************)
Write(i) ==
  /\ life[i] = "new"
  /\ life' = [life EXCEPT ![i] = "stored"]
  /\ UNCHANGED <<aged, zone6, pending, job, announced, asked, faults>>

\* index_item: the vector and the lexical entry, then the catalog entry.
IndexItem(i) ==
  /\ i \in Indexed /\ life[i] # "new" /\ indexed[i] < 2
  /\ indexed' = [indexed EXCEPT ![i] = @ + 1]
  /\ ranked' = IF indexed[i] = 0 THEN ranked \cup {i} ELSE ranked
  /\ catalog' = IF indexed[i] = 1 THEN catalog \cup {i} ELSE catalog
  /\ late' = IF \/ life[i] = "gone"
                \/ \E c \in Callers : job[c].kind # "idle" /\ Current(c) = i
             THEN late \cup {i} ELSE late
  /\ UNCHANGED <<life, aged, pending, job, announced, asked, faults>>

Age(i) ==
  /\ i \in Ageing \ aged /\ life[i] = "stored"
  /\ aged' = aged \cup {i}
  /\ UNCHANGED <<life, zone6, pending, job, announced, asked, faults>>

\* InMemoryErasureObligationStore.request_erasure.
RequestErasure(i) ==
  /\ i \in OfSubject \ asked /\ life[i] # "new"
  /\ pending' = pending \cup {i}
  /\ asked' = asked \cup {i}
  /\ UNCHANGED <<life, aged, zone6, job, announced, faults>>

-----------------------------------------------------------------------------
(***************************************************************************)
(* plan_backstop_eviction, the same in both zones.                         *)
(***************************************************************************)
Lower(score, a, b) == \/ score[a] < score[b]
                      \/ score[a] = score[b] /\ a < b

\* select_capacity_overflow: as many as there are above the cap.
CapacityOverflow(z, score) ==
  {i \in Stored(z) : Cardinality({k \in Stored(z) : Lower(score, k, i)})
                       < Cardinality(Stored(z)) - Cap[z]}

\* Mutant: MaxAge is applied to the items above the cap only.
PlanWithoutMaxAge(z, score) == CapacityOverflow(z, score)

\* The items to evict; the list of them is sorted, the lowest score first.
Plan(z, score) == CapacityOverflow(z, score) \cup (Stored(z) \cap aged)

SortedBy(score, todo) ==
  \A m, n \in DOMAIN todo : m < n => Lower(score, todo[m], todo[n])

FirstStep(kind) == IF kind = "procedural" THEN "index" ELSE "check"

Free(c) == job[c].kind = "idle"

Begin(c, kind, todo) ==
  /\ Continue(c, [Done EXCEPT !.kind = kind, !.pc = FirstStep(kind),
                              !.todo = todo])
  /\ UNCHANGED <<life, aged, zone6, pending, announced, asked, faults>>

\* A sweep with nothing to evict changes nothing: no step.
StartSweep(c, z) ==
  /\ Free(c)
  /\ \E score \in [Stored(z) -> Scores] :
       LET plan == Plan(z, score)
       IN  /\ plan # {}
           /\ \E todo \in SetToSeqs(plan) : SortedBy(score, todo) /\ Begin(c, z, todo)

\* The Zone 2 leg of a subject's erasure: its items, whatever their state.
StartCascade(c) ==
  LET found == {i \in OfSubject : life[i] # "new"}
  IN  /\ Free(c) /\ found # {}
      /\ \E todo \in SetToSeqs(found) : Begin(c, "cascade", todo)

-----------------------------------------------------------------------------
(***************************************************************************)
(* CrossZoneDpdpErasureCascade.fulfil_pending_erasure.                     *)
(***************************************************************************)
\* Mutant: the end of the list is not noticed.
NextItemAlways(c) ==
  Continue(c, [job[c] EXCEPT !.pc = FirstStep(job[c].kind), !.todo = Tail(@),
                             !.fulfilled = FALSE])

NextItem(c) ==
  LET j == job[c]
  IN  IF Len(j.todo) = 1 THEN Continue(c, Done)
      ELSE Continue(c, [j EXCEPT !.pc = FirstStep(j.kind), !.todo = Tail(@),
                                 !.fulfilled = FALSE])

\* has_pending_erasure: no obligation, the cascade answers FALSE.
NoObligation(c) ==
  /\ At(c, "check") /\ Current(c) \notin pending
  /\ IF job[c].kind = "cascade" THEN NextItem(c) ELSE Goto(c, "index")
  /\ UNCHANGED <<life, aged, zone6, pending, announced, asked, faults>>

HasObligation(c) ==
  /\ At(c, "check") /\ Current(c) \in pending
  /\ Goto(c, "cascade index")
  /\ UNCHANGED <<life, aged, zone6, pending, announced, asked, faults>>

\* RetrievalIndexEviction.delete_item leaves the catalog alone.
CascadeIndex(c) ==
  /\ At(c, "cascade index")
  /\ ranked' = ranked \ {Current(c)}
  /\ Goto(c, "cascade evict")
  /\ UNCHANGED <<life, aged, catalog, indexed, late, pending, announced,
                 asked, faults>>

Leaves(i) == life' = [life EXCEPT ![i] = "gone"]

\* SqlZone2ComplianceEviction.evict: a row that is gone already is no error.
CascadeEvict(c) ==
  /\ At(c, "cascade evict") /\ ~job[c].broken
  /\ Leaves(Current(c))
  /\ Goto(c, "clear")
  /\ UNCHANGED <<aged, zone6, pending, announced, asked, faults>>

\* The obligation is cleared; a sweep goes on with its own Zone 6 removal.
Clear(c) ==
  /\ At(c, "clear")
  /\ pending' = pending \ {Current(c)}
  /\ IF job[c].kind = "cascade" THEN NextItem(c)
     ELSE Continue(c, [job[c] EXCEPT !.pc = "index", !.fulfilled = TRUE])
  /\ UNCHANGED <<life, aged, zone6, announced, asked, faults>>

-----------------------------------------------------------------------------
(***************************************************************************)
(* _execute_one of a sweep: Zone 6, then the zone, then memory.evicted.    *)
(***************************************************************************)
\* Mutant: only an erasure reaches Zone 6.
DropIndexOfErased(c) ==
  /\ At(c, "index")
  /\ ranked' = IF job[c].fulfilled THEN ranked \ {Current(c)} ELSE ranked
  /\ Goto(c, "catalog")
  /\ UNCHANGED <<life, aged, catalog, indexed, late, pending, announced,
                 asked, faults>>

DropIndex(c) ==
  /\ At(c, "index")
  /\ ranked' = ranked \ {Current(c)}
  /\ Goto(c, "catalog")
  /\ UNCHANGED <<life, aged, catalog, indexed, late, pending, announced,
                 asked, faults>>

DropCatalog(c) ==
  /\ At(c, "catalog")
  /\ catalog' = catalog \ {Current(c)}
  /\ Goto(c, IF job[c].fulfilled THEN "publish" ELSE "evict")
  /\ UNCHANGED <<life, aged, ranked, indexed, late, pending, announced,
                 asked, faults>>

Evict(c) ==
  /\ At(c, "evict") /\ ~job[c].broken
  /\ Leaves(Current(c))
  /\ Goto(c, "publish")
  /\ UNCHANGED <<aged, zone6, pending, announced, asked, faults>>

Publish(c) ==
  /\ At(c, "publish")
  /\ announced' = announced \cup {Current(c)}
  /\ NextItem(c)
  /\ UNCHANGED <<life, aged, zone6, pending, asked, faults>>

(***************************************************************************)
(* Failures: a sweep records the item as failed and goes on, a direct      *)
(* cascade ends.                                                           *)
(***************************************************************************)
Ports == {"cascade index", "index", "catalog"}
Evictions == {"cascade evict", "evict"}

\* The next item, on a connection that is broken or is not.
GiveUpItem(c, broken) ==
  LET j == job[c]
  IN  IF j.kind = "cascade" \/ Len(j.todo) = 1 THEN Continue(c, Done)
      ELSE Continue(c, [j EXCEPT !.pc = FirstStep(j.kind), !.todo = Tail(@),
                                 !.fulfilled = FALSE, !.broken = broken])

\* Mutant: what failed is announced like what was done.
FailureAnnounced(c) ==
  /\ job[c].pc \in Ports /\ job[c].kind # "cascade"
  /\ faults < MaxFaults /\ faults' = faults + 1
  /\ announced' = announced \cup {Current(c)}
  /\ GiveUpItem(c, job[c].broken)
  /\ UNCHANGED <<life, aged, zone6, pending, asked>>

PortFails(c) ==
  /\ job[c].pc \in Ports
  /\ faults < MaxFaults /\ faults' = faults + 1
  /\ GiveUpItem(c, job[c].broken)
  /\ UNCHANGED <<life, aged, zone6, pending, announced, asked>>

\* The DELETE fails, or its commit is carried out and the answer is lost.
\* Nothing rolls the connection back: it is of no use for the rest of a call.
EvictFails(c) ==
  /\ job[c].pc \in Evictions /\ ~job[c].broken
  /\ faults < MaxFaults /\ faults' = faults + 1
  /\ Leaves(Current(c)) \/ UNCHANGED life
  /\ GiveUpItem(c, ZoneOf[Current(c)] = "episodic")
  /\ UNCHANGED <<aged, zone6, pending, announced, asked>>

EvictOnBroken(c) ==
  /\ job[c].pc \in Evictions /\ job[c].broken
  /\ GiveUpItem(c, TRUE)
  /\ UNCHANGED <<life, aged, zone6, pending, announced, asked, faults>>

Host == \E i \in Items : Write(i) \/ IndexItem(i) \/ Age(i) \/ RequestErasure(i)

Work(c) == \/ NoObligation(c) \/ HasObligation(c)
           \/ CascadeIndex(c) \/ CascadeEvict(c) \/ Clear(c)
           \/ DropIndex(c) \/ DropCatalog(c) \/ Evict(c) \/ Publish(c)
           \/ PortFails(c) \/ EvictFails(c) \/ EvictOnBroken(c)

Start(c) == StartCascade(c) \/ \E z \in Zones : StartSweep(c, z)

Next == Host \/ \E c \in Callers : Start(c) \/ Work(c)

Spec == Init /\ [][Next]_vars

\* A call that has begun goes on, and the host calls the sweep of each zone
\* again and again.
Fairness == /\ \A c \in Callers : WF_vars(Work(c))
            /\ \A z \in Zones : SF_vars(\E c \in Callers : StartSweep(c, z))

FairSpec == Spec /\ Fairness

-----------------------------------------------------------------------------
(***************************************************************************)
(* Properties                                                              *)
(***************************************************************************)
Steps == {"check", "clear", "publish"} \cup Ports \cup Evictions

\* Types; a call that is under way has an item, of its zone.
TypeOK ==
  /\ life \in [Items -> {"new", "stored", "gone"}]
  /\ aged \subseteq Items /\ announced \subseteq Items
  /\ pending \subseteq asked /\ asked \subseteq Items /\ late \subseteq Items
  /\ ranked \subseteq Items /\ catalog \subseteq Items
  /\ indexed \in [Items -> 0..2]
  /\ job \in [Callers -> [kind : {"idle", "cascade"} \cup Zones,
                          pc : {"idle"} \cup Steps, todo : Seq(Items),
                          fulfilled : BOOLEAN, broken : BOOLEAN]]
  /\ \A c \in Callers :
       /\ job[c].kind = "idle" <=> job[c].pc = "idle"
       /\ job[c].kind # "idle" => job[c].todo # <<>>
  /\ faults \in 0..MaxFaults

\* The safer failure mode: what has left its zone is found no more in Zone 6,
\* whichever step failed and whoever removed it, unless the host indexed it
\* while or after it was evicted (_execute_one, zone2_capacity_backstop_
\* sweep.py:520-525: Zone 6 is cleared before the row goes).
GoneIsNotFound ==
  \A i \in Items : life[i] = "gone" /\ i \in ranked => i \in late

\* memory.evicted and a cleared obligation are not premature: the item has
\* left its zone, and, for the event, Zone 6 keeps no text of it either
\* (zone2_capacity_backstop_sweep.py:462, dpdp_erasure_cascade.py:239).
ReportedMeansDone ==
  /\ \A i \in announced : /\ life[i] = "gone"
                          /\ i \in catalog => i \in late
  /\ \A i \in asked \ pending : life[i] = "gone"

WithinBounds ==
  /\ \A z \in Zones : Cardinality(Stored(z)) <= Cap[z]
  /\ \A i \in aged : life[i] # "stored"

\* A stuck or failing item never halts the guarantee of the zone: when the
\* faults are over, both zones come back within their cap and MaxAge, and
\* stay there (zone2_capacity_backstop_sweep.py:443-460 goes on after a
\* failure, and every run looks at the whole zone again).
BackInBounds == <>[]WithinBounds
=============================================================================
