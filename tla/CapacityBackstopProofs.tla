----------------------- MODULE CapacityBackstopProofs -----------------------
(***************************************************************************)
(* The capacity backstops, for any items, zones, caps, scores and number   *)
(* of overlapping calls and failures.  The two safety properties rest on   *)
(* what each call has seen to before the row of its item goes: its vector  *)
(* and lexical entries are out of Zone 6 (OutOfIndex), for a sweep its     *)
(* text too (OutOfCatalog), and nothing is reported before it has gone     *)
(* (OutOfZone).  Other calls only take more away; only the host may put an *)
(* entry back beside a call, and then the item is among the late ones.     *)
(***************************************************************************)
EXTENDS CapacityBackstop, FiniteSetTheorems, SequenceTheorems, TLAPS

Records == [kind : {"idle", "cascade"} \cup Zones, pc : {"idle"} \cup Steps,
            todo : Seq(Items), fulfilled : BOOLEAN, broken : BOOLEAN]

WellFormed(r) == /\ r \in Records
                 /\ r.kind = "idle" <=> r.pc = "idle"
                 /\ r.kind # "idle" => r.todo # <<>>

\* At the first step of an item, or at none, a call has done nothing yet.
Fresh(r) == r.pc \in {"idle", "check", "index"} /\ ~r.fulfilled

OutOfIndex(c) ==
  job[c].pc \in {"cascade evict", "catalog", "evict"} =>
    (Current(c) \in ranked => Current(c) \in late)

OutOfCatalog(c) ==
  job[c].pc \in {"evict", "publish"} => (Current(c) \in catalog => Current(c) \in late)

OutOfZone(c) ==
  job[c].pc \in {"clear", "publish"} \/ (job[c].pc # "idle" /\ job[c].fulfilled)
    => life[Current(c)] = "gone"

CallInv(c) == OutOfIndex(c) /\ OutOfCatalog(c) /\ OutOfZone(c)

IInv == /\ TypeOK
        /\ \A c \in Callers : CallInv(c)
        /\ GoneIsNotFound
        /\ ReportedMeansDone

-----------------------------------------------------------------------------
(***************************************************************************)
(* Records and lists.                                                      *)
(***************************************************************************)
\* The records of TypeOK are the well-formed ones.
LEMMA JobsWellFormed ==
  TypeOK <=> /\ life \in [Items -> {"new", "stored", "gone"}]
             /\ aged \subseteq Items /\ announced \subseteq Items
             /\ pending \subseteq asked /\ asked \subseteq Items /\ late \subseteq Items
             /\ ranked \subseteq Items /\ catalog \subseteq Items
             /\ indexed \in [Items -> 0..2]
             /\ job \in [Callers -> Records]
             /\ \A c \in Callers : WellFormed(job[c])
             /\ faults \in 0..MaxFaults
  BY DEF TypeOK, WellFormed, Records

\* A call that is not under way is well formed and has done nothing.
LEMMA DoneType == WellFormed(Done) /\ Fresh(Done)
  BY DEF Done, WellFormed, Fresh, Records

\* The current item of a call under way is an item.
LEMMA CurrentType ==
  ASSUME TypeOK, NEW c \in Callers, job[c].kind # "idle"
  PROVE  Current(c) \in Items
  <1>1. WellFormed(job[c])
    BY JobsWellFormed
  <1> QED BY <1>1, HeadTailProperties DEF WellFormed, Records, Current

\* An order of a set of items is a list of items, empty only for the empty set.
LEMMA OrderType ==
  ASSUME NEW S \in SUBSET Items, S # {}, NEW todo \in SetToSeqs(S)
  PROVE  todo \in Seq(Items) /\ todo # <<>>
  <1>1. IsFiniteSet(S)
    BY BackstopAssumption, FS_Subset
  <1>2. Cardinality(S) \in Nat /\ Cardinality(S) # 0
    BY <1>1, FS_CardinalityType, FS_EmptySet
  <1>3. todo \in [1..Cardinality(S) -> S]
    BY DEF SetToSeqs
  <1> QED BY <1>2, <1>3

\* What is left of a list of more than one item is a list of some.
LEMMA RestOfList ==
  ASSUME NEW S, NEW s \in Seq(S), s # <<>>, Len(s) # 1
  PROVE  Tail(s) \in Seq(S) /\ Tail(s) # <<>>
  <1>1. Len(s) \in Nat \ {0}
    BY EmptySeq
  <1>2. Tail(s) \in Seq(S) /\ Len(Tail(s)) = Len(s) - 1
    BY HeadTailProperties
  <1>3. Len(Tail(s)) # 0
    BY <1>1, <1>2
  <1> QED BY <1>2, <1>3, EmptySeq

\* Moving on to another step keeps the list and what the cascade answered.
LEMMA GotoType ==
  ASSUME TypeOK, NEW c \in Callers, job[c].kind # "idle", NEW p \in Steps, Goto(c, p)
  PROVE  \E r : /\ Continue(c, r) /\ WellFormed(r) /\ r.pc = p
                /\ r.todo = job[c].todo /\ r.fulfilled = job[c].fulfilled
  <1> DEFINE r == [job[c] EXCEPT !.pc = p]
  <1>1. WellFormed(job[c])
    BY JobsWellFormed
  <1>2. /\ WellFormed(r) /\ r.pc = p
        /\ r.todo = job[c].todo /\ r.fulfilled = job[c].fulfilled
    BY <1>1 DEF WellFormed, Records, Steps, Ports, Evictions
  <1>3. Continue(c, r)
    BY DEF Goto
  <1> QED BY <1>2, <1>3

\* After an item comes the first step of the next one, or the end.
LEMMA NextType ==
  ASSUME TypeOK, NEW c \in Callers, job[c].kind # "idle",
         NextItem(c) \/ \E b \in BOOLEAN : GiveUpItem(c, b)
  PROVE  \E r : Continue(c, r) /\ WellFormed(r) /\ Fresh(r)
  <1> DEFINE j == job[c]
             next == [j EXCEPT !.pc = FirstStep(j.kind), !.todo = Tail(@),
                               !.fulfilled = FALSE]
             rest(b) == [j EXCEPT !.pc = FirstStep(j.kind), !.todo = Tail(@),
                                  !.fulfilled = FALSE, !.broken = b]
  <1>1. WellFormed(j) /\ j.todo \in Seq(Items) /\ j.todo # <<>>
    BY JobsWellFormed DEF WellFormed, Records
  <1>2. CASE Continue(c, Done)
    BY <1>2, DoneType
  <1>3. ASSUME Len(j.todo) # 1
        PROVE  /\ WellFormed(next) /\ Fresh(next)
               /\ \A b \in BOOLEAN : WellFormed(rest(b)) /\ Fresh(rest(b))
    <2>1. Tail(j.todo) \in Seq(Items) /\ Tail(j.todo) # <<>>
      BY <1>1, <1>3, RestOfList
    <2>2. FirstStep(j.kind) \in {"check", "index"}
      BY DEF FirstStep
    <2>3. WellFormed(next) /\ Fresh(next)
      BY <1>1, <2>1, <2>2 DEF WellFormed, Records, Fresh, Steps, Ports
    <2>4. ASSUME NEW b \in BOOLEAN PROVE WellFormed(rest(b)) /\ Fresh(rest(b))
      BY <1>1, <2>1, <2>2 DEF WellFormed, Records, Fresh, Steps, Ports
    <2> QED BY <2>3, <2>4
  <1>4. CASE NextItem(c)
    BY <1>2, <1>3, <1>4 DEF NextItem
  <1>5. ASSUME NEW b \in BOOLEAN, GiveUpItem(c, b)
        PROVE  \E r : Continue(c, r) /\ WellFormed(r) /\ Fresh(r)
    BY <1>2, <1>3, <1>5 DEF GiveUpItem
  <1> QED BY <1>4, <1>5

-----------------------------------------------------------------------------
(***************************************************************************)
(* One step of a call.                                                     *)
(***************************************************************************)
\* A call's step may take its item out of the zone, out of Zone 6, announce it
\* or clear its obligation; what its record then claims must be true.
LEMMA CallStep ==
  ASSUME IInv, NEW c \in Callers, NEW r, Continue(c, r), WellFormed(r),
         UNCHANGED <<aged, asked, late, indexed>>, faults' \in 0..MaxFaults,
         ranked' \subseteq ranked, catalog' \subseteq catalog,
         \/ life' = life
         \/ job[c].pc \in Evictions /\ life' = [life EXCEPT ![Current(c)] = "gone"],
         \/ announced' = announced
         \/ job[c].pc = "publish" /\ announced' = announced \cup {Current(c)},
         \/ pending' = pending
         \/ job[c].pc = "clear" /\ pending' = pending \ {Current(c)},
         \/ Fresh(r)
         \/ /\ r.todo = job[c].todo
            /\ r.pc \in {"cascade evict", "catalog", "evict"} =>
                 (Current(c) \in ranked' => Current(c) \in late)
            /\ r.pc \in {"evict", "publish"} => (Current(c) \in catalog' => Current(c) \in late)
            /\ r.pc \in {"clear", "publish"} \/ r.fulfilled => life'[Current(c)] = "gone"
  PROVE  IInv'
  <1> USE DEF IInv
  <1> DEFINE i == Current(c)
  <1>1. /\ job \in [Callers -> Records] /\ r \in Records
        /\ job'[c] = r /\ \A d \in Callers \ {c} : job'[d] = job[d]
        /\ job' \in [Callers -> Records]
        /\ \A d \in Callers : WellFormed(job'[d])
    BY JobsWellFormed DEF Continue, WellFormed
  <1>2. job[c].pc # "idle" => i \in Items
    BY CurrentType, JobsWellFormed DEF WellFormed
  <1>3. /\ life \in [Items -> {"new", "stored", "gone"}]
        /\ life' \in [Items -> {"new", "stored", "gone"}]
        /\ \A k \in Items : life[k] = "gone" => life'[k] = "gone"
        /\ \A k \in Items : life'[k] = "gone" =>
             life[k] = "gone" \/ (k = i /\ job[c].pc \in Evictions)
    BY <1>2, JobsWellFormed DEF Evictions
  <1>4. TypeOK'
    <2>1. announced' \subseteq Items /\ pending' \subseteq asked'
      BY <1>2, JobsWellFormed
    <2>2. /\ aged' \subseteq Items /\ asked' \subseteq Items /\ late' \subseteq Items
          /\ ranked' \subseteq Items /\ catalog' \subseteq Items
          /\ indexed' \in [Items -> 0..2]
      BY JobsWellFormed
    <2>3. \A d \in Callers : /\ job'[d].kind = "idle" <=> job'[d].pc = "idle"
                             /\ job'[d].kind # "idle" => job'[d].todo # <<>>
      BY <1>1 DEF WellFormed
    <2> QED BY <1>1, <1>3, <2>1, <2>2, <2>3 DEF TypeOK, Records, Steps, Ports, Evictions
  <1>5. ASSUME NEW d \in Callers \ {c} PROVE CallInv(d)'
    <2>1. CallInv(d) /\ job'[d] = job[d] /\ Current(d)' = Current(d)
      BY <1>1 DEF Current
    <2>2. ASSUME life[Current(d)] = "gone", job[d].pc # "idle" PROVE life'[Current(d)] = "gone"
      BY <1>3, <2>2, CurrentType, JobsWellFormed DEF WellFormed
    <2> QED BY <2>1, <2>2 DEF CallInv, OutOfIndex, OutOfCatalog, OutOfZone
  <1>6. CallInv(c)'
    BY <1>1 DEF CallInv, OutOfIndex, OutOfCatalog, OutOfZone, Fresh, Current
  <1>7. GoneIsNotFound'
    BY <1>3 DEF GoneIsNotFound, CallInv, OutOfIndex, Evictions
  <1>8. ReportedMeansDone'
    <2>1. ASSUME NEW k \in announced' PROVE life'[k] = "gone" /\ (k \in catalog' => k \in late)
      <3>1. life[k] = "gone" /\ (k \in catalog => k \in late)
        BY <2>1 DEF ReportedMeansDone, CallInv, OutOfCatalog, OutOfZone
      <3>2. k \in Items
        BY <1>2, <2>1, JobsWellFormed
      <3> QED BY <1>3, <3>1, <3>2
    <2>2. ASSUME NEW k \in asked \ pending' PROVE life'[k] = "gone"
      <3>1. life[k] = "gone" /\ k \in Items
        BY <2>2, JobsWellFormed DEF ReportedMeansDone, CallInv, OutOfZone
      <3> QED BY <1>3, <3>1
    <2> QED BY <2>1, <2>2 DEF ReportedMeansDone
  <1> QED BY <1>4, <1>5, <1>6, <1>7, <1>8

\* Every step of a call under way keeps the invariant.
LEMMA WorkIInv == ASSUME IInv, NEW c \in Callers, Work(c) PROVE IInv'
  <1> USE DEF IInv, zone6
  <1> DEFINE i == Current(c)
             goes(p) == \E r : /\ Continue(c, r) /\ WellFormed(r) /\ r.pc = p
                              /\ r.todo = job[c].todo /\ r.fulfilled = job[c].fulfilled
             moves == \E r : Continue(c, r) /\ WellFormed(r) /\ Fresh(r)
  <1>1. ASSUME NEW p \in Steps, job[c].kind # "idle", Goto(c, p) PROVE goes(p)
    BY <1>1, GotoType
  <1>2. ASSUME job[c].kind # "idle", NextItem(c) \/ \E b \in BOOLEAN : GiveUpItem(c, b)
        PROVE  moves
    BY <1>2, NextType
  <1>3. /\ life \in [Items -> {"new", "stored", "gone"}] /\ faults \in 0..MaxFaults
        /\ job[c].broken \in BOOLEAN /\ CallInv(c)
        /\ job[c].pc # "idle" => job[c].kind # "idle"
    BY DEF TypeOK
  <1>faults. ASSUME faults < MaxFaults, faults' = faults + 1 PROVE faults' \in 0..MaxFaults
    <2>1. MaxFaults \in Nat /\ faults \in 0..MaxFaults
      BY <1>3, BackstopAssumption DEF BackstopAssumption
    <2> QED BY <1>faults, <2>1
  <1> USE DEF CallInv, OutOfIndex, OutOfCatalog, OutOfZone
  <1>4. CASE NoObligation(c)
    <2>1. job[c].kind # "idle" /\ job[c].pc = "check"
      BY <1>3, <1>4 DEF NoObligation, At
    <2>2. CASE NextItem(c)
      BY <1>2, <1>3, <1>4, <2>1, <2>2, CallStep DEF NoObligation
    <2>3. CASE Goto(c, "index")
      <3>1. goes("index")
        BY <1>1, <2>1, <2>3 DEF Steps, Ports
      <3> QED BY <1>3, <1>4, <2>1, <3>1, CallStep DEF NoObligation
    <2> QED BY <1>4, <2>2, <2>3 DEF NoObligation
  <1>5. CASE HasObligation(c)
    <2>1. job[c].kind # "idle" /\ job[c].pc = "check"
      BY <1>3, <1>5 DEF HasObligation, At
    <2>2. goes("cascade index")
      BY <1>1, <1>5, <2>1 DEF HasObligation, Steps, Ports
    <2> QED BY <1>3, <1>5, <2>1, <2>2, CallStep DEF HasObligation
  <1>6. CASE CascadeIndex(c)
    <2>1. job[c].kind # "idle" /\ job[c].pc = "cascade index"
      BY <1>3, <1>6 DEF CascadeIndex, At
    <2>2. goes("cascade evict")
      BY <1>1, <1>6, <2>1 DEF CascadeIndex, Steps, Evictions
    <2> QED BY <1>3, <1>6, <2>1, <2>2, CallStep DEF CascadeIndex
  <1>7. CASE CascadeEvict(c)
    <2>1. job[c].kind # "idle" /\ job[c].pc = "cascade evict" /\ i \in Items
      BY <1>3, <1>7, CurrentType DEF CascadeEvict, At
    <2>2. goes("clear")
      BY <1>1, <1>7, <2>1 DEF CascadeEvict, Steps
    <2>3. life' = [life EXCEPT ![i] = "gone"] /\ life'[i] = "gone"
      BY <1>3, <1>7, <2>1 DEF CascadeEvict, Leaves
    <2> QED BY <1>3, <1>7, <2>1, <2>2, <2>3, CallStep DEF CascadeEvict, Evictions
  <1>8. CASE Clear(c)
    <2>1. job[c].kind # "idle" /\ job[c].pc = "clear"
      BY <1>3, <1>8 DEF Clear, At
    <2>2. CASE NextItem(c)
      BY <1>2, <1>3, <1>8, <2>1, <2>2, CallStep DEF Clear
    <2>3. CASE ~NextItem(c)
      <3> DEFINE r == [job[c] EXCEPT !.pc = "index", !.fulfilled = TRUE]
      <3>1. Continue(c, r)
        BY <1>8, <2>3 DEF Clear
      <3>2. WellFormed(r) /\ r.pc = "index" /\ r.todo = job[c].todo
        BY <2>1, JobsWellFormed DEF WellFormed, Records, Steps, Ports
      <3> HIDE DEF r
      <3> QED BY <1>3, <1>8, <2>1, <3>1, <3>2, CallStep DEF Clear
    <2> QED BY <2>2, <2>3
  <1>9. CASE DropIndex(c)
    <2>1. job[c].kind # "idle" /\ job[c].pc = "index"
      BY <1>3, <1>9 DEF DropIndex, At
    <2>2. goes("catalog")
      BY <1>1, <1>9, <2>1 DEF DropIndex, Steps, Ports
    <2> QED BY <1>3, <1>9, <2>1, <2>2, CallStep DEF DropIndex
  <1>10. CASE DropCatalog(c)
    <2>1. job[c].kind # "idle" /\ job[c].pc = "catalog"
      BY <1>3, <1>10 DEF DropCatalog, At
    <2>2. CASE job[c].fulfilled
      <3>1. Goto(c, "publish") /\ "publish" \in Steps
        BY <1>10, <2>2 DEF DropCatalog, Steps
      <3>2. goes("publish")
        BY <1>1, <2>1, <3>1
      <3> QED BY <1>3, <1>10, <2>1, <2>2, <3>2, CallStep DEF DropCatalog
    <2>3. CASE ~job[c].fulfilled
      <3>1. Goto(c, "evict") /\ "evict" \in Steps
        BY <1>10, <2>3 DEF DropCatalog, Steps, Evictions
      <3>2. goes("evict")
        BY <1>1, <2>1, <3>1
      <3> QED BY <1>3, <1>10, <2>1, <2>3, <3>2, CallStep DEF DropCatalog
    <2> QED BY <2>2, <2>3
  <1>11. CASE Evict(c)
    <2>1. job[c].kind # "idle" /\ job[c].pc = "evict" /\ i \in Items
      BY <1>3, <1>11, CurrentType DEF Evict, At
    <2>2. goes("publish")
      BY <1>1, <1>11, <2>1 DEF Evict, Steps
    <2>3. life' = [life EXCEPT ![i] = "gone"] /\ life'[i] = "gone"
      BY <1>3, <1>11, <2>1 DEF Evict, Leaves
    <2> QED BY <1>3, <1>11, <2>1, <2>2, <2>3, CallStep DEF Evict, Evictions
  <1>12. CASE Publish(c)
    <2>1. job[c].kind # "idle" /\ job[c].pc = "publish"
      BY <1>3, <1>12 DEF Publish, At
    <2> QED BY <1>2, <1>3, <1>12, <2>1, CallStep DEF Publish
  <1>13. CASE PortFails(c)
    <2>1. job[c].kind # "idle" /\ job[c].pc \in Ports
      BY <1>3, <1>13 DEF PortFails, Ports
    <2>2. moves
      BY <1>2, <1>3, <1>13, <2>1 DEF PortFails
    <2>3. faults' \in 0..MaxFaults
      BY <1>13, <1>faults DEF PortFails
    <2> QED BY <1>13, <2>1, <2>2, <2>3, CallStep DEF PortFails
  <1>14. CASE EvictFails(c)
    <2>1. job[c].kind # "idle" /\ job[c].pc \in Evictions
      BY <1>3, <1>14 DEF EvictFails, Evictions
    <2>2. moves
      BY <1>2, <1>14, <2>1 DEF EvictFails
    <2>3. faults' \in 0..MaxFaults
      BY <1>14, <1>faults DEF EvictFails
    <2> QED BY <1>14, <2>1, <2>2, <2>3, CallStep DEF EvictFails, Leaves
  <1>15. CASE EvictOnBroken(c)
    <2>1. job[c].kind # "idle" /\ job[c].pc \in Evictions
      BY <1>3, <1>15 DEF EvictOnBroken, Evictions
    <2> QED BY <1>2, <1>3, <1>15, <2>1, CallStep DEF EvictOnBroken
  <1> QED BY <1>4, <1>5, <1>6, <1>7, <1>8, <1>9, <1>10, <1>11, <1>12, <1>13, <1>14, <1>15
          DEF Work

\* A call that begins has done nothing yet.
LEMMA BeginIInv ==
  ASSUME IInv, NEW c \in Callers, NEW kind \in Zones \cup {"cascade"},
         NEW S \in SUBSET Items, S # {}, NEW todo \in SetToSeqs(S),
         Free(c), Begin(c, kind, todo)
  PROVE  IInv'
  <1> DEFINE r == [Done EXCEPT !.kind = kind, !.pc = FirstStep(kind), !.todo = todo]
  <1>1. todo \in Seq(Items) /\ todo # <<>>
    BY OrderType
  <1>2. FirstStep(kind) \in {"check", "index"}
    BY DEF FirstStep
  <1>3. WellFormed(r) /\ Fresh(r)
    BY <1>1, <1>2 DEF WellFormed, Records, Fresh, Done, Zones, Steps, Ports
  <1>4. Continue(c, r) /\ UNCHANGED <<life, aged, ranked, catalog, indexed, late, pending,
                                      announced, asked, faults>>
    BY DEF Begin, zone6
  <1>5. faults \in 0..MaxFaults
    BY DEF IInv, TypeOK
  <1> HIDE DEF r
  <1> QED BY <1>3, <1>4, <1>5, CallStep

LEMMA StartIInv == ASSUME IInv, NEW c \in Callers, Start(c) PROVE IInv'
  <1>1. CASE StartCascade(c)
    <2> DEFINE found == {i \in OfSubject : life[i] # "new"}
    <2>1. found \in SUBSET Items
      BY BackstopAssumption DEF BackstopAssumption
    <2>2. PICK todo \in SetToSeqs(found) : Free(c) /\ found # {} /\ Begin(c, "cascade", todo)
      BY <1>1 DEF StartCascade
    <2> HIDE DEF found
    <2> QED BY <2>1, <2>2, BeginIInv
  <1>2. ASSUME NEW z \in Zones, StartSweep(c, z) PROVE IInv'
    <2>1. PICK score \in [Stored(z) -> Scores] :
            /\ Plan(z, score) # {}
            /\ \E todo \in SetToSeqs(Plan(z, score)) : Begin(c, z, todo)
      BY <1>2 DEF StartSweep
    <2>2. PICK todo \in SetToSeqs(Plan(z, score)) : Begin(c, z, todo)
      BY <2>1
    <2>3. Plan(z, score) \in SUBSET Items
      BY DEF Plan, CapacityOverflow, Stored
    <2>4. Free(c)
      BY <1>2 DEF StartSweep
    <2> QED BY <2>1, <2>2, <2>3, <2>4, BeginIInv
  <1> QED BY <1>1, <1>2 DEF Start

-----------------------------------------------------------------------------
(***************************************************************************)
(* The host.                                                               *)
(***************************************************************************)
\* A call's part of the invariant looks at its record, the zone and Zone 6.
LEMMA HostKeepsCalls ==
  ASSUME IInv, job' = job,
         \A k \in Items : life[k] = "gone" => life'[k] = "gone",
         late \subseteq late',
         \A c \in Callers : job[c].pc # "idle" =>
           /\ Current(c) \in ranked' => Current(c) \in ranked \cup late'
           /\ Current(c) \in catalog' => Current(c) \in catalog \cup late'
  PROVE  \A c \in Callers : CallInv(c)'
  <1> TAKE c \in Callers
  <1>1. CallInv(c) /\ Current(c)' = Current(c)
    BY DEF IInv, Current
  <1>2. job[c].pc # "idle" => Current(c) \in Items
    BY CurrentType, JobsWellFormed DEF IInv, WellFormed
  <1> QED BY <1>1, <1>2 DEF CallInv, OutOfIndex, OutOfCatalog, OutOfZone

LEMMA HostIInv == ASSUME IInv, NEW i \in Items,
                         Write(i) \/ IndexItem(i) \/ Age(i) \/ RequestErasure(i)
                  PROVE  IInv'
  <1> USE DEF zone6
  <1>1. /\ life \in [Items -> {"new", "stored", "gone"}]
        /\ indexed \in [Items -> 0..2] /\ ranked \subseteq Items
        /\ announced \subseteq Items /\ asked \subseteq Items
        /\ GoneIsNotFound /\ ReportedMeansDone
    BY DEF IInv, TypeOK
  <1>2. CASE Write(i)
    <2>1. /\ life' \in [Items -> {"new", "stored", "gone"}]
          /\ \A k \in Items : life'[k] = "gone" <=> life[k] = "gone"
      BY <1>1, <1>2 DEF Write
    <2>2. TypeOK'
      BY <1>2, <2>1 DEF IInv, TypeOK, Write
    <2>3. \A c \in Callers : CallInv(c)'
      BY <1>2, <2>1, HostKeepsCalls DEF Write
    <2>4. GoneIsNotFound' /\ ReportedMeansDone'
      BY <1>1, <1>2, <2>1 DEF Write, GoneIsNotFound, ReportedMeansDone
    <2> QED BY <2>2, <2>3, <2>4 DEF IInv
  <1>3. CASE IndexItem(i)
    <2>1. /\ indexed' \in [Items -> 0..2] /\ UNCHANGED <<life, job>>
          /\ ranked' \subseteq ranked \cup {i} /\ catalog' \subseteq catalog \cup {i}
          /\ late \subseteq late' /\ late' \subseteq Items
      BY <1>1, <1>3 DEF IInv, TypeOK, IndexItem
    <2>2. TypeOK'
      BY <1>3, <2>1 DEF IInv, TypeOK, IndexItem
    <2>3. \A c \in Callers : job[c].pc # "idle" /\ Current(c) = i => i \in late'
      BY <1>3 DEF IInv, TypeOK, IndexItem
    <2>4. \A c \in Callers : CallInv(c)'
      BY <2>1, <2>3, HostKeepsCalls
    <2>5. life[i] = "gone" => i \in late'
      BY <1>3 DEF IndexItem
    <2>6. GoneIsNotFound' /\ ReportedMeansDone'
      BY <1>1, <1>3, <2>1, <2>5 DEF IndexItem, GoneIsNotFound, ReportedMeansDone
    <2> QED BY <2>2, <2>4, <2>6 DEF IInv
  <1>4. CASE Age(i)
    <2>1. UNCHANGED <<life, ranked, catalog, indexed, late, pending, job, announced,
                      asked, faults>>
      BY <1>4 DEF Age
    <2>2. TypeOK'
      BY <1>4, <2>1 DEF IInv, TypeOK, Age
    <2>3. \A c \in Callers : CallInv(c)'
      BY <2>1, HostKeepsCalls
    <2>4. GoneIsNotFound' /\ ReportedMeansDone'
      BY <1>1, <2>1 DEF GoneIsNotFound, ReportedMeansDone
    <2> QED BY <2>2, <2>3, <2>4 DEF IInv
  <1>5. CASE RequestErasure(i)
    <2>1. /\ UNCHANGED <<life, ranked, catalog, late, job, announced>>
          /\ asked' \ pending' \subseteq asked \ pending
      BY <1>5 DEF RequestErasure
    <2>2. TypeOK'
      BY <1>5 DEF IInv, TypeOK, RequestErasure
    <2>3. \A c \in Callers : CallInv(c)'
      BY <2>1, HostKeepsCalls
    <2>4. GoneIsNotFound' /\ ReportedMeansDone'
      BY <1>1, <2>1 DEF GoneIsNotFound, ReportedMeansDone
    <2> QED BY <2>2, <2>3, <2>4 DEF IInv
  <1> QED BY <1>2, <1>3, <1>4, <1>5

-----------------------------------------------------------------------------
(***************************************************************************)
(* The theorems.                                                           *)
(***************************************************************************)
LEMMA InitIInv == Init => IInv
  <1> SUFFICES ASSUME Init PROVE IInv
    OBVIOUS
  <1>1. WellFormed(Done) /\ Done.pc = "idle" /\ Done.kind = "idle" /\ ~Done.fulfilled
    BY DoneType DEF Done, Fresh
  <1>2. \A c \in Callers : job[c] = Done
    BY DEF Init
  <1>3. 0 \in 0..MaxFaults
    BY BackstopAssumption DEF BackstopAssumption
  <1>4. TypeOK
    BY <1>1, <1>2, <1>3, JobsWellFormed DEF Init, WellFormed
  <1>5. \A c \in Callers : CallInv(c)
    BY <1>1, <1>2 DEF CallInv, OutOfIndex, OutOfCatalog, OutOfZone
  <1>6. GoneIsNotFound /\ ReportedMeansDone
    BY DEF Init, GoneIsNotFound, ReportedMeansDone
  <1> QED BY <1>4, <1>5, <1>6 DEF IInv

LEMMA StepIInv == IInv /\ [Next]_vars => IInv'
  <1> SUFFICES ASSUME IInv, [Next]_vars PROVE IInv'
    OBVIOUS
  <1>1. CASE Host
    BY <1>1, HostIInv DEF Host
  <1>2. ASSUME NEW c \in Callers, Start(c) \/ Work(c) PROVE IInv'
    BY <1>2, StartIInv, WorkIInv
  <1>3. CASE UNCHANGED vars
    BY <1>3 DEF vars, zone6, IInv, TypeOK, CallInv, OutOfIndex, OutOfCatalog, OutOfZone,
                Current, GoneIsNotFound, ReportedMeansDone
  <1> QED BY <1>1, <1>2, <1>3 DEF Next

\* The invariant holds in every reachable state.
LEMMA Invariance == Spec => []IInv
  BY InitIInv, StepIInv, PTL DEF Spec

\* The types, and that a call under way always has an item of its list to do.
THEOREM BackstopTypeCorrect == Spec => []TypeOK
  <1>1. IInv => TypeOK
    BY DEF IInv
  <1> QED BY <1>1, Invariance, PTL

\* What has left its zone is found no more in Zone 6, for any number of
\* overlapping sweeps and erasures and any failing port calls, unless the host
\* indexed it while or after it was evicted.
THEOREM EvictedIsNotFound == Spec => []GoneIsNotFound
  <1>1. IInv => GoneIsNotFound
    BY DEF IInv
  <1> QED BY <1>1, Invariance, PTL

\* memory.evicted is published and an erasure obligation cleared only for an
\* item that has left its zone, and the event only when Zone 6 has no text of
\* it either.
THEOREM ReportsAreNotPremature == Spec => []ReportedMeansDone
  <1>1. IInv => ReportedMeansDone
    BY DEF IInv
  <1> QED BY <1>1, Invariance, PTL
=============================================================================
