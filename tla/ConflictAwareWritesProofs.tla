---------------------- MODULE ConflictAwareWritesProofs ----------------------
(***************************************************************************)
(* The ledger of ConflictAwareWrites, for any number of requests, facts    *)
(* and failures.  What a writer knows of the ledger when it looks is kept  *)
(* until it appends, although others append meanwhile: their records are   *)
(* committed after this one was stamped, and are under another id.         *)
(***************************************************************************)
EXTENDS ConflictAwareWrites, WellFoundedInduction, SequenceTheorems, TLAPS

\* find_by_item_id's newest record exists when there is any.
LEMMA LatestIs ==
  ASSUME NEW item, NEW n \in Nat, IdsOf(item) \subseteq 1..n, IdsOf(item) # {}
  PROVE  /\ Latest(item) \in IdsOf(item)
         /\ \A m \in IdsOf(item) : m <= Latest(item)
  <1> DEFINE Above == {k \in Nat : n - k \in IdsOf(item)}
  <1>1. Above # {}
    <2>1. PICK m \in IdsOf(item) : TRUE
      OBVIOUS
    <2>2. n - m \in Nat /\ n - (n - m) = m
      BY <2>1
    <2> QED BY <2>1, <2>2
  <1>2. PICK k \in Above : \A j \in Above : k <= j
    <2>1. PICK k \in Above : \A j \in Above : ~(<<j, k>> \in OpToRel(<, Nat))
      BY <1>1, WFMin, NatLessThanWellFounded
    <2>2. \A j \in Above : <<j, k>> \in Nat \X Nat /\ (j < k => <<j, k>> \in OpToRel(<, Nat))
      BY DEF OpToRel
    <2>3. \A j \in Above : ~(j < k)
      BY <2>1, <2>2, Zenon
    <2> QED BY <2>3
  <1>3. n - k \in IdsOf(item) /\ \A m \in IdsOf(item) : m <= n - k
    <2> SUFFICES ASSUME NEW m \in IdsOf(item) PROVE m <= n - k
      OBVIOUS
    <2>1. n - m \in Nat /\ n - (n - m) = m
      OBVIOUS
    <2>2. n - m \in Above
      BY <2>1
    <2> QED BY <1>2, <2>2
  <1> QED BY <1>3 DEF Latest

-----------------------------------------------------------------------------
\* Types.
LEMMA LegFacts ==
  /\ \A e \in Entities : <<"attribute", e>> \in Legs /\ <<"attribute", e>> # Fact
  /\ \A s, o \in Entities : Edge(s, o) \in Legs
  /\ Fact \in Legs
  BY DEF Legs, Attributes, Edges, Edge, Fact

LEMMA ItemType == ASSUME NEW leg \in Legs, NEW id \in Ids
                  PROVE  ItemOf(leg, id) \in Items
  <1>1. CASE leg = Fact
    BY <1>1 DEF ItemOf, Items
  <1>2. CASE leg # Fact
    BY <1>2 DEF ItemOf, Items, Legs
  <1> QED BY <1>1, <1>2

\* The pairs of a fact with several subjects are taken by their number.
LEMMA PairNumber ==
  ASSUME NEW m \in Nat, NEW n \in Nat, NEW k \in 1..(m * n)
  PROVE  /\ ((k - 1) \div n) + 1 \in 1..m
         /\ ((k - 1) % n) + 1 \in 1..n
  <1> DEFINE q == (k - 1) \div n
             r == (k - 1) % n
  <1>1. k \in Int /\ 1 <= k /\ k <= m * n /\ m * n \in Int
    OBVIOUS
  <1>2. n > 0
    <2>1. n = 0 => m * n = 0
      OBVIOUS
    <2> QED BY <1>1, <2>1
  <1>3. q \in Int /\ r \in 0..(n - 1) /\ k - 1 = n * q + r
    BY <1>1, <1>2
  <1> HIDE DEF q, r
  <1>4. 0 <= q
    <2>1. q < 0 => n * q <= -n
      BY <1>2, <1>3
    <2> QED BY <1>1, <1>3, <2>1
  <1>5. q < m
    <2>1. q >= m => n * q >= m * n
      BY <1>2, <1>3
    <2> QED BY <1>1, <1>3, <2>1
  <1>6. q + 1 \in 1..m /\ r + 1 \in 1..n
    BY <1>3, <1>4, <1>5
  <1> QED BY <1>6 DEF q, r

LEMMA ProductIsNat == ASSUME NEW m \in Nat, NEW n \in Nat PROVE m * n \in Nat
  OBVIOUS

LEMMA EdgeLegsType == ASSUME NEW f \in Facts PROVE EdgeLegs(f) \in Seq(Legs)
  <1> DEFINE m == Len(f.subjects)
             n == Len(f.objects)
  <1>1. /\ f.subjects \in Seq(Entities) /\ f.objects \in Seq(Entities)
        /\ m \in Nat /\ n \in Nat
    BY WritesAssumption
  <1>2. m * n \in Nat
    BY <1>1, ProductIsNat
  <1>3. \A k \in 1..(m * n) :
          Edge(f.subjects[((k - 1) \div n) + 1], f.objects[((k - 1) % n) + 1]) \in Legs
    BY <1>1, PairNumber, ElementOfSeq, LegFacts
  <1>4. EdgeLegs(f) \in [1..(m * n) -> Legs]
    BY <1>3 DEF EdgeLegs
  <1> HIDE DEF m, n
  <1> QED BY <1>2, <1>4, SeqDef

LEMMA LegsType == ASSUME NEW f \in Facts PROVE LegsOf(f) \in Seq(Legs)
  <1>1. f.subjects \in Seq(Entities) /\ <<>> \in Seq(Legs) /\ <<Fact>> \in Seq(Legs)
    BY WritesAssumption, LegFacts
  <1>2. Len(f.subjects) = 1 => << <<"attribute", f.subjects[1]>> >> \in Seq(Legs)
    <2> SUFFICES ASSUME Len(f.subjects) = 1
                 PROVE  << <<"attribute", f.subjects[1]>> >> \in Seq(Legs)
      OBVIOUS
    <2>1. f.subjects[1] \in Entities
      BY <1>1, ElementOfSeq
    <2>2. <<"attribute", f.subjects[1]>> \in Legs
      BY <2>1, LegFacts
    <2> QED BY <2>2
  <1>3. EdgeLegs(f) \in Seq(Legs)
    BY EdgeLegsType
  <1> DEFINE z5 == IF Len(f.subjects) = 1
                   THEN << <<"attribute", f.subjects[1]>> >> ELSE <<>>
             z3 == CASE f.blank \/ (Len(f.subjects) = 1 /\ ~f.reverse) -> <<>>
                     [] f.subjects = <<>> -> <<Fact>>
                     [] OTHER -> EdgeLegs(f)
  <1>4. z5 \in Seq(Legs) /\ z3 \in Seq(Legs)
    BY <1>1, <1>2, <1>3
  <1>5. LegsOf(f) = z5 \o z3
    BY DEF LegsOf
  <1> HIDE DEF z5, z3
  <1> QED BY <1>4, <1>5, ConcatProperties

-----------------------------------------------------------------------------
(***************************************************************************)
(* The invariant.                                                          *)
(***************************************************************************)
Waiting == {"look", "correct", "append", "row"}

JobOK(j) == /\ j \in Jobs
            /\ j.pc # "idle" => j.facts # <<>>
            /\ j.pc \in Waiting => j.legs # <<>> /\ j.rec \in Records
            /\ j.pc = "correct" => j.correction \in Records

\* The ids w has taken and not used yet.
PendingIds(w) ==
  (IF job[w].pc \in {"look", "correct", "append"} THEN {job[w].rec.id} ELSE {})
    \cup (IF job[w].pc = "correct" THEN {job[w].correction.id} ELSE {})

\* c is a correction that disputes something else for the sake of r.
Disputes(c, r) == /\ c.flags = r.id /\ c.item = r.item
                  /\ \E q \in ledger : q.id = c.prev /\ q.id # r.id /\ q.item = r.item

\* r chains from all there was of its item before it.
Chains(r) == \A q \in ledger : q.item = r.item /\ q.at < r.id => q.id <= r.prev

Named(w) ==
  job[w].pc \in Waiting => /\ job[w].rec.id \in 1..clock
                           /\ job[w].rec.item = ItemOf(LegOf(w), job[w].rec.id)
                           /\ job[w].rec.flags = None
                           /\ job[w].pc = "look" => ~job[w].rec.disputed
Correcting(w) ==
  job[w].pc = "correct" => /\ job[w].correction.id \in 1..clock
                           /\ job[w].correction.id # job[w].rec.id
                           /\ job[w].correction.disputed
                           /\ job[w].rec.disputed
                           /\ Disputes(job[w].correction, job[w].rec)
Appending(w) ==
  job[w].pc = "append" => IF job[w].rec.disputed
                          THEN \E c \in ledger : Disputes(c, job[w].rec)
                          ELSE Chains(job[w].rec)
RecordFirst(w) ==
  job[w].pc = "row" =>
    \E r \in ledger : r.id = job[w].rec.id /\ r.item = job[w].rec.item

WriterInv(w) == Named(w) /\ Correcting(w) /\ Appending(w) /\ RecordFirst(w)

Fresh(w) == \A id \in PendingIds(w) :
              /\ \A r \in ledger : r.id # id
              /\ \A v \in Writers \ {w} : id \notin PendingIds(v)

LedgerTimes == \A r \in ledger : r.id \in 1..clock /\ r.at \in 0..clock

TwoSides == \A r \in ledger : r.disputed /\ r.flags = None =>
              \E c \in ledger : Disputes(c, r)
Flagged == \A r \in ledger : ~r.disputed => Chains(r)

IInv == /\ TypeOK /\ LedgerTimes /\ TwoSides /\ Flagged
        /\ RowsHaveProvenance
        /\ \A w \in Writers : WriterInv(w) /\ Fresh(w)

LEMMA TypeIs ==
  TypeOK <=> /\ clock \in 0..MaxClock
             /\ ledger \subseteq Records
             /\ rows \subseteq [id : Ids, item : Items]
             /\ zone5 \in [Entities -> Nat]
             /\ job \in [Writers -> Jobs]
             /\ \A w \in Writers : JobOK(job[w])
             /\ faults \in 0..MaxFaults /\ crashes \in 0..MaxCrashes
  BY DEF TypeOK, JobOK, Waiting

LEMMA TypeIsNext ==
  ASSUME clock' \in 0..MaxClock, ledger' \subseteq Records,
         rows' \subseteq [id : Ids, item : Items], zone5' \in [Entities -> Nat],
         job' \in [Writers -> Jobs], \A w \in Writers : JobOK(job'[w]),
         faults' \in 0..MaxFaults, crashes' \in 0..MaxCrashes
  PROVE  TypeOK'
  BY DEF TypeOK, JobOK, Waiting

LEMMA RecordTypes == /\ NoRecord \in Records \cup {NoRecord}
                     /\ Idle \in Jobs /\ JobOK(Idle) /\ Idle.pc = "idle"
  BY DEF NoRecord, Idle, Jobs, JobOK, Waiting

LEMMA NextFactOK ==
  ASSUME NEW j \in Jobs, NEW facts \in Seq(Facts)
  PROVE  JobOK(NextFact(j, facts)) /\ NextFact(j, facts).pc \in {"idle", "stamp"}
  <1>1. CASE facts = <<>>
    BY <1>1, RecordTypes DEF NextFact
  <1>2. CASE facts # <<>>
    <2>1. LegsOf(Head(facts)) \in Seq(Legs)
      BY <1>2, HeadTailProperties, LegsType
    <2> QED BY <1>2, <2>1 DEF NextFact, JobOK, Jobs, Waiting
  <1> QED BY <1>1, <1>2

LEMMA EndLegOK ==
  ASSUME IInv, NEW w \in Writers, job[w].pc # "idle",
         NEW legs \in Seq(Legs), NEW broken \in BOOLEAN
  PROVE  LET j == [job[w] EXCEPT !.pc = "stamp", !.legs = legs, !.rec = NoRecord,
                                 !.correction = NoRecord, !.broken = broken]
         IN  JobOK(j) /\ j.pc = "stamp"
  BY TypeIs, RecordTypes DEF IInv, JobOK, Jobs, Waiting

LEMMA JobFacts ==
  ASSUME IInv, NEW w \in Writers
  PROVE  /\ job \in [Writers -> Jobs] /\ job[w] \in Jobs /\ JobOK(job[w])
         /\ clock \in Nat
         /\ job[w].pc \in Waiting =>
              /\ LegOf(w) \in Legs /\ Tail(job[w].legs) \in Seq(Legs)
              /\ job[w].rec \in Records /\ job[w].legs # <<>>
         /\ job[w].pc = "correct" => job[w].correction \in Records
  <1>1. JobOK(job[w]) /\ job \in [Writers -> Jobs] /\ job[w] \in Jobs
    BY TypeIs DEF IInv
  <1>2. job[w].legs # <<>> => LegOf(w) \in Legs /\ Tail(job[w].legs) \in Seq(Legs)
    BY <1>1, HeadTailProperties DEF Jobs, LegOf
  <1> QED BY <1>1, <1>2, TypeIs, WritesAssumption DEF IInv, JobOK, Waiting

LEMMA InitIInv == Init => IInv
  <1> SUFFICES ASSUME Init PROVE IInv
    OBVIOUS
  <1>1. TypeOK
    BY RecordTypes, TypeIs, WritesAssumption DEF Init, None
  <1> QED BY <1>1, RecordTypes
          DEF Init, IInv, LedgerTimes, TwoSides, Flagged, RowsHaveProvenance,
              WriterInv, Named, Correcting, Appending, RecordFirst, Fresh,
              PendingIds, Waiting

(***************************************************************************)
(* A step of writer w.                                                     *)
(***************************************************************************)
\* What the others know is not disturbed.
LEMMA OthersKeep ==
  ASSUME IInv, NEW w \in Writers, NEW r,
         job' = [job EXCEPT ![w] = r],
         clock' \in Nat, clock <= clock',
         ledger \subseteq ledger',
         \A q \in ledger' \ ledger : q.id \in PendingIds(w) /\ q.at = clock,
         \A id \in PendingIds(w)' : \/ id \in PendingIds(w)
                                    \/ id > clock
  PROVE  \A v \in Writers \ {w} : WriterInv(v)' /\ Fresh(v)'
  <1> SUFFICES ASSUME NEW v \in Writers \ {w} PROVE WriterInv(v)' /\ Fresh(v)'
    OBVIOUS
  <1>1. job'[v] = job[v] /\ JobOK(job[v]) /\ WriterInv(v) /\ Fresh(v) /\ clock \in Nat
    BY JobFacts DEF IInv
  <1>2. Named(v)'
    BY <1>1 DEF WriterInv, Named, LegOf
  <1>3. Correcting(v)'
    BY <1>1 DEF WriterInv, Correcting, Disputes
  <1>4. Appending(v)'
    <2>1. job[v].pc = "append" /\ job[v].rec.disputed
            => \E c \in ledger' : Disputes(c, job[v].rec)'
      BY <1>1 DEF WriterInv, Appending, Disputes
    <2>2. job[v].pc = "append" /\ ~job[v].rec.disputed => Chains(job[v].rec)'
      <3> SUFFICES ASSUME job[v].pc = "append", ~job[v].rec.disputed,
                          NEW q \in ledger', q.item = job[v].rec.item,
                          q.at < job[v].rec.id
                   PROVE  q.id <= job[v].rec.prev
        BY <1>1 DEF Chains
      <3>1. job[v].rec.id <= clock /\ job[v].rec.id \in Nat
        BY <1>1 DEF WriterInv, Named, Waiting
      <3>2. q \in ledger
        BY <1>1, <3>1
      <3> QED BY <1>1, <3>2 DEF WriterInv, Appending, Chains
    <2> QED BY <1>1, <2>1, <2>2 DEF Appending
  <1>5. RecordFirst(v)'
    BY <1>1 DEF WriterInv, RecordFirst
  <1>6. PendingIds(v)' = PendingIds(v) /\ PendingIds(v) \subseteq 1..clock
    BY <1>1 DEF PendingIds, WriterInv, Named, Correcting, Waiting
  <1>7. Fresh(v)'
    <2> SUFFICES ASSUME NEW id \in PendingIds(v)
                 PROVE  /\ \A q \in ledger' : q.id # id
                        /\ \A u \in Writers \ {v} : id \notin PendingIds(u)'
      BY <1>6 DEF Fresh
    <2>1. \A q \in ledger' : q.id # id
      BY <1>1 DEF Fresh
    <2>2. \A u \in Writers \ {v, w} : PendingIds(u)' = PendingIds(u)
      BY JobFacts DEF PendingIds
    <2>3. id \notin PendingIds(w)'
      BY <1>1, <1>6 DEF Fresh
    <2> QED BY <1>1, <2>1, <2>2, <2>3 DEF Fresh
  <1> QED BY <1>2, <1>3, <1>4, <1>5, <1>7 DEF WriterInv

LEMMA PendingIsOld == ASSUME IInv, NEW v \in Writers PROVE PendingIds(v) \subseteq 1..clock
  BY DEF IInv, PendingIds, WriterInv, Named, Correcting, Waiting

\* A step that leaves the ledger alone.
LEMMA QuietStep ==
  ASSUME IInv, NEW w \in Writers, NEW r, job' = [job EXCEPT ![w] = r],
         clock' \in Nat, clock <= clock', ledger' = ledger,
         TypeOK', RowsHaveProvenance', WriterInv(w)',
         \A id \in PendingIds(w)' : id \in PendingIds(w) \/ id > clock
  PROVE  IInv'
  <1>1. \A v \in Writers \ {w} : WriterInv(v)' /\ Fresh(v)'
    BY OthersKeep
  <1>2. LedgerTimes' /\ TwoSides' /\ Flagged'
    BY JobFacts DEF IInv, LedgerTimes, TwoSides, Flagged, Disputes, Chains
  <1>3. Fresh(w)'
    <2> SUFFICES ASSUME NEW id \in PendingIds(w)'
                 PROVE  /\ \A q \in ledger : q.id # id
                        /\ \A v \in Writers \ {w} : id \notin PendingIds(v)'
      BY DEF Fresh
    <2>1. \A v \in Writers \ {w} : PendingIds(v)' = PendingIds(v)
                                   /\ PendingIds(v) \subseteq 1..clock
      BY JobFacts, PendingIsOld DEF PendingIds
    <2>2. CASE id \in PendingIds(w)
      BY <2>1, <2>2 DEF IInv, Fresh
    <2>3. CASE id > clock
      BY <2>1, <2>3, JobFacts DEF IInv, LedgerTimes
    <2> QED BY <2>2, <2>3
  <1> QED BY <1>1, <1>2, <1>3 DEF IInv

LEMMA RowsKeep ==
  ASSUME RowsHaveProvenance, UNCHANGED <<rows, zone5>>, ledger \subseteq ledger'
  PROVE  RowsHaveProvenance'
  BY DEF RowsHaveProvenance

\* The request is between two legs, or at its end.
LEMMA BetweenLegs ==
  ASSUME IInv, NEW w \in Writers, NEW r, job' = [job EXCEPT ![w] = r],
         JobOK(r), r.pc \in {"idle", "stamp"},
         UNCHANGED <<clock, ledger>>, RowsHaveProvenance',
         rows' \subseteq [id : Ids, item : Items], zone5' \in [Entities -> Nat],
         faults' \in 0..MaxFaults, crashes' = crashes
  PROVE  IInv'
  <1>1. job'[w] = r /\ \A v \in Writers : JobOK(job'[v])
    BY JobFacts
  <1>2. TypeOK'
    BY <1>1, JobFacts, TypeIs, TypeIsNext DEF IInv, JobOK
  <1>3. WriterInv(w)' /\ PendingIds(w)' = {}
    BY <1>1 DEF WriterInv, Named, Correcting, Appending, RecordFirst, PendingIds, Waiting
  <1>4. clock' \in Nat /\ clock <= clock' /\ ledger' = ledger
    BY JobFacts
  <1> QED BY <1>2, <1>3, <1>4, QuietStep

\* Record x of the request is appended.
LEMMA CommitStep ==
  ASSUME IInv, NEW w \in Writers, NEW r, job' = [job EXCEPT ![w] = r],
         NEW x \in Records, x.id \in PendingIds(w), Commit(x),
         ~x.disputed => Chains(x),
         x.disputed /\ x.flags = None => \E c \in ledger : Disputes(c, x),
         JobOK(r), WriterInv(w)', PendingIds(w)' \subseteq PendingIds(w) \ {x.id},
         UNCHANGED <<clock, rows, zone5, crashes>>, faults' \in 0..MaxFaults
  PROVE  IInv'
  <1>0. PICK y : y = [x EXCEPT !.at = clock]
    OBVIOUS
  <1>1. /\ ledger' = ledger \cup {y} /\ y \in Records
        /\ clock \in Nat /\ clock' = clock
        /\ y.id = x.id /\ y.at = clock /\ y.item = x.item /\ y.prev = x.prev
        /\ y.disputed = x.disputed /\ y.flags = x.flags /\ x.id \in 1..clock
    BY <1>0, JobFacts, PendingIsOld DEF Commit, Records
  <1>2. TypeOK'
    <2>1. \A v \in Writers : JobOK(job'[v])
      BY JobFacts
    <2> QED BY <1>1, <2>1, JobFacts, TypeIs, TypeIsNext DEF IInv, JobOK
  <1>3. LedgerTimes'
    BY <1>1 DEF IInv, LedgerTimes
  <1>4. TwoSides'
    <2>1. \A c, q : Disputes(c, q) => Disputes(c, q)'
      BY <1>1 DEF Disputes
    <2>2. \A c : Disputes(c, x) => Disputes(c, y)
      BY <1>1 DEF Disputes
    <2> QED BY <1>1, <2>1, <2>2 DEF IInv, TwoSides
  <1>5. Flagged'
    <2>1. \A q \in ledger : ~q.disputed => Chains(q)'
      BY <1>1 DEF IInv, Flagged, Chains, LedgerTimes
    <2>2. ~y.disputed => Chains(y)'
      BY <1>1 DEF Chains
    <2> QED BY <1>1, <2>1, <2>2 DEF Flagged
  <1>6. RowsHaveProvenance'
    BY <1>1, RowsKeep DEF IInv
  <1>7. \A v \in Writers \ {w} : WriterInv(v)' /\ Fresh(v)'
    <2>1. /\ \A q \in ledger' \ ledger : q.id \in PendingIds(w) /\ q.at = clock
          /\ \A id \in PendingIds(w)' : id \in PendingIds(w) \/ id > clock
          /\ clock' \in Nat /\ clock <= clock' /\ ledger \subseteq ledger'
      BY <1>1
    <2> QED BY <2>1, OthersKeep
  <1>8. Fresh(w)'
    <2>1. \A v \in Writers \ {w} : PendingIds(v)' = PendingIds(v)
      BY JobFacts DEF PendingIds
    <2> QED BY <1>1, <2>1 DEF IInv, Fresh
  <1> QED BY <1>2, <1>3, <1>4, <1>5, <1>6, <1>7, <1>8 DEF IInv

-----------------------------------------------------------------------------
\* One lemma per action, those that end a leg together.
LEMMA NextFactStep == ASSUME IInv, NEW w \in Writers, Start(w) \/ EndFact(w) PROVE IInv'
  <1>1. PICK r : /\ job' = [job EXCEPT ![w] = r]
                 /\ JobOK(r) /\ r.pc \in {"idle", "stamp"}
    <2>1. CASE Start(w)
      <3>1. PICK request \in Requests : Continue(w, NextFact(Idle, request))
        BY <2>1 DEF Start
      <3>2. request \in Seq(Facts)
        BY WritesAssumption
      <3> QED BY <3>1, <3>2, NextFactOK, RecordTypes DEF Continue
    <2>2. CASE EndFact(w)
      <3>1. job[w] \in Jobs /\ job[w].facts # <<>>
        BY <2>2, JobFacts DEF EndFact, JobOK
      <3>2. Tail(job[w].facts) \in Seq(Facts)
        BY <3>1, HeadTailProperties DEF Jobs
      <3> QED BY <2>2, <3>1, <3>2, NextFactOK DEF EndFact, Continue
    <2> QED BY <2>1, <2>2
  <1>2. UNCHANGED <<clock, ledger, rows, zone5, faults, crashes>>
    BY DEF Start, EndFact
  <1>3. RowsHaveProvenance'
    BY <1>2, RowsKeep DEF IInv
  <1> QED BY <1>1, <1>2, <1>3, BetweenLegs, TypeIs DEF IInv

\* However a leg ends, the request is between two legs.
LEMMA EndLegIs ==
  ASSUME IInv, NEW w \in Writers, job[w].pc \in Waiting,
         NEW legs \in Seq(Legs), NEW broken \in BOOLEAN, EndLeg(w, legs, broken)
  PROVE  \E r : /\ job' = [job EXCEPT ![w] = r]
                /\ JobOK(r) /\ r.pc = "stamp"
  BY EndLegOK DEF EndLeg, Continue, Waiting

LEMMA FailLegIs ==
  ASSUME IInv, NEW w \in Writers, job[w].pc \in Waiting, FailLeg(w)
  PROVE  \E r : /\ job' = [job EXCEPT ![w] = r]
                /\ JobOK(r) /\ r.pc = "stamp"
  <1>1. PICK legs \in Seq(Legs) : EndLeg(w, legs, TRUE)
    <2>1. (IF LegOf(w) \in Edges THEN Tail(job[w].legs) ELSE <<>>) \in Seq(Legs)
      BY JobFacts, EmptySeq
    <2> QED BY <2>1 DEF FailLeg
  <1> QED BY <1>1, EndLegIs

LEMMA FailStep ==
  ASSUME IInv, NEW w \in Writers, RefuseBlank(w) \/ StatementFails(w) \/ LegFails(w)
  PROVE  IInv'
  <1>1. job[w].pc \in Waiting /\ job[w].broken \in BOOLEAN
    BY JobFacts DEF RefuseBlank, StatementFails, LegFails, Waiting, Jobs
  <1>2. PICK r : /\ job' = [job EXCEPT ![w] = r] /\ JobOK(r) /\ r.pc = "stamp"
    <2>1. CASE RefuseBlank(w)
      <3>1. <<>> \in Seq(Legs) /\ EndLeg(w, <<>>, job[w].broken)
        BY <2>1, EmptySeq DEF RefuseBlank
      <3> QED BY <1>1, <3>1, EndLegIs
    <2>2. CASE StatementFails(w) \/ LegFails(w)
      BY <1>1, <2>2, FailLegIs DEF StatementFails, LegFails
    <2> QED BY <2>1, <2>2
  <1>3. /\ UNCHANGED <<clock, ledger, rows, zone5, crashes>>
        /\ faults' \in 0..MaxFaults
    BY TypeIs, WritesAssumption DEF RefuseBlank, StatementFails, LegFails, IInv
  <1>4. RowsHaveProvenance'
    BY <1>3, RowsKeep DEF IInv
  <1> QED BY <1>2, <1>3, <1>4, BetweenLegs, TypeIs DEF IInv

\* A row is written for a record that is in the ledger.
LEMMA RowFacts ==
  ASSUME IInv, NEW w \in Writers, job[w].pc = "row"
  PROVE  /\ RowOf(job[w].rec) \in [id : Ids, item : Items]
         /\ RowsHaveProvenance /\ rows' = rows \cup {RowOf(job[w].rec)}
              /\ UNCHANGED <<ledger, zone5>> => RowsHaveProvenance'
         /\ job[w].rec.item = ItemOf(LegOf(w), job[w].rec.id)
         /\ \E r \in ledger : r.id = job[w].rec.id /\ r.item = job[w].rec.item
  <1>1. /\ job[w].rec \in Records /\ RecordFirst(w)
        /\ job[w].rec.item = ItemOf(LegOf(w), job[w].rec.id)
    BY JobFacts DEF IInv, WriterInv, Named, Waiting
  <1> QED BY <1>1 DEF RecordFirst, RowOf, Records, RowsHaveProvenance

LEMMA InsertRowStep == ASSUME IInv, NEW w \in Writers, InsertRow(w) PROVE IInv'
  <1>1. job[w].pc \in Waiting /\ job[w].broken \in BOOLEAN /\ job[w].pc = "row"
    BY JobFacts DEF InsertRow, Waiting, Jobs
  <1>2. PICK r : /\ job' = [job EXCEPT ![w] = r] /\ JobOK(r) /\ r.pc = "stamp"
    BY <1>1, JobFacts, EndLegIs DEF InsertRow
  <1>3. /\ UNCHANGED <<clock, ledger, zone5, faults, crashes>>
        /\ rows' = rows \cup {RowOf(job[w].rec)}
    BY DEF InsertRow
  <1> QED BY <1>1, <1>2, <1>3, RowFacts, BetweenLegs, TypeIs DEF IInv

LEMMA WriteAttributeStep == ASSUME IInv, NEW w \in Writers, WriteAttribute(w) PROVE IInv'
  <1>1. /\ job[w].pc \in Waiting /\ job[w].broken \in BOOLEAN /\ job[w].pc = "row"
        /\ job[w].rec \in Records
    BY JobFacts DEF WriteAttribute, Waiting, Jobs
  <1>2. PICK r : /\ job' = [job EXCEPT ![w] = r] /\ JobOK(r) /\ r.pc = "stamp"
    BY <1>1, JobFacts, EndLegIs DEF WriteAttribute
  <1>3. PICK e \in Entities : LegOf(w) = <<"attribute", e>>
    BY DEF WriteAttribute, Attributes
  <1>4. /\ UNCHANGED <<clock, ledger, rows, faults, crashes>>
        /\ zone5' = [zone5 EXCEPT ![e] = job[w].rec.id]
        /\ zone5 \in [Entities -> Nat] /\ job[w].rec.id \in Nat
    BY <1>1, <1>3, TypeIs DEF WriteAttribute, IInv, Records, Ids
  <1>5. job[w].rec.item = <<"attribute", e>>
    BY <1>1, <1>3, RowFacts, LegFacts DEF ItemOf
  <1>6. RowsHaveProvenance'
    <2>1. \A row \in rows' : \E q \in ledger' : q.id = row.id /\ q.item = row.item
      BY <1>4 DEF IInv, RowsHaveProvenance
    <2>2. \A f \in Entities : zone5'[f] # None =>
            \E q \in ledger' : q.id = zone5'[f] /\ q.item = <<"attribute", f>>
      <3> SUFFICES ASSUME NEW f \in Entities, zone5'[f] # None
                   PROVE  \E q \in ledger : q.id = zone5'[f] /\ q.item = <<"attribute", f>>
        BY <1>4
      <3>1. CASE f = e
        BY <3>1, <1>1, <1>4, <1>5, RowFacts
      <3>2. CASE f # e
        BY <3>2, <1>4 DEF IInv, RowsHaveProvenance
      <3> QED BY <3>1, <3>2
    <2> QED BY <2>1, <2>2 DEF RowsHaveProvenance
  <1> QED BY <1>2, <1>4, <1>6, BetweenLegs, TypeIs DEF IInv

\* A step inside a leg: the job stays a job of its leg.
LEMMA InsideLeg ==
  ASSUME IInv, NEW w \in Writers, NEW r \in Jobs,
         job' = [job EXCEPT ![w] = r], JobOK(r),
         clock' \in clock .. MaxClock, ledger' = ledger,
         UNCHANGED <<rows, zone5, faults, crashes>>,
         WriterInv(w)',
         \A id \in PendingIds(w)' : id \in PendingIds(w) \/ id > clock
  PROVE  IInv'
  <1>1. TypeOK'
    BY JobFacts, TypeIs, TypeIsNext, WritesAssumption DEF IInv
  <1>2. RowsHaveProvenance'
    BY RowsKeep DEF IInv
  <1>3. clock' \in Nat /\ clock <= clock'
    BY JobFacts
  <1> QED BY <1>1, <1>2, <1>3, QuietStep

LEMMA IdsAre ==
  ASSUME IInv, NEW item
  PROVE  /\ IdsOf(item) \subseteq 1..clock
         /\ \A q \in ledger : q.item = item => q.id \in IdsOf(item)
         /\ \A id \in IdsOf(item) : \E q \in ledger : q.id = id /\ q.item = item
  BY DEF IdsOf, IInv, LedgerTimes

\* A request takes up the record it has stamped.
LEMMA TakesUp ==
  ASSUME NEW j \in Jobs, j.facts # <<>>, j.legs # <<>>, NEW rec \in Records
  PROVE  LET r == [j EXCEPT !.pc = "look", !.rec = rec]
         IN  /\ r \in Jobs /\ JobOK(r)
             /\ r.pc = "look" /\ r.rec = rec /\ r.legs = j.legs
  BY DEF Jobs, JobOK, Waiting

LEMMA StampStep == ASSUME IInv, NEW w \in Writers, Stamp(w) PROVE IInv'
  <1>1. /\ job[w].pc = "stamp" /\ job[w].legs # <<>> /\ clock' = clock + 1
        /\ clock' \in clock .. MaxClock /\ clock \in Nat /\ clock' \in Ids
        /\ UNCHANGED <<ledger, rows, zone5, faults, crashes>>
        /\ job[w] \in Jobs /\ job[w].facts # <<>>
    BY JobFacts, WritesAssumption DEF Stamp, JobOK, Ids, None
  <1>2. LegOf(w) \in Legs
    BY <1>1, HeadTailProperties DEF LegOf, Jobs
  <1>3. PICK id \in Ids : id = clock'
    BY <1>1
  <1>4. PICK item \in Items : item = ItemOf(LegOf(w), id)
    BY <1>2, ItemType
  <1>5. PICK prev \in {None} \cup IdsOf(item) :
          Continue(w, [job[w] EXCEPT !.pc = "look",
                         !.rec = [NoRecord EXCEPT !.id = id, !.item = item,
                                                  !.prev = prev]])
    BY <1>3, <1>4 DEF Stamp
  <1>6. prev \in Nat
    BY <1>5, <1>1, IdsAre DEF None
  <1>7. PICK rec : rec = [NoRecord EXCEPT !.id = id, !.item = item, !.prev = prev]
    OBVIOUS
  <1>8. /\ rec \in Records /\ rec.id = id /\ rec.item = item
        /\ rec.flags = None /\ ~rec.disputed
    BY <1>6, <1>7 DEF NoRecord, Records, None
  <1>9. PICK r : r = [job[w] EXCEPT !.pc = "look", !.rec = rec]
    OBVIOUS
  <1>10. /\ r \in Jobs /\ JobOK(r)
         /\ r.pc = "look" /\ r.rec = rec /\ r.legs = job[w].legs
    BY <1>1, <1>8, <1>9, TakesUp
  <1>11. job' = [job EXCEPT ![w] = r] /\ job'[w] = r
    BY <1>5, <1>7, <1>9, JobFacts DEF Continue
  <1>12. WriterInv(w)'
    BY <1>1, <1>3, <1>4, <1>8, <1>10, <1>11
       DEF WriterInv, Named, Correcting, Appending, RecordFirst, LegOf, Waiting, Ids
  <1>13. PendingIds(w)' = {clock + 1}
    BY <1>1, <1>3, <1>8, <1>10, <1>11 DEF PendingIds
  <1>14. \A n \in PendingIds(w)' : n \in PendingIds(w) \/ n > clock
    BY <1>1, <1>13
  <1> QED BY <1>1, <1>10, <1>11, <1>12, <1>14, InsideLeg

\* detect_conflict: no conflict means that the record chains from all there
\* is; a conflict is with another record, which is in the ledger.
LEMMA DetectConflict ==
  ASSUME IInv, NEW w \in Writers, job[w].pc = "look",
         NEW r, r = job[w].rec, NEW latest, latest = Latest(r.item)
  PROVE  /\ ~Conflicts(r.prev, latest) => Chains(r)
         /\ Conflicts(r.prev, latest) =>
              \E q \in ledger : q.id = latest /\ q.id # r.id /\ q.item = r.item
  <1>1. clock \in Nat /\ \A q \in ledger : q.id # r.id
    BY JobFacts DEF IInv, Fresh, PendingIds
  <1>2. CASE IdsOf(r.item) = {}
    <2>1. latest = None /\ \A q \in ledger : q.item # r.item
      BY <1>2, IdsAre DEF Latest
    <2> QED BY <2>1 DEF Conflicts, Chains
  <1>3. CASE IdsOf(r.item) # {}
    <2>1. latest \in IdsOf(r.item) /\ \A m \in IdsOf(r.item) : m <= latest
      BY <1>1, <1>3, IdsAre, LatestIs
    <2>2. latest # None /\ \A q \in ledger : q.item = r.item => q.id <= latest
      BY <1>1, <2>1, IdsAre DEF None
    <2>3. \E q \in ledger : q.id = latest /\ q.id # r.id /\ q.item = r.item
      BY <1>1, <2>1, IdsAre
    <2> QED BY <2>2, <2>3 DEF Conflicts, Chains
  <1> QED BY <1>2, <1>3

LEMMA Looking ==
  ASSUME IInv, NEW w \in Writers, job[w].pc = "look"
  PROVE  /\ job[w].rec \in Records /\ job[w].rec.id \in 1..clock /\ ~job[w].rec.disputed
         /\ job[w].rec.item = ItemOf(LegOf(w), job[w].rec.id)
         /\ job[w].rec.flags = None
         /\ job[w].facts # <<>> /\ job[w].legs # <<>> /\ job[w] \in Jobs
  BY JobFacts DEF IInv, WriterInv, Named, Waiting, JobOK

LEMMA NoConflictStep == ASSUME IInv, NEW w \in Writers, NoConflict(w) PROVE IInv'
  <1>1. /\ job[w].pc = "look"
        /\ UNCHANGED <<clock, ledger, rows, zone5, faults, crashes>>
    BY DEF NoConflict
  <1>2. PICK r : r = [job[w] EXCEPT !.pc = "append"]
    OBVIOUS
  <1>3. r \in Jobs /\ JobOK(r) /\ r.pc = "append" /\ r.rec = job[w].rec /\ r.legs = job[w].legs
    BY <1>1, <1>2, Looking DEF Jobs, JobOK, Waiting
  <1>4. job' = [job EXCEPT ![w] = r] /\ job'[w] = r
    BY <1>2, JobFacts DEF NoConflict, Goto, Continue
  <1>5. Chains(job[w].rec)
    BY <1>1, DetectConflict DEF NoConflict
  <1>6. WriterInv(w)'
    <2>1. Named(w)' /\ Correcting(w)' /\ RecordFirst(w)'
      BY <1>1, <1>3, <1>4, Looking DEF Named, Correcting, RecordFirst, LegOf, Waiting
    <2>2. Appending(w)'
      BY <1>1, <1>3, <1>4, <1>5, Looking DEF Appending, Chains
    <2> QED BY <2>1, <2>2 DEF WriterInv
  <1>7. \A n \in PendingIds(w)' : n \in PendingIds(w) \/ n > clock
    BY <1>1, <1>3, <1>4 DEF PendingIds
  <1>8. clock' \in clock .. MaxClock
    BY <1>1, WritesAssumption DEF IInv, TypeOK
  <1> QED BY <1>1, <1>3, <1>4, <1>6, <1>7, <1>8, InsideLeg

LEMMA NewCorrection ==
  ASSUME NEW id \in Ids, NEW item \in Items, NEW prev \in Nat, NEW of \in Nat,
         NEW c, c = [id |-> id, item |-> item, prev |-> prev,
                     disputed |-> TRUE, flags |-> of, at |-> None]
  PROVE  /\ c \in Records /\ c.id = id /\ c.item = item /\ c.prev = prev
         /\ c.disputed /\ c.flags = of
  BY DEF Records, None

LEMMA Disputed ==
  ASSUME NEW x \in Records
  PROVE  LET y == [x EXCEPT !.disputed = TRUE]
         IN  /\ y \in Records /\ y.disputed
             /\ y.id = x.id /\ y.item = x.item /\ y.flags = x.flags
  BY DEF Records

LEMMA ConflictStep == ASSUME IInv, NEW w \in Writers, Conflict(w) PROVE IInv'
  <1>1. PICK x \in Records : x = job[w].rec
    BY Looking DEF Conflict
  <1>2. PICK latest : latest = Latest(x.item)
    OBVIOUS
  <1>3. /\ job[w].pc = "look" /\ Conflicts(x.prev, latest)
        /\ clock \in Nat /\ clock' = clock + 1 /\ clock' \in clock .. MaxClock
        /\ clock' \in Ids
        /\ UNCHANGED <<ledger, rows, zone5, faults, crashes>>
    BY <1>1, <1>2, JobFacts, WritesAssumption DEF Conflict, Ids, None
  <1>4. \E q \in ledger : q.id = latest /\ q.id # x.id /\ q.item = x.item
    BY <1>1, <1>2, <1>3, DetectConflict
  <1>5. latest \in Nat
    BY <1>3, <1>4 DEF IInv, LedgerTimes
  <1>6. PICK id \in Ids : id = clock'
    BY <1>3
  <1>7. PICK c : c = [id |-> id, item |-> x.item, prev |-> latest,
                      disputed |-> TRUE, flags |-> x.id, at |-> None]
    OBVIOUS
  <1>8. /\ c \in Records /\ c.id = id /\ c.item = x.item /\ c.prev = latest
        /\ c.disputed /\ c.flags = x.id
    BY <1>1, <1>5, <1>7, NewCorrection DEF Records, Ids
  <1>9. PICK y \in Records : /\ y = [x EXCEPT !.disputed = TRUE] /\ y.disputed
                             /\ y.id = x.id /\ y.item = x.item /\ y.flags = x.flags
    BY Disputed
  <1>9a. PICK r : r = [job[w] EXCEPT !.pc = "correct", !.rec = y, !.correction = c]
    OBVIOUS
  <1>10. /\ r \in Jobs /\ JobOK(r) /\ r.pc = "correct" /\ r.legs = job[w].legs
         /\ r.correction = c /\ r.rec.disputed /\ r.rec.id = x.id
         /\ r.rec.item = x.item /\ r.rec.flags = x.flags
    <2>1. job[w] \in Jobs /\ job[w].facts # <<>> /\ job[w].legs # <<>>
      BY <1>3, Looking
    <2>2. /\ r \in Jobs /\ JobOK(r) /\ r.pc = "correct" /\ r.legs = job[w].legs
          /\ r.correction = c /\ r.rec = y
      BY <2>1, <1>8, <1>9, <1>9a DEF Jobs, JobOK, Waiting
    <2> QED BY <2>2, <1>9
  <1>11. job' = [job EXCEPT ![w] = r] /\ job'[w] = r
    <2>1. job' = [job EXCEPT ![w] = r]
      BY <1>1, <1>2, <1>6, <1>7, <1>9, <1>9a DEF Conflict, Continue
    <2> QED BY <2>1, JobFacts
  <1>12. WriterInv(w)'
    <2>1. x.id \in 1..clock /\ x.item = ItemOf(LegOf(w), x.id) /\ x.flags = None
      BY <1>1, <1>3, Looking
    <2>2. Named(w)' /\ Appending(w)' /\ RecordFirst(w)'
      BY <1>3, <1>10, <1>11, <2>1 DEF Named, Appending, RecordFirst, LegOf, Waiting
    <2>3. Disputes(r.correction, r.rec)'
      BY <1>3, <1>4, <1>8, <1>10 DEF Disputes
    <2>4. Correcting(w)'
      BY <1>3, <1>6, <1>8, <1>10, <1>11, <2>1, <2>3 DEF Correcting, Ids
    <2> QED BY <2>2, <2>4 DEF WriterInv
  <1>13. PendingIds(w)' = {x.id, clock + 1} /\ PendingIds(w) = {x.id}
    BY <1>1, <1>3, <1>6, <1>8, <1>10, <1>11 DEF PendingIds
  <1>14. \A n \in PendingIds(w)' : n \in PendingIds(w) \/ n > clock
    BY <1>3, <1>13
  <1> QED BY <1>3, <1>10, <1>11, <1>12, <1>14, InsideLeg


\* Once its correction is in the ledger, or once it is in it itself.
LEMMA Appended ==
  ASSUME IInv, NEW w \in Writers, NEW x \in Records, NEW pc \in {"append", "row"},
         \/ job[w].pc = "correct" /\ pc = "append" /\ x = job[w].correction
         \/ job[w].pc = "append" /\ pc = "row" /\ x = job[w].rec,
         Commit(x), Goto(w, pc), clock' = clock
  PROVE  \E r : /\ job' = [job EXCEPT ![w] = r] /\ JobOK(r)
                /\ WriterInv(w)'
                /\ PendingIds(w)' \subseteq PendingIds(w) \ {x.id}
  <1>1. /\ job[w] \in Jobs /\ JobOK(job[w]) /\ job \in [Writers -> Jobs]
        /\ job[w].pc \in {"correct", "append"} /\ WriterInv(w)
    BY JobFacts DEF IInv
  <1>2. PICK r : r = [job[w] EXCEPT !.pc = pc]
    OBVIOUS
  <1>3. /\ r \in Jobs /\ JobOK(r) /\ r.pc = pc /\ r.rec = job[w].rec
        /\ r.legs = job[w].legs
    BY <1>1, <1>2 DEF Jobs, JobOK, Waiting
  <1>4. job' = [job EXCEPT ![w] = r] /\ job'[w] = r
    BY <1>1, <1>2 DEF Goto, Continue
  <1>5. PICK y : y = [x EXCEPT !.at = clock]
    OBVIOUS
  <1>6. /\ ledger' = ledger \cup {y} /\ y.id = x.id /\ y.item = x.item
        /\ y.prev = x.prev /\ y.flags = x.flags
    BY <1>5 DEF Commit, Records
  <1>7. Named(w)' /\ Correcting(w)'
    BY <1>1, <1>3, <1>4 DEF WriterInv, Named, Correcting, LegOf, Waiting
  <1>8. Appending(w)'
    <2>1. CASE pc = "append"
      <3>1. job[w].rec.disputed /\ Disputes(x, job[w].rec) /\ r.rec.disputed
        BY <1>1, <1>3, <2>1 DEF WriterInv, Correcting
      <3>2. Disputes(y, r.rec)'
        BY <1>3, <1>6, <3>1 DEF Disputes
      <3> QED BY <1>4, <1>6, <3>1, <3>2 DEF Appending
    <2>2. CASE pc = "row"
      BY <1>3, <1>4, <2>2 DEF Appending
    <2> QED BY <2>1, <2>2
  <1>9. RecordFirst(w)'
    BY <1>3, <1>4, <1>6 DEF RecordFirst
  <1>10. PendingIds(w)' \subseteq PendingIds(w) \ {x.id}
    BY <1>1, <1>3, <1>4 DEF PendingIds, WriterInv, Correcting
  <1> QED BY <1>3, <1>4, <1>7, <1>8, <1>9, <1>10 DEF WriterInv

\* What is appended is as it must be.
LEMMA ToAppend ==
  ASSUME IInv, NEW w \in Writers, NEW x,
         \/ job[w].pc = "correct" /\ x = job[w].correction
         \/ job[w].pc = "append" /\ x = job[w].rec
  PROVE  /\ x \in Records /\ x.id \in PendingIds(w)
         /\ ~x.disputed => Chains(x)
         /\ x.disputed /\ x.flags = None => \E c \in ledger : Disputes(c, x)
  <1>1. CASE job[w].pc = "correct" /\ x = job[w].correction
    <2>1. x \in Records /\ x.disputed /\ x.flags = job[w].rec.id /\ job[w].rec.id \in 1..clock
      BY <1>1, JobFacts DEF IInv, WriterInv, Named, Correcting, Disputes, Waiting
    <2> QED BY <1>1, <2>1, JobFacts DEF PendingIds, None
  <1>2. CASE job[w].pc = "append" /\ x = job[w].rec
    BY <1>2, JobFacts DEF IInv, WriterInv, Appending, PendingIds, Waiting
  <1> QED BY <1>1, <1>2

LEMMA AppendStep ==
  ASSUME IInv, NEW w \in Writers, AppendCorrection(w) \/ AppendRecord(w)
  PROVE  IInv'
  <1>1. PICK pc \in {"append", "row"}, x \in {job[w].correction, job[w].rec} :
          /\ \/ job[w].pc = "correct" /\ pc = "append" /\ x = job[w].correction
             \/ job[w].pc = "append" /\ pc = "row" /\ x = job[w].rec
          /\ Commit(x) /\ Goto(w, pc)
    BY DEF AppendCorrection, AppendRecord
  <1>2. UNCHANGED <<clock, rows, zone5, faults, crashes>>
    BY DEF AppendCorrection, AppendRecord
  <1>3. /\ x \in Records /\ x.id \in PendingIds(w)
        /\ ~x.disputed => Chains(x)
        /\ x.disputed /\ x.flags = None => \E c \in ledger : Disputes(c, x)
    BY <1>1, ToAppend
  <1>4. PICK r : /\ job' = [job EXCEPT ![w] = r] /\ JobOK(r)
                 /\ WriterInv(w)'
                 /\ PendingIds(w)' \subseteq PendingIds(w) \ {x.id}
    BY <1>1, <1>2, <1>3, Appended
  <1>5. faults' \in 0..MaxFaults
    BY <1>2, TypeIs DEF IInv
  <1> QED BY <1>1, <1>2, <1>3, <1>4, <1>5, CommitStep

LEMMA AnswerLostStep == ASSUME IInv, NEW w \in Writers, AnswerLost(w) PROVE IInv'
  <1>1. /\ job[w].pc \in Waiting /\ FailLeg(w)
        /\ UNCHANGED <<clock, zone5, crashes>> /\ faults' \in 0..MaxFaults
    BY TypeIs, WritesAssumption DEF AnswerLost, IInv, Waiting
  <1>2. PICK r : job' = [job EXCEPT ![w] = r] /\ JobOK(r) /\ r.pc = "stamp"
    BY <1>1, FailLegIs
  <1>3. WriterInv(w)' /\ PendingIds(w)' = {}
    <2>1. job'[w] = r
      BY <1>2, JobFacts
    <2> QED BY <1>2, <2>1
            DEF WriterInv, Named, Correcting, Appending, RecordFirst, PendingIds, Waiting
  <1>4. CASE job[w].pc \in {"correct", "append"}
    <2>1. PICK x : /\ \/ job[w].pc = "correct" /\ x = job[w].correction
                      \/ job[w].pc = "append" /\ x = job[w].rec
                   /\ Commit(x) /\ UNCHANGED rows
      BY <1>4 DEF AnswerLost
    <2>2. /\ x \in Records /\ x.id \in PendingIds(w)
          /\ ~x.disputed => Chains(x)
          /\ x.disputed /\ x.flags = None => \E c \in ledger : Disputes(c, x)
      BY <2>1, ToAppend
    <2>3. PendingIds(w)' \subseteq PendingIds(w) \ {x.id}
      BY <1>3
    <2> QED BY <1>1, <1>2, <1>3, <2>1, <2>2, <2>3, CommitStep
  <1>5. CASE job[w].pc = "row"
    <2>1. rows' = rows \cup {RowOf(job[w].rec)} /\ UNCHANGED ledger
      BY <1>5 DEF AnswerLost
    <2> QED BY <1>1, <1>2, <1>5, <2>1, RowFacts, BetweenLegs, TypeIs DEF IInv
  <1> QED BY <1>1, <1>4, <1>5 DEF AnswerLost

LEMMA CrashStep == ASSUME IInv, Crash PROVE IInv'
  <1>1. /\ job' = [w \in Writers |-> Idle] /\ zone5' = [e \in Entities |-> None]
        /\ UNCHANGED <<clock, ledger, rows, faults>> /\ crashes' \in 0..MaxCrashes
    BY TypeIs, WritesAssumption DEF Crash, IInv
  <1>2. TypeOK'
    BY <1>1, RecordTypes, TypeIs, TypeIsNext DEF IInv, None
  <1>3. \A w \in Writers : job'[w].pc = "idle"
    BY <1>1, RecordTypes
  <1>4. \A w \in Writers : WriterInv(w)' /\ Fresh(w)'
    BY <1>3 DEF WriterInv, Named, Correcting, Appending, RecordFirst, Fresh,
                PendingIds, Waiting
  <1>5. LedgerTimes' /\ TwoSides' /\ Flagged' /\ RowsHaveProvenance'
    BY <1>1 DEF IInv, LedgerTimes, TwoSides, Flagged, RowsHaveProvenance,
                Disputes, Chains, None
  <1> QED BY <1>2, <1>4, <1>5 DEF IInv

LEMMA StutterStep == ASSUME IInv, UNCHANGED vars PROVE IInv'
  <1>1. UNCHANGED <<clock, ledger, rows, zone5, job, faults, crashes>>
    BY DEF vars
  <1>2. TypeOK' /\ LedgerTimes' /\ RowsHaveProvenance'
    BY <1>1 DEF IInv, TypeOK, LedgerTimes, RowsHaveProvenance
  <1>3. TwoSides' /\ Flagged'
    BY <1>1 DEF IInv, TwoSides, Flagged, Disputes, Chains
  <1>4. ASSUME NEW w \in Writers PROVE WriterInv(w)' /\ Fresh(w)'
    <2>1. WriterInv(w) /\ Fresh(w)
      BY DEF IInv
    <2>2. Named(w)' /\ Correcting(w)' /\ RecordFirst(w)'
      BY <1>1, <2>1 DEF WriterInv, Named, Correcting, RecordFirst, Disputes, LegOf
    <2>3. Appending(w)'
      BY <1>1, <2>1 DEF WriterInv, Appending, Disputes, Chains
    <2>4. \A v \in Writers : PendingIds(v)' = PendingIds(v)
      BY <1>1 DEF PendingIds
    <2>5. Fresh(w)'
      BY <1>1, <2>1, <2>4 DEF Fresh
    <2> QED BY <2>2, <2>3, <2>5 DEF WriterInv
  <1> QED BY <1>2, <1>3, <1>4 DEF IInv

LEMMA Inductive == IInv /\ [Next]_vars => IInv'
  <1> SUFFICES ASSUME IInv, [Next]_vars PROVE IInv'
    OBVIOUS
  <1>1. ASSUME NEW w \in Writers, Step(w) PROVE IInv'
    BY <1>1, NextFactStep, StampStep, NoConflictStep, ConflictStep, AppendStep,
       FailStep, WriteAttributeStep, InsertRowStep, AnswerLostStep DEF Step
  <1> QED BY <1>1, CrashStep, StutterStep DEF Next

\* The inductive invariant is an invariant of the writes.
THEOREM Invariance == Spec => []IInv
  BY InitIInv, Inductive, PTL DEF Spec

-----------------------------------------------------------------------------
(***************************************************************************)
(* The theorems.                                                           *)
(***************************************************************************)
\* The state of the writes is well formed: the handlers of
\* conflict_aware_zone_writes.py never act for a request without its fact,
\* its leg and its record.
THEOREM WritesTypeCorrect == Spec => []TypeOK
  <1>1. IInv => TypeOK
    BY DEF IInv
  <1> QED BY <1>1, Invariance, PTL

\* Every row of Zone 3 and every attribute of Zone 5 have their record,
\* through failures, lost answers and crashes
\* (conflict_aware_zone_writes.py:301-302, 340-341, 482-483).
THEOREM StoredIsProvenanced == Spec => []RowsHaveProvenance
  <1>1. IInv => RowsHaveProvenance
    BY DEF IInv
  <1> QED BY <1>1, Invariance, PTL

\* A record that conflicts with what was there before its write began is
\* disputed (conflict_detection_sweep.py:117-118).
THEOREM ConflictsAreFlagged == Spec => []ContradictionsFlagged
  <1>1. IInv => ContradictionsFlagged
    BY DEF IInv, Flagged, Chains, ContradictionsFlagged
  <1> QED BY <1>1, Invariance, PTL

\* A disputed write has its correction beside it, which names another record
\* of the item (conflict_detection_sweep.py:155 before 174).
THEOREM DisputesHaveTwoSides == Spec => []BothSidesDisputed
  <1>1. IInv => BothSidesDisputed
    BY DEF IInv, TwoSides, Disputes, BothSidesDisputed
  <1> QED BY <1>1, Invariance, PTL
=============================================================================
