------------------------- MODULE ConflictAwareWrites -------------------------
(***************************************************************************)
(* Writes to the semantic and entity zones with their provenance.  A       *)
(* request (writeMemory, or writeMemoryBatch with its items in order) runs *)
(* on one pooled connection.  classify routes each of its facts to legs:   *)
(* an attribute of Zone 5, edges or a general fact of Zone 3.  For a leg   *)
(* the ConflictAware repositories (conflict_aware_zone_writes.py) first    *)
(* append a provenance record through ConflictDetectingProvenance-         *)
(* Repository, which looks for a record the new one does not chain from    *)
(* and marks both disputed, and then write the row.                        *)
(*                                                                         *)
(* Requests overlap and nothing locks an item.  The connection is never    *)
(* rolled back, so after one failing statement all the later ones of the   *)
(* request fail.  Zone 5 is a dictionary of the process, the ledger and    *)
(* Zone 3 are tables.  A record's id is its write_timestamp: the clock is  *)
(* taken to be finer than the distance between two of its readings.  A     *)
(* write never sets invalidation_flag, so every record is active.  Left    *)
(* out: tenants, confidences and hashes, and the refusals that come before *)
(* anything is looked at (no context hash, no connection).                 *)
(***************************************************************************)
EXTENDS Naturals, Sequences

CONSTANTS Writers,    \* requests being served at a time
          Entities,
          Facts,      \* the CandidateFacts
          Requests,   \* what a request carries: one fact, or a batch
          MaxClock,   \* bound: readings of the clock
          MaxFaults,  \* bound: failing statements
          MaxCrashes  \* bound: process crashes

ASSUME WritesAssumption ==
  /\ Facts \subseteq [subjects : Seq(Entities), objects : Seq(Entities),
                      reverse : BOOLEAN, blank : BOOLEAN]
  /\ Requests \subseteq Seq(Facts) \ {<<>>}
  /\ MaxClock \in Nat /\ MaxFaults \in Nat /\ MaxCrashes \in Nat

VARIABLES clock,     \* readings of the clock so far
          ledger,    \* the rows of provenance_records
          rows,      \* the rows of Zone 3: edges and general facts
          zone5,     \* zone5[e]: the provenance_id of e's attribute, or None
          job,       \* job[w]: where request w is
          faults, crashes

vars == <<clock, ledger, rows, zone5, job, faults, crashes>>

None == 0
Ids == Nat \ {None}

\* A leg is named by the item it writes, but for a general fact: the fact_id
\* is new each time, like the id of the record.
Attributes == {<<"attribute", e>> : e \in Entities}
Edge(s, o) == <<"edge", s, o>>
Edges == {Edge(s, o) : s \in Entities, o \in Entities}
Fact == <<"fact">>
Legs == Attributes \cup Edges \cup {Fact}

ItemOf(leg, id) == IF leg = Fact THEN <<"fact", id>> ELSE leg
Items == Attributes \cup Edges \cup ({"fact"} \X Ids)

(***************************************************************************)
(* classify, after the Zone 5 write of a fact with one subject.  A blank   *)
(* predicate or statement is its ValueError.  A fact with several subjects *)
(* and no object is accepted and has no leg at all.                        *)
(***************************************************************************)
EdgeLegs(f) ==
  [k \in 1..(Len(f.subjects) * Len(f.objects)) |->
     Edge(f.subjects[((k - 1) \div Len(f.objects)) + 1],
          f.objects[((k - 1) % Len(f.objects)) + 1])]

LegsOf(f) ==
  LET zone5Legs == IF Len(f.subjects) = 1
                   THEN << <<"attribute", f.subjects[1]>> >> ELSE <<>>
      zone3Legs == CASE f.blank \/ (Len(f.subjects) = 1 /\ ~f.reverse) -> <<>>
                     [] f.subjects = <<>> -> <<Fact>>
                     [] OTHER -> EdgeLegs(f)
  IN  zone5Legs \o zone3Legs

-----------------------------------------------------------------------------
\* prev: the record it chains from; flags: in a correction, the write it
\* disputes prev for; at: a history variable, the clock at the commit.
NoRecord == [id |-> None, item |-> Fact, prev |-> None, disputed |-> FALSE,
             flags |-> None, at |-> None]

\* facts: those still to do, the current one first; legs: those of its legs
\* still to do; rec: the record to append, correction: the one to append
\* before it; broken: a statement of the connection has failed.
Idle == [pc |-> "idle", facts |-> <<>>, legs |-> <<>>, rec |-> NoRecord,
         correction |-> NoRecord, broken |-> FALSE]

Init == /\ clock = 0
        /\ ledger = {} /\ rows = {}
        /\ zone5 = [e \in Entities |-> None]
        /\ job = [w \in Writers |-> Idle]
        /\ faults = 0 /\ crashes = 0

Continue(w, r) == job' = [job EXCEPT ![w] = r]
Goto(w, pc) == Continue(w, [job[w] EXCEPT !.pc = pc])
LegOf(w) == Head(job[w].legs)

EndLeg(w, legs, broken) ==
  Continue(w, [job[w] EXCEPT !.pc = "stamp", !.legs = legs, !.rec = NoRecord,
                             !.correction = NoRecord, !.broken = broken])

-----------------------------------------------------------------------------
(***************************************************************************)
(* The handlers: _do_write for each fact of the request, in order.         *)
(***************************************************************************)
\* Mutant: a request that is through is not let go.
NextFactLingers(j, facts) ==
  [j EXCEPT !.pc = "stamp", !.facts = facts,
            !.legs = IF facts = <<>> THEN <<>> ELSE LegsOf(Head(facts))]

NextFact(j, facts) ==
  IF facts = <<>> THEN Idle
  ELSE [j EXCEPT !.pc = "stamp", !.facts = facts,
                 !.legs = LegsOf(Head(facts))]

Start(w) ==
  /\ job[w].pc = "idle"
  /\ \E request \in Requests : Continue(w, NextFact(Idle, request))
  /\ UNCHANGED <<clock, ledger, rows, zone5, faults, crashes>>

\* No leg of the fact is left: its receipt, then the next fact.
EndFact(w) ==
  /\ job[w].pc = "stamp" /\ job[w].legs = <<>>
  /\ Continue(w, NextFact(job[w], Tail(job[w].facts)))
  /\ UNCHANGED <<clock, ledger, rows, zone5, faults, crashes>>

(***************************************************************************)
(* write_attribute, insert_edge and insert_general_fact: the record first. *)
(***************************************************************************)
\* find_by_item_id and latest_active_record.
IdsOf(item) == {r.id : r \in {q \in ledger : q.item = item}}
Latest(item) == IF IdsOf(item) = {} THEN None
                ELSE CHOOSE m \in IdsOf(item) : \A n \in IdsOf(item) : n <= m

\* The handlers chain from no record; a host that calls the repositories may
\* chain from a record it has found, now or long ago.
Stamp(w) ==
  LET item == ItemOf(LegOf(w), clock')
  IN  /\ job[w].pc = "stamp" /\ job[w].legs # <<>>
      /\ clock < MaxClock
      /\ clock' = clock + 1
      /\ \E prev \in {None} \cup IdsOf(item) :
           Continue(w, [job[w] EXCEPT !.pc = "look",
                          !.rec = [NoRecord EXCEPT !.id = clock', !.item = item,
                                                   !.prev = prev]])
      /\ UNCHANGED <<ledger, rows, zone5, faults, crashes>>

\* Mutant: a write that chains from any record is taken for a revision.
ConflictsUnchained(prev, latest) == latest # None /\ prev = None

\* detect_conflict: there is an active record, and it is not the one the
\* write chains from.
Conflicts(prev, latest) == latest # None /\ prev # latest

\* ConflictDetectingProvenanceRepository.append looks first.
NoConflict(w) ==
  /\ job[w].pc = "look" /\ ~job[w].broken
  /\ ~Conflicts(job[w].rec.prev, Latest(job[w].rec.item))
  /\ Goto(w, "append")
  /\ UNCHANGED <<clock, ledger, rows, zone5, faults, crashes>>

\* In a conflict the correction is stamped at once (a look-up commutes with
\* the readings of the clock by others), and the write is downgraded.
Conflict(w) ==
  LET j == job[w]
      latest == Latest(j.rec.item)
  IN  /\ j.pc = "look" /\ ~j.broken
      /\ Conflicts(j.rec.prev, latest)
      /\ clock < MaxClock
      /\ clock' = clock + 1
      /\ Continue(w, [j EXCEPT
           !.pc = "correct", !.rec.disputed = TRUE,
           !.correction = [id |-> clock', item |-> j.rec.item, prev |-> latest,
                           disputed |-> TRUE, flags |-> j.rec.id, at |-> None]])
      /\ UNCHANGED <<ledger, rows, zone5, faults, crashes>>

\* SqlProvenanceRepository.append, which commits.
Commit(r) == ledger' = ledger \cup {[r EXCEPT !.at = clock]}

\* Mutant: the downgraded write is appended first, the correction is left to
\* its end.
CorrectsLater(w) ==
  /\ job[w].pc = "correct"
  /\ Goto(w, "append")
  /\ UNCHANGED <<clock, ledger, rows, zone5, faults, crashes>>

AppendCorrection(w) ==
  /\ job[w].pc = "correct"
  /\ Commit(job[w].correction)
  /\ Goto(w, "append")
  /\ UNCHANGED <<clock, rows, zone5, faults, crashes>>

AppendRecord(w) ==
  /\ job[w].pc = "append"
  /\ Commit(job[w].rec)
  /\ Goto(w, "row")
  /\ UNCHANGED <<clock, rows, zone5, faults, crashes>>

(***************************************************************************)
(* Then the row.                                                           *)
(***************************************************************************)
\* EntityMemoryRepository.write_attribute refuses a blank attribute name with
\* a ValueError: the fact is rejected, its record stays.
RefuseBlank(w) ==
  /\ job[w].pc = "row" /\ LegOf(w) \in Attributes
  /\ Head(job[w].facts).blank
  /\ EndLeg(w, <<>>, job[w].broken)
  /\ UNCHANGED <<clock, ledger, rows, zone5, faults, crashes>>

\* The attribute is replaced, whichever was there.
WriteAttribute(w) ==
  /\ job[w].pc = "row" /\ LegOf(w) \in Attributes
  /\ ~Head(job[w].facts).blank
  /\ zone5' = [zone5 EXCEPT ![LegOf(w)[2]] = job[w].rec.id]
  /\ EndLeg(w, Tail(job[w].legs), job[w].broken)
  /\ UNCHANGED <<clock, ledger, rows, faults, crashes>>

RowOf(r) == [id |-> r.id, item |-> r.item]

\* SqlSemanticRepository.insert_edge and insert_general_fact, which commit.
InsertRow(w) ==
  /\ job[w].pc = "row" /\ LegOf(w) \notin Attributes
  /\ rows' = rows \cup {RowOf(job[w].rec)}
  /\ EndLeg(w, Tail(job[w].legs), job[w].broken)
  /\ UNCHANGED <<clock, ledger, zone5, faults, crashes>>

(***************************************************************************)
(* Failures.                                                               *)
(***************************************************************************)
\* The edges of a fact are attempted one by one; a fact whose attribute or
\* general fact fails is rejected.
FailLeg(w) ==
  EndLeg(w, IF LegOf(w) \in Edges THEN Tail(job[w].legs) ELSE <<>>, TRUE)

\* Mutant: a record that could not be appended does not keep the row out.
FailedRecordIsIgnored(w) ==
  /\ job[w].pc \in {"look", "correct", "append"} /\ ~job[w].broken
  /\ faults < MaxFaults /\ faults' = faults + 1
  /\ Goto(w, "row")
  /\ UNCHANGED <<clock, ledger, rows, zone5, crashes>>

\* A statement raises, and with it every later one of the connection.
StatementFails(w) ==
  /\ \/ job[w].pc \in {"look", "correct", "append"}
     \/ job[w].pc = "row" /\ LegOf(w) \notin Attributes
  /\ ~job[w].broken
  /\ faults < MaxFaults /\ faults' = faults + 1
  /\ FailLeg(w)
  /\ UNCHANGED <<clock, ledger, rows, zone5, crashes>>

\* The same, but the commit has been carried out: its answer is lost.
AnswerLost(w) ==
  /\ \/ /\ job[w].pc = "correct"
        /\ Commit(job[w].correction) /\ UNCHANGED rows
     \/ /\ job[w].pc = "append"
        /\ Commit(job[w].rec) /\ UNCHANGED rows
     \/ /\ job[w].pc = "row" /\ LegOf(w) \notin Attributes
        /\ rows' = rows \cup {RowOf(job[w].rec)} /\ UNCHANGED ledger
  /\ faults < MaxFaults /\ faults' = faults + 1
  /\ FailLeg(w)
  /\ UNCHANGED <<clock, zone5, crashes>>

\* The connection is of no more use: the look-up of the leg fails.
LegFails(w) ==
  /\ job[w].pc = "look" /\ job[w].broken
  /\ FailLeg(w)
  /\ UNCHANGED <<clock, ledger, rows, zone5, faults, crashes>>

\* The requests are gone, and Zone 5 with them.
Crash ==
  /\ crashes < MaxCrashes
  /\ crashes' = crashes + 1
  /\ job' = [w \in Writers |-> Idle]
  /\ zone5' = [e \in Entities |-> None]
  /\ UNCHANGED <<clock, ledger, rows, faults>>

Step(w) == \/ Start(w) \/ EndFact(w)
           \/ Stamp(w) \/ NoConflict(w) \/ Conflict(w)
           \/ AppendCorrection(w) \/ AppendRecord(w)
           \/ RefuseBlank(w) \/ WriteAttribute(w) \/ InsertRow(w)
           \/ StatementFails(w) \/ AnswerLost(w) \/ LegFails(w)

Next == (\E w \in Writers : Step(w)) \/ Crash

Spec == Init /\ [][Next]_vars

-----------------------------------------------------------------------------
(***************************************************************************)
(* Properties                                                              *)
(***************************************************************************)
Records == [id : Ids, item : Items, prev : Nat, disputed : BOOLEAN,
            flags : Nat, at : Nat]
Jobs == [pc : {"idle", "stamp", "look", "correct", "append", "row"},
         facts : Seq(Facts), legs : Seq(Legs), rec : Records \cup {NoRecord},
         correction : Records \cup {NoRecord}, broken : BOOLEAN]

\* Types; a request that is at a leg has one, of a fact, with its record.
TypeOK ==
  /\ clock \in 0..MaxClock
  /\ ledger \subseteq Records
  /\ rows \subseteq [id : Ids, item : Items]
  /\ zone5 \in [Entities -> Nat]
  /\ job \in [Writers -> Jobs]
  /\ \A w \in Writers :
       /\ job[w].pc # "idle" => job[w].facts # <<>>
       /\ job[w].pc \in {"look", "correct", "append", "row"}
            => job[w].legs # <<>> /\ job[w].rec \in Records
       /\ job[w].pc = "correct" => job[w].correction \in Records
  /\ faults \in 0..MaxFaults /\ crashes \in 0..MaxCrashes

\* Nothing is stored without its provenance: the value an entity has and
\* every row of Zone 3 have, in the ledger, the record of the write they come
\* from, whatever failed on the way (conflict_aware_zone_writes.py:301-302,
\* 340-341 and 482-483 append the record before the row).
RowsHaveProvenance ==
  /\ \A row \in rows : \E r \in ledger : r.id = row.id /\ r.item = row.item
  /\ \A e \in Entities : zone5[e] # None =>
       \E r \in ledger : r.id = zone5[e] /\ r.item = <<"attribute", e>>

\* No unflagged contradiction between writes one after the other: a record
\* that is not disputed chains, with nothing of its item in between, from
\* what was in the ledger before the write began (conflict_detection_sweep.py:
\* 117-118; two first writers at a time are both let through, see README.md).
ContradictionsFlagged ==
  \A r, q \in ledger :
    r.item = q.item /\ ~r.disputed /\ q.at < r.id => q.id <= r.prev

\* A dispute has two sides: a write that is disputed stands in the ledger
\* beside a correction that names it and disputes another record of the item,
\* also when the process stops between the two appends
\* (conflict_detection_sweep.py:155 before 174).
BothSidesDisputed ==
  \A r \in ledger : r.disputed /\ r.flags = None =>
    \E c \in ledger : /\ c.flags = r.id /\ c.item = r.item
                      /\ \E q \in ledger : q.id = c.prev /\ q # r
                                           /\ q.item = r.item
=============================================================================
