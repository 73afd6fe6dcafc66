---------------------------- MODULE SubjectErasure ----------------------------
(***************************************************************************)
(* The erasure of a data subject across the zones, as eraseSubject wires   *)
(* it: UnifiedSubjectErasureOrchestrator on one pooled connection.  The    *)
(* legs run in order.  Zone 1 has none and the one of Zones 2 and 6 looks  *)
(* up the subject's items but is given no cascade (CapacityBackstop models *)
(* the cascade).  Zone 3 deletes the subject's edges and does not commit.  *)
(* Zone 5 erases attributes and aliases: in Shape A they are dictionaries  *)
(* under the tenant's lock, in Shape B tables on the same connection.      *)
(* Zone 8 appends its marker, destroys the subject's key and finalizes     *)
(* (step by step in Zone8Erasure).                                         *)
(*                                                                         *)
(* Requests overlap and are repeated, also for one subject: a client whose *)
(* call failed, or who has had no answer yet, calls again.  Rows that a    *)
(* transaction has deleted are locked until it commits or is rolled back.  *)
(* A connection goes back to the pool with a commit, which rolls a failed  *)
(* transaction back.                                                       *)
(* Left out: tenants, and the 503 when there is no Postgres.               *)
(***************************************************************************)
EXTENDS Naturals, FiniteSets

CONSTANTS Subjects,
          Items,      \* edges, attributes, aliases, archived items
          SubjectOf,  \* the subject of each: an edge's subject_ref, the entity
          KindOf,
          Shapes,     \* the Zone 5 adapters to consider
          Calls,      \* erasure requests being served at a time
          MaxFaults   \* bound: failing statements and key store calls, and
                      \* process crashes

Kinds == {"edge", "attribute", "alias", "archived"}

ASSUME ErasureAssumption == /\ Subjects # {}
                            /\ SubjectOf \in [Items -> Subjects]
                            /\ KindOf \in [Items -> Kinds]
                            /\ Shapes \subseteq {"A", "B"}
                            /\ MaxFaults \in Nat

VARIABLES shape,      \* the Zone 5 adapter of this deployment
          present,    \* items a reader finds: committed, stored, readable
          written,    \* history: items written so far
          job,        \* unified_erasure_job_store: the latest job of call c
          succeeded,  \* admin_job_store: the calls whose job is "succeeded"
          call,       \* call[c]: where it is
          owed,       \* history: what was present when c was accepted
          wanted,     \* history: subjects whose client has asked for their
                      \* erasure and has had no success since
          faults

world == <<shape, written>>
vars == <<world, present, job, succeeded, call, owed, wanted, faults>>

ItemsOf(s) == {i \in Items : SubjectOf[i] = s}
OfKind(s, kinds) == {i \in ItemsOf(s) : KindOf[i] \in kinds}
Zone5 == {"attribute", "alias"}

\* A step per leg; Shape B and Zone 8 have several.
Pcs == {"idle", "zone3", "zone5", "aliases", "mark", "destroy",
        "finalize", "complete", "report"}
\* held: the edges deleted by the open transaction of the connection.
Free == [pc |-> "idle", subject |-> CHOOSE s \in Subjects : TRUE, held |-> {}]

Init == /\ shape \in Shapes
        /\ present = {} /\ written = {}
        /\ job = [c \in Calls |-> "none"]
        /\ succeeded = {}
        /\ call = [c \in Calls |-> Free]
        /\ owed = [c \in Calls |-> {}]
        /\ wanted = {}
        /\ faults = 0

At(c, pc) == call[c].pc = pc
SubjectBy(c) == call[c].subject
Goto(c, pc) == call' = [call EXCEPT ![c].pc = pc]
\* The transaction is over: it was committed, or rolled back.
Release(c, pc) == call' = [call EXCEPT ![c].pc = pc, ![c].held = {}]

-----------------------------------------------------------------------------
(***************************************************************************)
(* Writers.  Each commits, or holds its lock, for its own item.            *)
(***************************************************************************)
Store(i, kind) ==
  /\ i \notin written /\ KindOf[i] = kind
  /\ written' = written \cup {i}
  /\ present' = present \cup {i}
  /\ UNCHANGED <<shape, job, succeeded, call, owed, wanted, faults>>

InsertEdge(i) == Store(i, "edge")
WriteAttribute(i) == shape = "A" /\ Store(i, "attribute")
WriteAttributeRow(i) == shape = "B" /\ Store(i, "attribute")
RegisterAlias(i) == Store(i, "alias")
ArchiveItem(i) == Store(i, "archived")

Write(i) == \/ InsertEdge(i) \/ WriteAttribute(i) \/ WriteAttributeRow(i)
            \/ RegisterAlias(i) \/ ArchiveItem(i)

-----------------------------------------------------------------------------
(***************************************************************************)
(* request_erasure.                                                        *)
(***************************************************************************)
\* Mutant: a subject whose erasure was asked for is not taken again.
AcceptOnce(c, s) ==
  /\ At(c, "idle")
  /\ s \notin wanted
  /\ call' = [call EXCEPT ![c] = [Free EXCEPT !.pc = "zone3", !.subject = s]]
  /\ job' = [job EXCEPT ![c] = "accepted"]
  /\ succeeded' = succeeded \ {c}
  /\ owed' = [owed EXCEPT ![c] = ItemsOf(s) \cap present]
  /\ wanted' = wanted \cup {s}
  /\ UNCHANGED <<world, present, faults>>

\* At any time: also while another request for s runs, or after a success.
Accept(c, s) ==
  /\ At(c, "idle")
  /\ call' = [call EXCEPT ![c] = [Free EXCEPT !.pc = "zone3", !.subject = s]]
  /\ job' = [job EXCEPT ![c] = "accepted"]
  /\ succeeded' = succeeded \ {c}
  /\ owed' = [owed EXCEPT ![c] = ItemsOf(s) \cap present]
  /\ wanted' = wanted \cup {s}
  /\ UNCHANGED <<world, present, faults>>

EdgesOf(s) == OfKind(s, {"edge"}) \cap present

\* Mutant: rows another transaction has deleted are passed over.
DeleteEdgesSkipLocked(c) ==
  /\ At(c, "zone3")
  /\ call' = [call EXCEPT ![c].pc = "zone5",
                ![c].held = EdgesOf(SubjectBy(c))
                              \ UNION {call[d].held : d \in Calls}]
  /\ UNCHANGED <<world, present, job, succeeded, owed, wanted, faults>>

\* items_for_subject, whose answer is dropped since there is no cascade, and
\* delete_edges_by_subject: it waits for the rows another transaction has
\* deleted; its own stay deleted only if the transaction commits.
DeleteEdges(c) ==
  /\ At(c, "zone3")
  /\ \A d \in Calls \ {c} : call[d].held \cap EdgesOf(SubjectBy(c)) = {}
  /\ call' = [call EXCEPT ![c].pc = "zone5",
                          ![c].held = EdgesOf(SubjectBy(c))]
  /\ UNCHANGED <<world, present, job, succeeded, owed, wanted, faults>>

\* EntityMemoryRepository.erase_entity.
EraseEntity(c) ==
  /\ At(c, "zone5") /\ shape = "A"
  /\ present' = present \ OfKind(SubjectBy(c), Zone5)
  /\ Goto(c, "mark")
  /\ UNCHANGED <<world, job, succeeded, owed, wanted, faults>>

\* What the statement of c's connection leaves when it is committed: the
\* deletes the transaction held back, and its own.
Committed(c) ==
  present \ (call[c].held
             \cup CASE At(c, "zone5") -> OfKind(SubjectBy(c), {"attribute"})
                    [] At(c, "aliases") -> OfKind(SubjectBy(c), {"alias"})
                    [] OTHER -> {})

\* The statements that commit, in order: the two of SqlEntityMemory-
\* Repository.erase_entity, the Zone 8 marker, and, as one, the three that
\* follow the destruction of the key.
Committing(c) == \/ At(c, "zone5") /\ shape = "B"
                 \/ call[c].pc \in {"aliases", "mark", "finalize"}

After(pc) == CASE pc = "zone5" -> "aliases" [] pc = "aliases" -> "mark"
               [] pc = "mark" -> "destroy" [] pc = "finalize" -> "complete"

CommitStatement(c) ==
  /\ Committing(c)
  /\ present' = Committed(c)
  /\ Release(c, After(call[c].pc))
  /\ UNCHANGED <<world, job, succeeded, owed, wanted, faults>>

DestroyKey(c) ==
  /\ At(c, "destroy")
  /\ present' = present \ OfKind(SubjectBy(c), {"archived"})
  /\ Goto(c, "finalize")
  /\ UNCHANGED <<world, job, succeeded, owed, wanted, faults>>

\* The job is saved as COMPLETED ...
Complete(c) ==
  /\ At(c, "complete")
  /\ job' = [job EXCEPT ![c] = "completed"]
  /\ Goto(c, "report")
  /\ UNCHANGED <<world, present, succeeded, owed, wanted, faults>>

\* ... and the handler records the admin job and answers 202.
Report(c) ==
  /\ At(c, "report")
  /\ succeeded' = succeeded \cup {c}
  /\ wanted' = wanted \ {SubjectBy(c)}
  /\ call' = [call EXCEPT ![c] = Free]
  /\ UNCHANGED <<world, present, job, owed, faults>>

-----------------------------------------------------------------------------
(***************************************************************************)
(* Failures.                                                               *)
(***************************************************************************)
Fault == faults < MaxFaults /\ faults' = faults + 1

\* Mutant: the connection of a failed request stays as it is.
EndFailedHolding(c) ==
  /\ job' = [job EXCEPT ![c] = "failed"]
  /\ owed' = [owed EXCEPT ![c] = {}]
  /\ Goto(c, "idle")

\* request_erasure saves FAILED and raises, the transaction is rolled back.
EndFailed(c) ==
  /\ job' = [job EXCEPT ![c] = "failed"]
  /\ owed' = [owed EXCEPT ![c] = {}]
  /\ call' = [call EXCEPT ![c] = Free]

\* A statement or a call of the key store fails: it has done nothing ...
LegFails(c) ==
  /\ Fault
  /\ Committing(c) \/ call[c].pc \in {"zone3", "destroy"}
  /\ EndFailed(c)
  /\ UNCHANGED <<world, present, succeeded, wanted>>

\* ... or it is committed, and the answer is lost.
AnswerLost(c) ==
  /\ Fault
  /\ Committing(c)
  /\ present' = Committed(c)
  /\ EndFailed(c)
  /\ UNCHANGED <<world, succeeded, wanted>>

\* Jobs, keys and the Zone 5 of Shape A are in memory; clients remember.
Crash ==
  /\ Fault
  /\ job' = [c \in Calls |-> "none"]
  /\ succeeded' = {}
  /\ call' = [c \in Calls |-> Free]
  /\ owed' = [c \in Calls |-> {}]
  /\ present' = {i \in present :
                   KindOf[i] \in IF shape = "A" THEN {"edge"}
                                 ELSE {"edge", "attribute", "alias"}}
  /\ UNCHANGED <<world, wanted>>

Leg(c) == \/ DeleteEdges(c) \/ EraseEntity(c) \/ CommitStatement(c)
          \/ DestroyKey(c) \/ Complete(c) \/ Report(c)

Next == \/ \E i \in Items : Write(i)
        \/ \E c \in Calls : \/ \E s \in Subjects : Accept(c, s)
                            \/ Leg(c) \/ LegFails(c) \/ AnswerLost(c)
        \/ Crash

Spec == Init /\ [][Next]_vars

\* A request that runs goes on, a DELETE gets its locks in turn, and a client
\* who has had no success calls again.
CallAgain(s) == s \in wanted /\ \E c \in Calls : Accept(c, s)

Fairness == /\ \A c \in Calls : WF_vars(Leg(c))
            /\ \A s \in Subjects : WF_vars(CallAgain(s))

FairSpec == Spec /\ Fairness

-----------------------------------------------------------------------------
\* The state is well formed, and only between the delete of Zone 3 and the
\* next commit does a request keep rows locked.
TypeOK ==
  /\ shape \in {"A", "B"}
  /\ present \subseteq written /\ written \subseteq Items
  /\ job \in [Calls -> {"none", "accepted", "completed", "failed"}]
  /\ succeeded \subseteq Calls
  /\ call \in [Calls -> [pc : Pcs, subject : Subjects, held : SUBSET Items]]
  /\ \A c \in Calls : call[c].held # {} => call[c].pc \in {"zone5", "mark"}
  /\ owed \in [Calls -> SUBSET Items]
  /\ wanted \subseteq Subjects
  /\ faults \in 0..MaxFaults

\* A job is COMPLETED, and its admin job "succeeded", only when nothing the
\* subject had when the request was accepted can be found any more in the
\* zones with a leg: whatever another request for the same subject, which may
\* still fail and have its deletes rolled back, had deleted meanwhile.
CompletedMeansErased ==
  \A c \in Calls : /\ job[c] = "completed" => owed[c] \cap present = {}
                   /\ c \in succeeded => job[c] = "completed"

\* An erasure a client keeps asking for is done in the end, whatever its
\* earlier requests left behind when they failed or died.
AskedIsErased == \A s \in Subjects : s \in wanted ~> s \notin wanted
=============================================================================
