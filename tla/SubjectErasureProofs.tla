------------------------- MODULE SubjectErasureProofs -------------------------
(***************************************************************************)
(* A completed job has erased what its subject had, for any subjects,      *)
(* items, adapters and number of requests and failures.  A request keeps   *)
(* no list of what it has to erase: the argument is that at each leg what  *)
(* is left of it belongs to a later leg, or is held by its own open        *)
(* transaction (Pending), and that other requests and writers only take    *)
(* things away or add what is not owed.                                    *)
(***************************************************************************)
EXTENDS SubjectErasure, TLAPS

\* Item i, owed by request c, may still be there.
Pending(c, i) ==
  \/ call[c].pc \in {"idle", "zone3"}
  \/ i \in call[c].held
  \/ call[c].pc \in {"zone5", "aliases", "mark", "destroy"} /\ KindOf[i] = "archived"
  \/ call[c].pc \in {"zone5", "aliases"} /\ KindOf[i] = "alias"
  \/ call[c].pc = "zone5" /\ KindOf[i] = "attribute"

OwedOf(c) == /\ owed[c] \subseteq written
             /\ call[c].pc # "idle" => owed[c] \subseteq ItemsOf(SubjectBy(c))
OwedIsPending(c) == \A i \in owed[c] \cap present : Pending(c, i)
JobDone(c) == /\ job[c] = "completed" => /\ call[c].pc \in {"idle", "report"}
                                         /\ owed[c] \cap present = {}
              /\ c \in succeeded \/ call[c].pc = "report" => job[c] = "completed"

CallInv(c) == OwedOf(c) /\ OwedIsPending(c) /\ JobDone(c)
IInv == TypeOK /\ \A c \in Calls : CallInv(c)

Records == [pc : Pcs, subject : Subjects, held : SUBSET Items]

LEMMA FreeType == Free \in Records /\ Free.pc = "idle" /\ Free.held = {}
  <1>1. (CHOOSE s \in Subjects : TRUE) \in Subjects
    BY ErasureAssumption
  <1> QED BY <1>1 DEF Free, Records, Pcs

LEMMA InitIInv == Init => IInv
  <1> SUFFICES ASSUME Init PROVE IInv
    OBVIOUS
  <1>1. TypeOK
    BY FreeType, ErasureAssumption DEF Init, TypeOK, Records
  <1>2. \A c \in Calls : CallInv(c)
    BY FreeType DEF Init, CallInv, OwedOf, OwedIsPending, JobDone
  <1> QED BY <1>1, <1>2 DEF IInv

\* A request that takes no step keeps its invariant when things are erased, or
\* are written for the first time.
LEMMA Bystander ==
  ASSUME IInv, NEW d \in Calls,
         present' \subseteq present \cup (Items \ written),
         written \subseteq written',
         UNCHANGED <<call[d], job[d], owed[d]>>,
         d \in succeeded' => d \in succeeded
  PROVE  CallInv(d)'
  <1>1. CallInv(d)
    BY DEF IInv
  <1>2. owed[d] \cap present' \subseteq owed[d] \cap present
    BY <1>1 DEF CallInv, OwedOf
  <1>3. OwedOf(d)'
    BY <1>1 DEF CallInv, OwedOf, SubjectBy
  <1>4. OwedIsPending(d)'
    BY <1>1, <1>2 DEF CallInv, OwedIsPending, Pending
  <1>5. JobDone(d)'
    BY <1>1, <1>2 DEF CallInv, JobDone
  <1> QED BY <1>3, <1>4, <1>5 DEF CallInv

\* A step of request c: it is enough to look at c.
LEMMA StepOf ==
  ASSUME IInv, NEW c \in Calls,
         \A d \in Calls \ {c} : UNCHANGED <<call[d], job[d], owed[d]>>,
         present' \subseteq present, UNCHANGED world,
         succeeded' \subseteq succeeded \cup {c},
         TypeOK', CallInv(c)'
  PROVE  IInv'
  <1> SUFFICES ASSUME NEW d \in Calls \ {c} PROVE CallInv(d)'
    BY DEF IInv
  <1>1. UNCHANGED <<call[d], job[d], owed[d]>> /\ (d \in succeeded' => d \in succeeded)
    OBVIOUS
  <1>2. present' \subseteq present \cup (Items \ written) /\ written \subseteq written'
    BY DEF world
  <1> QED BY <1>1, <1>2, Bystander

LEMMA WriteStep == ASSUME IInv, NEW i \in Items, Write(i) PROVE IInv'
  <1>1. PICK kind : Store(i, kind)
    BY DEF Write, InsertEdge, WriteAttribute, WriteAttributeRow, RegisterAlias,
           ArchiveItem
  <1>2. TypeOK'
    BY <1>1 DEF IInv, TypeOK, Store
  <1>3. ASSUME NEW d \in Calls PROVE CallInv(d)'
    <2>1. /\ UNCHANGED <<call[d], job[d], owed[d]>>
          /\ written \subseteq written' /\ succeeded' = succeeded
          /\ present' \subseteq present \cup (Items \ written)
      BY <1>1 DEF Store
    <2> QED BY <2>1, Bystander
  <1> QED BY <1>2, <1>3 DEF IInv

LEMMA AcceptStep == ASSUME IInv, NEW c \in Calls, NEW s \in Subjects, Accept(c, s)
                    PROVE  IInv'
  <1> USE DEF IInv, TypeOK
  <1>1. TypeOK'
    BY FreeType DEF Accept, world, Records, Pcs, ItemsOf
  <1>2. /\ call'[c] = [Free EXCEPT !.pc = "zone3", !.subject = s]
        /\ job'[c] = "accepted" /\ c \notin succeeded'
        /\ owed'[c] = ItemsOf(s) \cap present
        /\ present' = present /\ written' = written
    BY DEF Accept, world
  <1>3. call'[c].pc = "zone3" /\ call'[c].subject = s
    BY <1>2, FreeType DEF Records
  <1>4. CallInv(c)'
    BY <1>2, <1>3 DEF CallInv, OwedOf, OwedIsPending, Pending, JobDone, SubjectBy
  <1>5. \A d \in Calls \ {c} : UNCHANGED <<call[d], job[d], owed[d]>>
    BY DEF Accept
  <1>6. present' \subseteq present /\ succeeded' \subseteq succeeded \cup {c}
        /\ UNCHANGED world
    BY DEF Accept
  <1> QED BY <1>1, <1>4, <1>5, <1>6, StepOf

\* A request that goes on owes what it owed; only what is pending is proved
\* step by step.
LEMMA GoesOn ==
  ASSUME IInv, NEW c \in Calls, NEW pc \in Pcs \ {"idle"}, NEW held \in SUBSET Items,
         call[c].pc \notin {"idle", "report"},
         call' = [call EXCEPT ![c] = [@ EXCEPT !.pc = pc, !.held = held]],
         held # {} => pc \in {"zone5", "mark"},
         present' \subseteq present,
         UNCHANGED <<world, succeeded, owed, wanted, faults>>,
         OwedIsPending(c)',
         \/ UNCHANGED job /\ pc # "report"
         \/ /\ job' = [job EXCEPT ![c] = "completed"]
            /\ pc = "report"
            /\ owed[c] \cap present = {}
  PROVE  IInv'
  <1>1. call[c] \in Records /\ call \in [Calls -> Records]
    BY DEF IInv, TypeOK, Records
  <1>2. /\ call'[c] = [call[c] EXCEPT !.pc = pc, !.held = held]
        /\ call'[c] \in Records /\ call'[c].pc = pc /\ call'[c].held = held
        /\ call'[c].subject = call[c].subject
        /\ \A d \in Calls \ {c} : call'[d] = call[d]
    BY <1>1 DEF Records
  <1>3. call' \in [Calls -> Records]
    BY <1>1, <1>2
  <1>4. \A d \in Calls : call'[d].held # {} => call'[d].pc \in {"zone5", "mark"}
    BY <1>2 DEF IInv, TypeOK
  <1>5. TypeOK'
    BY <1>3, <1>4 DEF IInv, TypeOK, Records, world
  <1>6. CallInv(c) /\ job \in [Calls -> {"none", "accepted", "completed", "failed"}]
    BY DEF IInv, TypeOK
  <1>7. OwedOf(c)'
    BY <1>2, <1>6 DEF CallInv, OwedOf, SubjectBy, world
  <1>8. JobDone(c)'
    BY <1>2, <1>6 DEF CallInv, JobDone
  <1>9. \A d \in Calls \ {c} : UNCHANGED <<call[d], job[d], owed[d]>>
    BY <1>2, <1>6
  <1> QED BY <1>5, <1>7, <1>8, <1>9, StepOf DEF CallInv

LEMMA CallType == ASSUME IInv, NEW c \in Calls
                  PROVE  /\ call \in [Calls -> Records] /\ call[c] \in Records
                         /\ OwedIsPending(c) /\ OwedOf(c)
                         /\ call[c].pc # "idle" =>
                              \A i \in owed[c] : i \in ItemsOf(SubjectBy(c))
  BY DEF IInv, TypeOK, Records, CallInv, OwedOf

\* Moving on without touching the transaction.
LEMMA GotoIs ==
  ASSUME IInv, NEW c \in Calls, NEW pc, Goto(c, pc)
  PROVE  call' = [call EXCEPT ![c] = [@ EXCEPT !.pc = pc, !.held = call[c].held]]
  BY CallType DEF Goto, Records

LEMMA DeleteEdgesStep == ASSUME IInv, NEW c \in Calls, DeleteEdges(c) PROVE IInv'
  <1> DEFINE h == EdgesOf(SubjectBy(c))
  <1>1. call' = [call EXCEPT ![c] = [@ EXCEPT !.pc = "zone5", !.held = h]]
    BY CallType DEF DeleteEdges, Records
  <1>2. h \in SUBSET Items /\ call'[c].pc = "zone5" /\ call'[c].held = h
        /\ call[c].pc = "zone3"
    BY <1>1, CallType DEF EdgesOf, OfKind, ItemsOf, Records, DeleteEdges, At
  <1>3. \A i \in owed[c] \cap present : KindOf[i] = "edge" => i \in h
    BY <1>2, CallType DEF EdgesOf, OfKind
  <1>4. \A i \in owed[c] \cap present : KindOf[i] \in Kinds
    BY <1>2, CallType, ErasureAssumption DEF ItemsOf
  <1>5. OwedIsPending(c)'
    BY <1>2, <1>3, <1>4 DEF OwedIsPending, Pending, Kinds, DeleteEdges
  <1> HIDE DEF h
  <1> QED BY <1>1, <1>2, <1>5, GoesOn DEF DeleteEdges, Pcs

LEMMA EraseEntityStep == ASSUME IInv, NEW c \in Calls, EraseEntity(c) PROVE IInv'
  <1>1. /\ call' = [call EXCEPT ![c] = [@ EXCEPT !.pc = "mark", !.held = call[c].held]]
        /\ call[c].pc = "zone5"
    BY GotoIs DEF EraseEntity, At
  <1>2. call'[c].pc = "mark" /\ call'[c].held = call[c].held /\ call[c].held \in SUBSET Items
    BY <1>1, CallType DEF Records
  <1>3. \A i \in owed[c] \cap present' : KindOf[i] \notin Zone5
    BY <1>1, CallType DEF EraseEntity, OfKind
  <1>4. present' \subseteq present
    BY DEF EraseEntity
  <1>5. OwedIsPending(c)'
    BY <1>1, <1>2, <1>3, <1>4, CallType DEF OwedIsPending, Pending, Zone5, EraseEntity
  <1> QED BY <1>1, <1>2, <1>4, <1>5, GoesOn DEF EraseEntity, Pcs

\* A commit makes the deletes it held and its own permanent.
LEMMA CommitStep ==
  ASSUME IInv, NEW c \in Calls, CommitStatement(c)
  PROVE  IInv'
  <1>1. /\ call' = [call EXCEPT ![c].pc = After(call[c].pc), ![c].held = {}]
        /\ Committing(c) /\ present' = Committed(c)
    BY DEF CommitStatement, Release
  <1>2. PICK pc \in Pcs \ {"idle", "report"} : pc = After(call[c].pc)
    BY <1>1 DEF Committing, At, After, Pcs
  <1>3. /\ call' = [call EXCEPT ![c] = [@ EXCEPT !.pc = pc, !.held = {}]]
        /\ call[c].pc \notin {"idle", "report"}
        /\ call'[c].pc = pc /\ call'[c].held = {}
    BY <1>1, <1>2, CallType DEF Records, Committing, At
  <1>4. present' \subseteq present /\ \A i \in present' : i \notin call[c].held
    BY <1>1 DEF Committed
  <1>5. \A i \in owed[c] \cap present' :
          /\ call[c].pc = "zone5" => KindOf[i] # "attribute"
          /\ call[c].pc = "aliases" => KindOf[i] # "alias"
    BY <1>1, <1>3, CallType DEF Committed, OfKind, At
  <1>6. OwedIsPending(c)'
    BY <1>1, <1>2, <1>3, <1>4, <1>5, CallType
       DEF OwedIsPending, Pending, Committing, At, After, CommitStatement
  <1>7. UNCHANGED <<world, succeeded, owed, wanted, faults, job>>
    BY DEF CommitStatement
  <1> QED BY <1>2, <1>3, <1>4, <1>6, <1>7, GoesOn

LEMMA DestroyStep == ASSUME IInv, NEW c \in Calls, DestroyKey(c) PROVE IInv'
  <1>1. /\ call' = [call EXCEPT ![c] = [@ EXCEPT !.pc = "finalize", !.held = call[c].held]]
        /\ call[c].pc = "destroy" /\ call[c].held = {}
    BY GotoIs DEF DestroyKey, At, IInv, TypeOK
  <1>2. call'[c].pc = "finalize" /\ call'[c].held = {} /\ call[c].held \in SUBSET Items
    BY <1>1, CallType DEF Records
  <1>3. present' \subseteq present
    BY DEF DestroyKey
  <1>4. \A i \in owed[c] \cap present' : KindOf[i] # "archived"
    BY <1>1, CallType DEF DestroyKey, OfKind
  <1>5. OwedIsPending(c)'
    BY <1>1, <1>2, <1>3, <1>4, CallType DEF OwedIsPending, Pending, DestroyKey
  <1> QED BY <1>1, <1>2, <1>3, <1>5, GoesOn DEF DestroyKey, Pcs

LEMMA CompleteStep == ASSUME IInv, NEW c \in Calls, Complete(c) PROVE IInv'
  <1>1. /\ call' = [call EXCEPT ![c] = [@ EXCEPT !.pc = "report", !.held = call[c].held]]
        /\ call[c].pc = "complete" /\ call[c].held = {}
    BY GotoIs DEF Complete, At, IInv, TypeOK
  <1>2. call'[c].pc = "report" /\ call[c].held \in SUBSET Items
    BY <1>1, CallType DEF Records
  <1>3. owed[c] \cap present = {}
    BY <1>1, CallType DEF OwedIsPending, Pending
  <1>4. OwedIsPending(c)'
    BY <1>3 DEF OwedIsPending, Complete
  <1> QED BY <1>1, <1>2, <1>3, <1>4, GoesOn DEF Complete, Pcs

LEMMA ReportStep == ASSUME IInv, NEW c \in Calls, Report(c) PROVE IInv'
  <1>1. /\ call[c].pc = "report" /\ call'[c] = Free
        /\ \A d \in Calls \ {c} : call'[d] = call[d]
        /\ call' \in [Calls -> Records]
    BY CallType, FreeType DEF Report, At
  <1>2. TypeOK'
    BY <1>1, FreeType DEF IInv, TypeOK, Report, Records, world
  <1>3. OwedIsPending(c) /\ OwedOf(c) /\ JobDone(c)
    BY DEF IInv, CallInv
  <1>4. OwedOf(c)' /\ OwedIsPending(c)'
    BY <1>1, <1>3, FreeType DEF OwedOf, OwedIsPending, Pending, Report, world
  <1>5. JobDone(c)' /\ UNCHANGED world /\ succeeded' \subseteq succeeded \cup {c}
        /\ present' \subseteq present
        /\ \A d \in Calls \ {c} : UNCHANGED <<call[d], job[d], owed[d]>>
    BY <1>1, <1>3, FreeType DEF JobDone, Report
  <1> QED BY <1>2, <1>4, <1>5, StepOf DEF CallInv

\* A request that fails owes nothing, and its transaction is rolled back.
LEMMA EndStep ==
  ASSUME IInv, NEW c \in Calls, EndFailed(c), Fault,
         call[c].pc \notin {"idle", "report"}, present' \subseteq present,
         UNCHANGED <<world, succeeded, wanted>>
  PROVE  IInv'
  <1>1. /\ call'[c] = Free /\ call' \in [Calls -> Records]
        /\ owed'[c] = {} /\ job'[c] = "failed"
        /\ \A d \in Calls \ {c} : UNCHANGED <<call[d], job[d], owed[d]>>
    BY CallType, FreeType DEF EndFailed, IInv, TypeOK
  <1>2. TypeOK'
    BY <1>1, FreeType, ErasureAssumption
       DEF IInv, TypeOK, EndFailed, Records, Fault, world
  <1>3. c \notin succeeded'
    BY DEF IInv, CallInv, JobDone
  <1>4. CallInv(c)'
    BY <1>1, <1>3, FreeType DEF CallInv, OwedOf, OwedIsPending, JobDone
  <1> QED BY <1>1, <1>2, <1>4, StepOf

LEMMA FailStep == ASSUME IInv, NEW c \in Calls, LegFails(c) \/ AnswerLost(c)
                  PROVE  IInv'
  <1>1. call[c].pc \notin {"idle", "report"}
    BY DEF LegFails, AnswerLost, Committing, At
  <1>2. present' \subseteq present
    BY DEF LegFails, AnswerLost, Committed
  <1> QED BY <1>1, <1>2, EndStep DEF LegFails, AnswerLost

LEMMA CrashStep == ASSUME IInv, Crash PROVE IInv'
  <1>1. present' \subseteq present /\ call' = [c \in Calls |-> Free]
        /\ owed' = [c \in Calls |-> {}] /\ succeeded' = {}
        /\ job' = [c \in Calls |-> "none"]
    BY DEF Crash
  <1>2. TypeOK'
    BY <1>1, FreeType, ErasureAssumption
       DEF IInv, TypeOK, Crash, Fault, Records, world
  <1>3. \A c \in Calls : CallInv(c)'
    BY <1>1, FreeType DEF CallInv, OwedOf, OwedIsPending, JobDone
  <1> QED BY <1>2, <1>3 DEF IInv

\* The invariant does not change when nothing it is about does.
LEMMA StutterStep == IInv /\ UNCHANGED vars => IInv'
  BY DEF IInv, TypeOK, CallInv, OwedOf, OwedIsPending, Pending, JobDone, SubjectBy,
         vars, world

LEMMA StepIInv == IInv /\ [Next]_vars => IInv'
  <1> SUFFICES ASSUME IInv, [Next]_vars PROVE IInv'
    OBVIOUS
  <1>1. CASE \E i \in Items : Write(i)
    BY <1>1, WriteStep
  <1>2. CASE \E c \in Calls : \E s \in Subjects : Accept(c, s)
    BY <1>2, AcceptStep
  <1>3. ASSUME NEW c \in Calls, Leg(c) PROVE IInv'
    BY <1>3, DeleteEdgesStep, EraseEntityStep, CommitStep, DestroyStep,
       CompleteStep, ReportStep DEF Leg
  <1>4. CASE \E c \in Calls : LegFails(c) \/ AnswerLost(c)
    BY <1>4, FailStep
  <1>5. CASE Crash
    BY <1>5, CrashStep
  <1>6. CASE UNCHANGED vars
    BY <1>6, StutterStep
  <1> QED BY <1>1, <1>2, <1>3, <1>4, <1>5, <1>6 DEF Next

LEMMA Inductive == Spec => []IInv
  BY InitIInv, StepIInv, PTL DEF Spec

\* The state of the erasure is well formed for any subjects, items and number
\* of requests, and only between the delete of Zone 3 and the next commit does
\* a request of UnifiedSubjectErasureOrchestrator keep rows locked.
THEOREM ErasureTypeCorrect == Spec => []TypeOK
  <1>1. IInv => TypeOK
    BY DEF IInv
  <1> QED BY <1>1, Inductive, PTL

\* A COMPLETED job, and the "succeeded" admin job of its handler, mean that
\* nothing the subject had when the request was accepted can be found in the
\* zones with a leg, for any number of overlapping requests that fail, lose
\* their answers or die.
THEOREM CompletedErasuresAreDone == Spec => []CompletedMeansErased
  <1>1. IInv => CompletedMeansErased
    BY DEF IInv, CallInv, JobDone, CompletedMeansErased
  <1> QED BY <1>1, Inductive, PTL
=============================================================================
