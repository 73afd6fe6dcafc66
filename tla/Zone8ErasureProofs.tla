------------------------- MODULE Zone8ErasureProofs -------------------------
(***************************************************************************)
(* Proofs about Zone8Erasure, for every value of its constants: any number *)
(* of subjects, jobs, archives, crashes and faults, volatile or durable    *)
(* stores, sweeps that overlap live erasures or not.                       *)
(***************************************************************************)
EXTENDS Zone8Erasure, TLAPS

\* Where a job is past its marker, and past its destroy_key.
Marked == {"destroy", "confirm", "finalize", "close", "done"}
Destroyed == {"confirm", "finalize", "close", "done"}

\* The jobs whose snapshot the running sweep still uses.
Handled(j) == j \in sweep.todo \/ (j = Cur /\ sweep.pc \notin {"idle", "next"})

\* A key never outruns the counter, and a marker covers only minted keys: the
\* next key minted is above every marker of its subject.
KeysMinted ==
    /\ \A s \in Subjects : keyOf[s] <= minted[s]
    /\ \A j \in Jobs : covers[j] <= minted[marker[j].subject]

\* A job that has not appended its marker has none, and no record.
FreshJobs ==
    \A j \in Jobs : job[j].pc \in {"idle", "mark"} => marker[j].status = "none" /\ j \notin prov

MarkedJobs ==
    \A j \in Jobs : job[j].pc \in Marked =>
        marker[j].status # "none" /\ marker[j].subject = job[j].subject

DestroyedJobs == \A j \in Jobs : job[j].pc \in Destroyed => Shredded(j)

\* The snapshot is stale in its status only; a confirmation in it stays true.
SnapshotHolds ==
    \A j \in Jobs : Handled(j) =>
        /\ marker[j].status # "none"
        /\ sweep.seen[j].subject = marker[j].subject
        /\ sweep.seen[j].status = "destroy_confirmed" => Shredded(j)

CurNotInTodo == sweep.pc \notin {"idle", "next"} => Cur \notin sweep.todo

SweepConfirmed == sweep.pc \in {"confirm", "finalize", "close"} => Shredded(Cur)

IInv ==
    /\ TypeOK /\ KeysMinted /\ FreshJobs /\ MarkedJobs /\ DestroyedJobs
    /\ SnapshotHolds /\ CurNotInTodo /\ SweepConfirmed /\ ClosedMeansShredded

-----------------------------------------------------------------------------
\* The place holders of the initial state are well formed.
LEMMA PlaceHolders ==
    /\ AnySubject \in Subjects /\ AnyItem \in Items /\ AnyJob \in Jobs
    /\ NoMarker \in Marker
    /\ NoSweep \in Sweep
BY ConstantsAssumption
   DEF AnySubject, AnyItem, AnyJob, NoMarker, NoSweep, Marker, MarkerStatus, Sweep, SweepPc

\* The initial state satisfies the invariant.
LEMMA InitInv == Init => IInv
<1> SUFFICES ASSUME Init PROVE IInv
  OBVIOUS
<1>1. TypeOK
  BY PlaceHolders, ConstantsAssumption
     DEF Init, TypeOK, NoKey, Job, Call, JobPc, CallPc, MarkerStatus
<1>2. KeysMinted
  BY PlaceHolders DEF Init, KeysMinted, NoMarker
<1>3. FreshJobs /\ MarkedJobs /\ DestroyedJobs
  BY PlaceHolders DEF Init, FreshJobs, MarkedJobs, DestroyedJobs, Marked, Destroyed, NoMarker
<1>4. SnapshotHolds /\ CurNotInTodo /\ SweepConfirmed
  BY PlaceHolders DEF Init, SnapshotHolds, Handled, CurNotInTodo, Cur, NoSweep, SweepConfirmed
<1>5. ClosedMeansShredded
  BY PlaceHolders DEF Init, ClosedMeansShredded, NoMarker
<1> QED
  BY <1>1, <1>2, <1>3, <1>4, <1>5 DEF IInv

-----------------------------------------------------------------------------
(* What the updates of one field of a record in a function do. *)

LEMMA JobGoesTo ==
    ASSUME TypeOK, NEW j \in Jobs, NEW p \in JobPc, JobGoes(j, p)
    PROVE  /\ job' \in [Jobs -> Job]
           /\ \A k \in Jobs : /\ job'[k].subject = job[k].subject
                              /\ job'[k].items = job[k].items
                              /\ job'[k].pc = IF k = j THEN p ELSE job[k].pc
<1> DEFINE r == [job[j] EXCEPT !.pc = p]
<1>1. job[j] \in Job /\ job \in [Jobs -> Job]
  BY DEF TypeOK
<1>2. r \in Job /\ r.subject = job[j].subject /\ r.items = job[j].items /\ r.pc = p
  BY <1>1 DEF Job
<1>3. job' = [job EXCEPT ![j] = r]
  BY DEF JobGoes
<1> HIDE DEF r
<1> QED
  BY <1>1, <1>2, <1>3

\* So does an archive call.
LEMMA CallGoesTo ==
    ASSUME TypeOK, NEW c \in Calls, NEW p \in CallPc, CallGoes(c, p)
    PROVE  /\ call' \in [Calls -> Call]
           /\ \A d \in Calls : /\ call'[d].gen = call[d].gen
                               /\ call'[d].pc = IF d = c THEN p ELSE call[d].pc
<1> DEFINE r == [call[c] EXCEPT !.pc = p]
<1>1. call[c] \in Call /\ call \in [Calls -> Call]
  BY DEF TypeOK
<1>2. r \in Call /\ r.gen = call[c].gen /\ r.pc = p
  BY <1>1 DEF Call
<1>3. call' = [call EXCEPT ![c] = r]
  BY DEF CallGoes
<1> HIDE DEF r
<1> QED
  BY <1>1, <1>2, <1>3

\* The upsert of a marker changes its status and retry count only.
LEMMA Upserted ==
    ASSUME TypeOK, NEW j \in Jobs, NEW st \in MarkerStatus, NEW n \in 0..MaxRetries,
           Upsert(j, st, n)
    PROVE  /\ marker' \in [Jobs -> Marker]
           /\ \A k \in Jobs : /\ marker'[k].subject = marker[k].subject
                              /\ marker'[k].status = IF k = j THEN st ELSE marker[k].status
<1> DEFINE r == [marker[j] EXCEPT !.status = st, !.retry = n]
<1>1. marker[j] \in Marker /\ marker \in [Jobs -> Marker]
  BY DEF TypeOK
<1>2. r \in Marker /\ r.subject = marker[j].subject /\ r.status = st
  BY <1>1 DEF Marker
<1>3. marker' = [marker EXCEPT ![j] = r]
  BY <1>1 DEF Upsert, Marker
<1> HIDE DEF r
<1> QED
  BY <1>1, <1>2, <1>3

\* The sweep moves on and keeps the markers it has read.
LEMMA SweepGoesTo ==
    ASSUME TypeOK, NEW p \in SweepPc, SweepGoes(p)
    PROVE  /\ sweep' \in Sweep
           /\ sweep'.pc = p /\ sweep'.cur = sweep.cur
           /\ sweep'.todo = sweep.todo /\ sweep'.seen = sweep.seen
BY DEF TypeOK, Sweep, SweepGoes

\* The marker just handled leaves the loop with its snapshot.
LEMMA SweepResumed ==
    ASSUME TypeOK, SweepResumes
    PROVE  /\ sweep' \in Sweep
           /\ sweep'.pc = "next" /\ sweep'.todo = sweep.todo
           /\ \A k \in Jobs \ {Cur} : sweep'.seen[k] = sweep.seen[k]
<1> DEFINE f == [sweep.seen EXCEPT ![Cur] = NoMarker]
<1>1. sweep \in Sweep
  BY DEF TypeOK
<1>2. f \in [Jobs -> Marker] /\ \A k \in Jobs \ {Cur} : f[k] = sweep.seen[k]
  BY <1>1, PlaceHolders DEF Sweep, Cur
<1>3. sweep' = [sweep EXCEPT !.pc = "next", !.cur = AnyJob, !.seen = f]
  BY <1>1 DEF SweepResumes, Sweep
<1> HIDE DEF f
<1> QED
  BY <1>1, <1>2, <1>3, PlaceHolders DEF Sweep, SweepPc

-----------------------------------------------------------------------------
(* Type correctness, one step per action. *)

LEMMA TypeStep == TypeOK /\ [Next]_vars => TypeOK'
<1> SUFFICES ASSUME TypeOK, [Next]_vars PROVE TypeOK'
  OBVIOUS
<1> USE PlaceHolders, ConstantsAssumption
<1> USE DEF stores, durable, world
<1>1. ASSUME NEW c \in Calls, NEW i \in Items, StartArchive(c, i) PROVE TypeOK'
  BY <1>1 DEF TypeOK, StartArchive, Call, CallPc, NoKey
<1>2. ASSUME NEW c \in Calls, MintKey(c) PROVE TypeOK'
  <2>1. call[c].item \in Items /\ SubjectOf[call[c].item] \in Subjects
    BY DEF TypeOK, Call
  <2> QED
    BY <1>2, <2>1, CallGoesTo DEF TypeOK, MintKey, CallPc
<1>3. ASSUME NEW c \in Calls, RereadKey(c) PROVE TypeOK'
  <2> DEFINE k == keyOf[SubjectOf[call[c].item]]
             r == [call[c] EXCEPT !.pc = IF k = NoKey THEN "raised" ELSE "write", !.gen = k]
  <2>1. call[c] \in Call /\ call \in [Calls -> Call] /\ k \in Nat
    BY DEF TypeOK, Call
  <2>2. r \in Call
    BY <2>1 DEF Call, CallPc
  <2>3. call' = [call EXCEPT ![c] = r]
    BY <1>3, <2>1 DEF RereadKey, Call
  <2> HIDE DEF r, k
  <2> QED
    BY <1>3, <2>1, <2>2, <2>3 DEF TypeOK, RereadKey
<1>4. ASSUME NEW c \in Calls, WriteBlob(c) PROVE TypeOK'
  <2>1. [item |-> call[c].item, gen |-> call[c].gen] \in [item: Items, gen: Nat]
    BY DEF TypeOK, Call
  <2> QED
    BY <1>4, <2>1, CallGoesTo DEF TypeOK, WriteBlob, CallPc
<1>5. ASSUME NEW c \in Calls, RecordItem(c) PROVE TypeOK'
  <2>1. call[c].item \in Items
    BY DEF TypeOK, Call
  <2> QED
    BY <1>5, <2>1, CallGoesTo DEF TypeOK, RecordItem, CallPc
<1>6. ASSUME NEW c \in Calls, ArchiveFails(c) PROVE TypeOK'
  BY <1>6, CallGoesTo DEF TypeOK, ArchiveFails, CallPc, Fault
<1>7. ASSUME NEW j \in Jobs, NEW s \in Subjects, StartErase(j, s) PROVE TypeOK'
  <2>1. [pc |-> "mark", subject |-> s, items |-> FindItemIds(s)] \in Job
    BY DEF TypeOK, Job, JobPc, FindItemIds
  <2> QED
    BY <1>7, <2>1 DEF TypeOK, StartErase
<1>8. ASSUME NEW j \in Jobs, AppendPending(j) PROVE TypeOK'
  <2>1. /\ job[j].subject \in Subjects
        /\ [status |-> "pending", subject |-> job[j].subject, items |-> job[j].items, retry |-> 0]
             \in Marker
    BY DEF TypeOK, Job, Marker, MarkerStatus
  <2> QED
    BY <1>8, <2>1, JobGoesTo DEF TypeOK, AppendPending, JobPc
<1>9. ASSUME NEW j \in Jobs, EraseDestroysKey(j) PROVE TypeOK'
  BY <1>9, JobGoesTo DEF TypeOK, EraseDestroysKey, JobPc, DestroyKey, NoKey
<1>10. ASSUME NEW j \in Jobs, EraseFinalizes(j) PROVE TypeOK'
  BY <1>10, JobGoesTo DEF TypeOK, EraseFinalizes, JobPc
<1>11. ASSUME NEW j \in Jobs, EraseFails(j) PROVE TypeOK'
  BY <1>11, JobGoesTo DEF TypeOK, EraseFails, JobPc, Fault
<1>12. ASSUME NEW j \in Jobs, AppendConfirmed(j) PROVE TypeOK'
  BY <1>12, JobGoesTo, Upserted DEF TypeOK, AppendConfirmed, JobPc, MarkerStatus
<1>13. ASSUME NEW j \in Jobs, AppendFinalized(j) PROVE TypeOK'
  BY <1>13, JobGoesTo, Upserted DEF TypeOK, AppendFinalized, JobPc, MarkerStatus
<1>14. ASSUME NEW j \in Jobs, SweepNext(j) PROVE TypeOK'
  BY <1>14 DEF TypeOK, SweepNext, Sweep, SweepPc
<1>15. CASE StartSweep
  BY <1>15 DEF TypeOK, StartSweep, Sweep, SweepPc
<1>16. CASE SweepEnds
  BY <1>16 DEF TypeOK, SweepEnds
<1>17. CASE SweepCheckKey
  BY <1>17, SweepGoesTo, SweepResumed DEF TypeOK, SweepCheckKey, SweepPc
<1>18. CASE SweepRetriesDestroy
  <2>1. Cur \in Jobs /\ sweep \in Sweep /\ sweep.seen \in [Jobs -> Marker]
    BY DEF TypeOK, Sweep, Cur
  <2>2. CurRetry \in 0..MaxRetries /\ CurRetry + 1 \in 0..MaxRetries /\ CurSubject \in Subjects
    BY <1>18, <2>1 DEF SweepRetriesDestroy, CurRetry, CurSubject, Marker
  <2> DEFINE f == [sweep.seen EXCEPT ![Cur] = [sweep.seen[Cur] EXCEPT !.retry = CurRetry + 1]]
  <2>3. f \in [Jobs -> Marker]
    BY <2>1, <2>2 DEF Marker
  <2>4. sweep' = [sweep EXCEPT !.pc = "recheck", !.seen = f]
    BY <1>18, <2>1 DEF SweepRetriesDestroy, CurRetry, Sweep
  <2> HIDE DEF f
  <2>5. sweep' \in Sweep
    BY <2>1, <2>3, <2>4 DEF Sweep, SweepPc
  <2> QED
    BY <1>18, <2>2, <2>5 DEF TypeOK, SweepRetriesDestroy, DestroyKey, NoKey
<1>19. ASSUME NEW st \in MarkerStatus, Upsert(Cur, st, CurRetry) PROVE marker' \in [Jobs -> Marker]
  BY <1>19, Upserted DEF TypeOK, Sweep, Cur, CurRetry, Marker
<1>20. CASE SweepRechecksKey
  BY <1>20, <1>19, SweepGoesTo DEF TypeOK, SweepRechecksKey, SweepPc, MarkerStatus
<1>21. CASE SweepGivesUp
  BY <1>21, <1>19, SweepResumed DEF TypeOK, SweepGivesUp, MarkerStatus
<1>22. CASE SweepCloses
  BY <1>22, <1>19, SweepResumed DEF TypeOK, SweepCloses, MarkerStatus
<1>23. CASE SweepConfirms
  BY <1>23, <1>19, SweepGoesTo DEF TypeOK, SweepConfirms, SweepPc, MarkerStatus
<1>24. CASE SweepFinalizes
  BY <1>24, SweepGoesTo DEF TypeOK, SweepFinalizes, Sweep, SweepPc, Cur
<1>25. CASE SweepFinalizeFails
  BY <1>25, SweepGoesTo DEF TypeOK, SweepFinalizeFails, Sweep, SweepPc, Cur, Fault
<1>26. CASE SweepAppendFails
  BY <1>26 DEF TypeOK, SweepAppendFails, Fault
<1>27. CASE KeyStoreDown
  BY <1>27 DEF TypeOK, KeyStoreDown, Fault
<1>28. CASE KeyStoreUp
  BY <1>28 DEF TypeOK, KeyStoreUp
<1>29. CASE Crash
  <2>1. job' \in [Jobs -> Job]
    BY <1>29 DEF TypeOK, Crash, Job, JobPc
  <2>2. call' \in [Calls -> Call]
    BY <1>29 DEF TypeOK, Crash, Call, CallPc
  <2> QED
    BY <1>29, <2>1, <2>2 DEF TypeOK, Crash, NoKey
<1>30. CASE UNCHANGED vars
  BY <1>30 DEF TypeOK, vars
<1> DEFINE
      Archive == \E c \in Calls : ArchiveStep(c)
      Erase == (\E j \in Jobs, s \in Subjects : StartErase(j, s)) \/ \E j \in Jobs : EraseProgress(j)
<1>31. CASE Archive
  BY <1>31, <1>1, <1>2, <1>3, <1>4, <1>5, <1>6 DEF ArchiveStep
<1>32. CASE Erase
  BY <1>32, <1>7, <1>8, <1>9, <1>10, <1>11, <1>12, <1>13 DEF EraseProgress
<1>33. CASE SweepProgress
  BY <1>33, <1>14, <1>15, <1>16, <1>17, <1>18, <1>20, <1>21, <1>22, <1>23, <1>24, <1>25, <1>26
     DEF SweepProgress
<1> QED
  BY <1>27, <1>28, <1>29, <1>30, <1>31, <1>32, <1>33 DEF Next

-----------------------------------------------------------------------------
(* What is shredded stays so: a key is destroyed or replaced by a newer one. *)

KeysMove ==
    \A s \in Subjects : keyOf'[s] = keyOf[s] \/ keyOf'[s] = NoKey \/ keyOf'[s] = minted[s] + 1

\* What is shredded stays so: keys are only destroyed, or minted anew.
LEMMA ShreddedStays ==
    ASSUME TypeOK, KeysMinted, KeysMove, NEW j \in Jobs, Shredded(j),
           marker'[j].subject = marker[j].subject, covers'[j] = covers[j]
    PROVE  Shredded(j)'
<1> DEFINE s == marker[j].subject
<1>1. s \in Subjects /\ marker'[j].subject = s
  BY DEF TypeOK, Marker
<1>2. keyOf[s] \in Nat /\ minted[s] \in Nat /\ covers[j] \in Nat /\ covers[j] <= minted[s]
  BY <1>1 DEF TypeOK, KeysMinted
<1>3. keyOf'[s] = keyOf[s] \/ keyOf'[s] = NoKey \/ keyOf'[s] = minted[s] + 1
  BY <1>1 DEF KeysMove
<1>4. keyOf[s] = NoKey \/ keyOf[s] > covers[j]
  BY DEF Shredded
<1> QED
  BY <1>1, <1>2, <1>3, <1>4 DEF Shredded, NoKey

\* A step that touches neither the jobs, the sweep nor what is durable.
LEMMA QuietStep ==
    ASSUME IInv, TypeOK', KeysMinted', KeysMove, UNCHANGED <<durable, job, sweep>>
    PROVE  IInv'
<1>1. ASSUME NEW j \in Jobs, Shredded(j) PROVE Shredded(j)'
  BY <1>1, ShreddedStays DEF IInv, durable
<1>2. FreshJobs' /\ MarkedJobs'
  BY DEF IInv, FreshJobs, MarkedJobs, Marked, durable
<1>3. DestroyedJobs' /\ ClosedMeansShredded'
  BY <1>1 DEF IInv, DestroyedJobs, Destroyed, ClosedMeansShredded, durable
<1>4. SnapshotHolds' /\ CurNotInTodo'
  BY <1>1 DEF IInv, SnapshotHolds, CurNotInTodo, Handled, Cur, durable
<1>5. SweepConfirmed'
  BY <1>1 DEF IInv, SweepConfirmed, Cur, durable, TypeOK, Sweep
<1> QED
  BY <1>2, <1>3, <1>4, <1>5 DEF IInv

-----------------------------------------------------------------------------
(* The inductive step: archives and the environment. *)

LEMMA ArchiveInv == ASSUME IInv, TypeOK', NEW c \in Calls, ArchiveStep(c) PROVE IInv'
<1> USE DEF IInv, stores, durable, world
<1>1. CASE MintKey(c)
  <2> DEFINE s == SubjectOf[call[c].item]
  <2>1. s \in Subjects
    BY ConstantsAssumption DEF TypeOK, Call
  <2>2. /\ minted' = [minted EXCEPT ![s] = minted[s] + 1]
        /\ keyOf' = [keyOf EXCEPT ![s] = minted[s] + 1]
        /\ UNCHANGED <<durable, job, sweep>>
    BY <1>1 DEF MintKey
  <2> HIDE DEF s
  <2>3. KeysMove
    BY <2>1, <2>2 DEF KeysMove, TypeOK
  <2>4. KeysMinted'
    BY <2>1, <2>2 DEF KeysMinted, TypeOK, Marker
  <2> QED
    BY <2>2, <2>3, <2>4, QuietStep
<1>2. CASE ~MintKey(c)
  <2>1. UNCHANGED <<keyOf, minted, durable, job, sweep>>
    BY <1>2 DEF ArchiveStep, StartArchive, RereadKey, WriteBlob, RecordItem, ArchiveFails
  <2> QED
    BY <2>1, QuietStep DEF KeysMinted, KeysMove
<1> QED
  BY <1>1, <1>2

\* Outages and crashes keep the inductive invariant.
LEMMA EnvironmentInv ==
    ASSUME IInv, TypeOK', KeyStoreDown \/ KeyStoreUp \/ Crash \/ UNCHANGED vars PROVE IInv'
<1> USE DEF IInv, stores, durable, world
<1>1. CASE Crash
  <2>1. KeysMove /\ KeysMinted'
    BY <1>1 DEF Crash, KeysMove, KeysMinted, TypeOK, NoKey
  <2>2. ASSUME NEW j \in Jobs, Shredded(j) PROVE Shredded(j)'
    BY <1>1, <2>1, <2>2, ShreddedStays DEF Crash
  <2>3. \A j \in Jobs : /\ job'[j].pc \in JobPc \ {"dead"} => job'[j] = job[j]
    BY <1>1 DEF Crash, TypeOK, Job, JobPc
  <2>4. FreshJobs' /\ MarkedJobs'
    BY <1>1, <2>3 DEF Crash, FreshJobs, MarkedJobs, Marked, JobPc
  <2>5. DestroyedJobs' /\ ClosedMeansShredded'
    BY <1>1, <2>2, <2>3 DEF Crash, DestroyedJobs, Destroyed, ClosedMeansShredded, JobPc
  <2>6. SnapshotHolds' /\ CurNotInTodo' /\ SweepConfirmed'
    BY <1>1, PlaceHolders
       DEF Crash, NoSweep, SnapshotHolds, CurNotInTodo, Handled, Cur, SweepConfirmed
  <2> QED
    BY <2>1, <2>4, <2>5, <2>6
<1>2. CASE KeyStoreDown \/ KeyStoreUp \/ UNCHANGED vars
  <2>1. UNCHANGED <<keyOf, minted, durable, job, sweep>>
    BY <1>2 DEF KeyStoreDown, KeyStoreUp, vars
  <2> QED
    BY <2>1, QuietStep DEF KeysMinted, KeysMove
<1> QED
  BY <1>1, <1>2

-----------------------------------------------------------------------------
(* The inductive step: erase_subject.  A step of job j past its marker moves *)
(* only its own pc, status and record, and may destroy its subject's key.    *)

LEMMA JobStep ==
    ASSUME IInv, TypeOK', KeysMinted', KeysMove, UNCHANGED <<covers, sweep>>,
           NEW j \in Jobs, job[j].pc \in Marked, job'[j].pc \notin {"idle", "mark"},
           \A k \in Jobs : /\ marker'[k].subject = marker[k].subject
                           /\ job'[k].subject = job[k].subject
                           /\ k # j => /\ job'[k].pc = job[k].pc
                                       /\ marker'[k].status = marker[k].status
                                       /\ k \in prov' <=> k \in prov,
           marker'[j].status # "none",
           Shredded(j)' \/ /\ job'[j].pc \notin Destroyed
                           /\ marker'[j].status = marker[j].status
                           /\ j \in prov' <=> j \in prov
    PROVE  IInv'
<1> USE DEF IInv
<1>1. ASSUME NEW k \in Jobs, Shredded(k) PROVE Shredded(k)'
  BY <1>1, ShreddedStays
<1>2. FreshJobs' /\ MarkedJobs'
  BY DEF FreshJobs, MarkedJobs, Marked
<1>3. DestroyedJobs' /\ ClosedMeansShredded'
  BY <1>1 DEF DestroyedJobs, Destroyed, ClosedMeansShredded
<1>4. SnapshotHolds' /\ CurNotInTodo'
  BY <1>1 DEF SnapshotHolds, CurNotInTodo, Handled, Cur
<1>5. SweepConfirmed'
  BY <1>1 DEF SweepConfirmed, Cur, TypeOK, Sweep
<1> QED
  BY <1>2, <1>3, <1>4, <1>5

\* Every step of erase_subject keeps the inductive invariant.
LEMMA EraseInv == ASSUME IInv, TypeOK', NEW j \in Jobs, EraseProgress(j) PROVE IInv'
<1> USE DEF IInv, stores, durable, world
<1>1. CASE AppendPending(j)
  <2>1. /\ JobGoes(j, "destroy") /\ job[j].pc = "mark"
        /\ UNCHANGED <<keyOf, minted, prov, sweep>>
    BY <1>1 DEF AppendPending, JobAt
  <2>2. \A k \in Jobs : /\ job'[k].subject = job[k].subject
                        /\ job'[k].pc = IF k = j THEN "destroy" ELSE job[k].pc
    BY <2>1, JobGoesTo DEF JobPc
  <2>3. /\ marker'[j].subject = job[j].subject /\ marker'[j].status = "pending"
        /\ covers'[j] = minted[job[j].subject]
        /\ \A k \in Jobs \ {j} : marker'[k] = marker[k] /\ covers'[k] = covers[k]
    BY <1>1 DEF AppendPending, TypeOK
  <2>4. marker[j].status = "none" /\ j \notin prov /\ ~Handled(j)
    BY <2>1 DEF FreshJobs, SnapshotHolds
  <2>5. KeysMove /\ KeysMinted'
    <3>1. KeysMove
      BY <2>1 DEF KeysMove
    <3>2. job[j].subject \in Subjects /\ \A s \in Subjects : minted[s] \in Nat
      BY DEF TypeOK, Job
    <3>3. \A k \in Jobs : covers'[k] <= minted[marker'[k].subject]
      BY <2>3, <3>2 DEF KeysMinted
    <3> QED
      BY <2>1, <3>1, <3>3 DEF KeysMinted
  <2>6. ASSUME NEW k \in Jobs \ {j}, Shredded(k) PROVE Shredded(k)'
    BY <2>3, <2>5, <2>6, ShreddedStays
  <2>7. FreshJobs' /\ MarkedJobs'
    BY <2>1, <2>2, <2>3, <2>4 DEF FreshJobs, MarkedJobs, Marked
  <2>8. DestroyedJobs' /\ ClosedMeansShredded'
    BY <2>1, <2>2, <2>3, <2>4, <2>6 DEF DestroyedJobs, Destroyed, ClosedMeansShredded
  <2>9. SnapshotHolds' /\ CurNotInTodo' /\ SweepConfirmed'
    BY <2>1, <2>3, <2>4, <2>6
       DEF SnapshotHolds, CurNotInTodo, Handled, SweepConfirmed, Cur, TypeOK, Sweep
  <2> QED
    BY <2>5, <2>7, <2>8, <2>9
<1>2. CASE EraseDestroysKey(j)
  <2>1. /\ JobGoes(j, "confirm") /\ job[j].pc = "destroy" /\ DestroyKey(job[j].subject)
        /\ UNCHANGED <<minted, marker, covers, prov, sweep>>
    BY <1>2 DEF EraseDestroysKey, JobAt
  <2>2. marker[j].subject = job[j].subject /\ marker[j].status # "none"
    BY <2>1 DEF MarkedJobs, Marked
  <2>3. KeysMove /\ KeysMinted' /\ Shredded(j)'
    BY <2>1, <2>2 DEF DestroyKey, KeysMove, KeysMinted, Shredded, TypeOK, NoKey, Job
  <2> QED
    BY <2>1, <2>2, <2>3, JobGoesTo, JobStep DEF JobPc, Marked
<1>3. CASE ~AppendPending(j) /\ ~EraseDestroysKey(j)
  <2>1. UNCHANGED <<keyOf, minted, covers, sweep>>
    BY <1>3 DEF EraseProgress, AppendConfirmed, EraseFinalizes, AppendFinalized, EraseFails
  <2>2. KeysMove /\ KeysMinted'
    <3>1. \A k \in Jobs : marker'[k].subject = marker[k].subject
      BY <1>3, Upserted, ConstantsAssumption
         DEF EraseProgress, AppendConfirmed, EraseFinalizes, AppendFinalized, EraseFails,
             MarkerStatus
    <3> QED
      BY <2>1, <3>1 DEF KeysMove, KeysMinted
  <2>3. ASSUME Shredded(j), covers'[j] = covers[j], marker'[j].subject = marker[j].subject
        PROVE  Shredded(j)'
    BY <2>2, <2>3, ShreddedStays
  <2>4. job[j].pc \in Destroyed => Shredded(j)
    BY DEF DestroyedJobs
  <2>5. CASE AppendConfirmed(j) \/ AppendFinalized(j)
    <3>1. PICK st \in MarkerStatus \ {"none"}, p \in Destroyed :
             /\ Upsert(j, st, 0) /\ JobGoes(j, p) /\ job[j].pc \in Destroyed
             /\ UNCHANGED prov
      BY <2>5 DEF AppendConfirmed, AppendFinalized, JobAt, MarkerStatus, Destroyed
    <3> QED
      BY <2>1, <2>2, <2>3, <2>4, <3>1, JobGoesTo, Upserted, JobStep, ConstantsAssumption
         DEF Destroyed, Marked, JobPc
  <2>6. CASE EraseFinalizes(j)
    <3>1. PICK p \in {"raised", "close"} :
             /\ JobGoes(j, p) /\ job[j].pc = "finalize" /\ prov' = prov \union {j}
             /\ UNCHANGED marker
      BY <2>6 DEF EraseFinalizes, JobAt
    <3>2. marker[j].status # "none"
      BY <3>1 DEF MarkedJobs, Marked
    <3> QED
      BY <2>1, <2>2, <2>3, <2>4, <3>1, <3>2, JobGoesTo, JobStep DEF Destroyed, Marked, JobPc
  <2>7. CASE EraseFails(j)
    <3>1. /\ JobGoes(j, "raised") /\ UNCHANGED marker
          /\ \/ prov' = prov
             \/ job[j].pc = "finalize" /\ prov' = prov \union {j}
          /\ job[j].pc = "mark" \/ job[j].pc \in Marked
      BY <2>7 DEF EraseFails, JobAt, Marked
    <3>2. CASE job[j].pc \in Marked
      <4>1. marker[j].status # "none"
        BY <3>2 DEF MarkedJobs
      <4> QED
        BY <2>1, <2>2, <2>3, <2>4, <3>1, <3>2, <4>1, JobGoesTo, JobStep
           DEF Destroyed, Marked, JobPc
    <3>3. CASE job[j].pc = "mark"
      <4>1. \A k \in Jobs : /\ job'[k].subject = job[k].subject
                            /\ job'[k].pc = IF k = j THEN "raised" ELSE job[k].pc
        BY <3>1, JobGoesTo DEF JobPc
      <4>2. UNCHANGED prov
        BY <3>1, <3>3
      <4>3. \A k \in Jobs : Shredded(k)' = Shredded(k)
        BY <2>1, <3>1 DEF Shredded
      <4>4. FreshJobs' /\ MarkedJobs' /\ DestroyedJobs'
        BY <3>1, <4>1, <4>2, <4>3 DEF FreshJobs, MarkedJobs, DestroyedJobs, Marked, Destroyed
      <4>5. SnapshotHolds' /\ CurNotInTodo' /\ SweepConfirmed' /\ ClosedMeansShredded'
        BY <2>1, <3>1, <4>2, <4>3 DEF SnapshotHolds, CurNotInTodo, Handled, SweepConfirmed, Cur,
                                      ClosedMeansShredded, TypeOK, Sweep
      <4> QED
        BY <2>2, <4>4, <4>5
    <3> QED
      BY <3>1, <3>2, <3>3
  <2> QED
    BY <1>3, <2>5, <2>6, <2>7 DEF EraseProgress
<1> QED
  BY <1>1, <1>2, <1>3

\* A new erase_subject call keeps the inductive invariant.
LEMMA StartInv ==
    ASSUME IInv, TypeOK', NEW j \in Jobs, NEW s \in Subjects, StartErase(j, s) PROVE IInv'
<1> USE DEF IInv, stores, durable, world
<1>1. /\ job[j].pc = "idle" /\ job'[j].pc = "mark"
      /\ \A k \in Jobs \ {j} : job'[k] = job[k]
      /\ UNCHANGED <<keyOf, minted, marker, covers, prov, sweep>>
  BY DEF StartErase, JobAt, TypeOK
<1>2. KeysMinted' /\ \A k \in Jobs : Shredded(k)' = Shredded(k)
  BY <1>1 DEF KeysMinted, Shredded
<1>3. FreshJobs' /\ MarkedJobs' /\ DestroyedJobs'
  BY <1>1, <1>2 DEF FreshJobs, MarkedJobs, DestroyedJobs, Marked, Destroyed
<1>4. SnapshotHolds' /\ CurNotInTodo' /\ SweepConfirmed' /\ ClosedMeansShredded'
  BY <1>1, <1>2 DEF SnapshotHolds, CurNotInTodo, Handled, SweepConfirmed, Cur, ClosedMeansShredded,
                    TypeOK, Sweep
<1> QED
  BY <1>2, <1>3, <1>4

-----------------------------------------------------------------------------
(* The inductive step: the sweep.  A step works on the current marker, whose *)
(* row exists, and changes its status only to what the key store supports.   *)

LEMMA SweepStep ==
    ASSUME IInv, TypeOK', KeysMinted', KeysMove, UNCHANGED <<covers, job>>,
           NEW m \in Jobs, m = Cur, sweep.pc \notin {"idle", "next"},
           sweep'.todo = sweep.todo,
           \/ /\ sweep'.pc = "next"
              /\ \A k \in Jobs \ {m} : sweep'.seen[k] = sweep.seen[k]
           \/ /\ sweep'.pc \in SweepPc \ {"idle", "next"} /\ sweep'.cur = m
              /\ \A k \in Jobs : /\ sweep'.seen[k].subject = sweep.seen[k].subject
                                 /\ sweep'.seen[k].status = sweep.seen[k].status,
           \A k \in Jobs : /\ marker'[k].subject = marker[k].subject
                           /\ k # m => /\ marker'[k].status = marker[k].status
                                       /\ k \in prov' <=> k \in prov,
           marker'[m].status # "none",
           Shredded(m)' \/ /\ sweep'.pc \notin {"confirm", "finalize", "close"}
                           /\ marker'[m].status \notin {"destroy_confirmed", "finalized"}
                           /\ prov' = prov
    PROVE  IInv'
<1> USE DEF IInv
<1>0. sweep.todo \subseteq Jobs /\ Handled(m) /\ m \notin sweep.todo
  BY DEF TypeOK, Sweep, Cur, Handled, SnapshotHolds, CurNotInTodo
<1>1. ASSUME NEW k \in Jobs, Shredded(k) PROVE Shredded(k)'
  BY <1>1, ShreddedStays
<1>2. marker[m].status # "none" /\ \A k \in Jobs : marker[k].status # "none" => marker'[k].status # "none"
  BY <1>0 DEF SnapshotHolds
<1>3. FreshJobs' /\ MarkedJobs' /\ DestroyedJobs'
  BY <1>1, <1>2 DEF FreshJobs, MarkedJobs, DestroyedJobs, Marked
<1>4. \A k \in Jobs : Handled(k)' => Handled(k) /\ (k = m => sweep'.pc # "next")
  BY <1>0 DEF Handled, Cur
<1>5. SnapshotHolds' /\ CurNotInTodo'
  BY <1>0, <1>1, <1>2, <1>4 DEF SnapshotHolds, CurNotInTodo, Cur
<1>6. SweepConfirmed'
  BY DEF SweepConfirmed, Cur
<1>7. ClosedMeansShredded'
  BY <1>1 DEF ClosedMeansShredded
<1> QED
  BY <1>3, <1>5, <1>6, <1>7

\* The sweep has dropped everything it held.
LEMMA SweepStops ==
    ASSUME IInv, TypeOK', UNCHANGED <<keyOf, minted, marker, covers, job>>, sweep' = NoSweep,
           \A k \in Jobs : k \in prov' => k \in prov \/ (k = Cur /\ sweep.pc = "finalize")
    PROVE  IInv'
<1> USE DEF IInv
<1>1. KeysMinted' /\ \A k \in Jobs : Shredded(k)' = Shredded(k)
  BY DEF KeysMinted, Shredded
<1>2. ASSUME NEW k \in Jobs, k = Cur, sweep.pc = "finalize"
      PROVE  marker[k].status # "none" /\ Shredded(k)
  BY <1>2 DEF SnapshotHolds, Handled, SweepConfirmed
<1>3. FreshJobs' /\ MarkedJobs' /\ DestroyedJobs'
  BY <1>1, <1>2 DEF FreshJobs, MarkedJobs, DestroyedJobs
<1>4. SnapshotHolds' /\ CurNotInTodo' /\ SweepConfirmed'
  BY PlaceHolders DEF SnapshotHolds, CurNotInTodo, Handled, SweepConfirmed, NoSweep, Cur
<1>5. ClosedMeansShredded'
  BY <1>1, <1>2 DEF ClosedMeansShredded
<1> QED
  BY <1>1, <1>3, <1>4, <1>5

\* Every step of the sweep keeps the inductive invariant.
LEMMA SweepInv == ASSUME IInv, TypeOK', SweepProgress PROVE IInv'
<1> USE DEF IInv, stores, durable, world
<1>0. PICK m \in Jobs : m = Cur
  BY DEF TypeOK, Sweep, Cur
<1>1. CASE StartSweep
  <2>1. /\ UNCHANGED <<keyOf, minted, marker, covers, prov, job>>
        /\ sweep'.pc = "next" /\ sweep'.seen = marker
        /\ sweep'.todo = {j \in Jobs : marker[j].status \in Unfinalized}
    BY <1>1 DEF StartSweep, TypeOK, Sweep
  <2>2. KeysMinted' /\ \A k \in Jobs : Shredded(k)' = Shredded(k)
    BY <2>1 DEF KeysMinted, Shredded
  <2>3. FreshJobs' /\ MarkedJobs' /\ DestroyedJobs' /\ ClosedMeansShredded'
    BY <2>1, <2>2 DEF FreshJobs, MarkedJobs, DestroyedJobs, ClosedMeansShredded
  <2>4. SnapshotHolds' /\ CurNotInTodo' /\ SweepConfirmed'
    BY <2>1, <2>2 DEF SnapshotHolds, CurNotInTodo, Handled, SweepConfirmed, Unfinalized,
                      ClosedMeansShredded
  <2> QED
    BY <2>2, <2>3, <2>4
<1>2. ASSUME NEW j \in Jobs, SweepNext(j) PROVE IInv'
  <2>1. /\ UNCHANGED <<keyOf, minted, marker, covers, prov, job>>
        /\ sweep.pc = "next" /\ j \in sweep.todo /\ sweep'.cur = j
        /\ sweep'.todo = sweep.todo \ {j} /\ sweep'.seen = sweep.seen
        /\ sweep'.pc = IF sweep.seen[j].status = "destroy_confirmed" THEN "finalize" ELSE "check"
    BY <1>2 DEF SweepNext, TypeOK, Sweep
  <2>2. KeysMinted' /\ \A k \in Jobs : Shredded(k)' = Shredded(k)
    BY <2>1 DEF KeysMinted, Shredded
  <2>3. FreshJobs' /\ MarkedJobs' /\ DestroyedJobs' /\ ClosedMeansShredded'
    BY <2>1, <2>2 DEF FreshJobs, MarkedJobs, DestroyedJobs, ClosedMeansShredded
  <2>4. SnapshotHolds' /\ CurNotInTodo'
    BY <2>1, <2>2 DEF SnapshotHolds, CurNotInTodo, Handled, Cur
  <2>5. Shredded(j)' \/ sweep'.pc = "check"
    BY <2>1, <2>2 DEF SnapshotHolds, Handled
  <2>6. SweepConfirmed'
    BY <2>1, <2>5 DEF SweepConfirmed, Cur
  <2> QED
    BY <2>2, <2>3, <2>4, <2>6
<1>3. CASE SweepEnds \/ SweepAppendFails
  <2>1. UNCHANGED <<keyOf, minted, durable, job>> /\ sweep' = NoSweep
    BY <1>3 DEF SweepEnds, SweepAppendFails
  <2> QED
    BY <2>1, SweepStops
<1>4. ASSUME KeysMove, UNCHANGED covers, marker'[m].subject = marker[m].subject, Shredded(m)
      PROVE  Shredded(m)'
  BY <1>4, ShreddedStays
<1>5. ASSUME sweep.pc \notin {"idle", "next"}
      PROVE  /\ marker[m].status # "none" /\ CurSubject = marker[m].subject
             /\ CurSubject \in Subjects /\ CurRetry \in 0..MaxRetries
             /\ marker[m].status \in {"destroy_confirmed", "finalized"} \/ m \in prov => Shredded(m)
  BY <1>0, <1>5 DEF SnapshotHolds, Handled, CurSubject, CurRetry, Cur, ClosedMeansShredded,
                    TypeOK, Sweep, Marker
<1>6. ASSUME NEW st \in MarkerStatus, Upsert(Cur, st, CurRetry), sweep.pc \notin {"idle", "next"}
      PROVE  \A k \in Jobs : /\ marker'[k].subject = marker[k].subject
                             /\ marker'[k].status = IF k = m THEN st ELSE marker[k].status
  BY <1>0, <1>5, <1>6, Upserted
<1>7. CASE SweepCheckKey
  <2>1. sweep.pc = "check" /\ UNCHANGED <<keyOf, minted, durable, job>>
    BY <1>7 DEF SweepCheckKey
  <2>2. KeysMove /\ KeysMinted'
    BY <2>1 DEF KeysMove, KeysMinted
  <2>3. CASE SweepResumes
    BY <1>0, <1>4, <1>5, <2>1, <2>2, <2>3, SweepStep, SweepResumed
  <2>4. CASE keyOf[CurSubject] = NoKey /\ SweepGoes("confirm")
    <3>1. Shredded(m)
      BY <1>5, <2>1, <2>4 DEF Shredded
    <3> QED
      BY <1>0, <1>4, <1>5, <2>1, <2>2, <2>4, <3>1, SweepStep, SweepGoesTo DEF SweepPc, Cur
  <2>5. CASE SweepGoes("destroy")
    BY <1>0, <1>4, <1>5, <2>1, <2>2, <2>5, SweepStep, SweepGoesTo DEF SweepPc, Cur
  <2> QED
    BY <1>7, <2>3, <2>4, <2>5 DEF SweepCheckKey
<1>8. CASE SweepRetriesDestroy
  <2>1. /\ sweep.pc = "destroy" /\ UNCHANGED <<minted, durable, job>>
        /\ keyOf' = keyOf \/ keyOf' = [keyOf EXCEPT ![CurSubject] = NoKey]
    BY <1>8 DEF SweepRetriesDestroy, DestroyKey
  <2>2. KeysMove /\ KeysMinted'
    BY <2>1 DEF KeysMove, KeysMinted, TypeOK, NoKey
  <2>3. /\ sweep'.pc = "recheck" /\ sweep'.cur = m /\ sweep'.todo = sweep.todo
        /\ \A k \in Jobs : /\ sweep'.seen[k].subject = sweep.seen[k].subject
                           /\ sweep'.seen[k].status = sweep.seen[k].status
    <3> DEFINE f == [sweep.seen EXCEPT ![Cur] = [sweep.seen[Cur] EXCEPT !.retry = CurRetry + 1]]
    <3>1. sweep \in Sweep /\ sweep.seen \in [Jobs -> Marker]
      BY DEF TypeOK, Sweep
    <3>2. sweep' = [sweep EXCEPT !.pc = "recheck", !.seen = f]
      BY <1>8, <3>1 DEF SweepRetriesDestroy, CurRetry, Sweep
    <3>3. \A k \in Jobs : f[k].subject = sweep.seen[k].subject /\ f[k].status = sweep.seen[k].status
      BY <1>0, <3>1 DEF Marker
    <3> HIDE DEF f
    <3> QED
      BY <1>0, <3>1, <3>2, <3>3 DEF Sweep, Cur
  <2> QED
    BY <1>0, <1>4, <1>5, <2>1, <2>2, <2>3, SweepStep DEF SweepPc
<1>9. CASE SweepRechecksKey
  <2>1. sweep.pc = "recheck" /\ UNCHANGED <<keyOf, minted, covers, prov, job>>
    BY <1>9 DEF SweepRechecksKey
  <2>2. CASE sweep' = NoSweep /\ UNCHANGED marker
    BY <2>1, <2>2, SweepStops
  <2>3. CASE keyOf[CurSubject] = NoKey /\ SweepGoes("confirm") /\ UNCHANGED marker
    <3>1. KeysMove /\ KeysMinted' /\ Shredded(m)
      BY <1>5, <2>1, <2>3 DEF KeysMove, KeysMinted, Shredded
    <3> QED
      BY <1>0, <1>4, <1>5, <2>1, <2>3, <3>1, SweepStep, SweepGoesTo DEF SweepPc, Cur
  <2>4. CASE Upsert(Cur, "pending", CurRetry) /\ SweepGoes("destroy")
    <3>1. \A k \in Jobs : /\ marker'[k].subject = marker[k].subject
                          /\ marker'[k].status = IF k = m THEN "pending" ELSE marker[k].status
      BY <1>6, <2>1, <2>4 DEF MarkerStatus
    <3>2. KeysMove /\ KeysMinted'
      BY <2>1, <3>1 DEF KeysMove, KeysMinted
    <3> QED
      BY <1>0, <2>1, <2>4, <3>1, <3>2, SweepStep, SweepGoesTo DEF SweepPc, Cur
  <2> QED
    BY <1>9, <2>2, <2>3, <2>4 DEF SweepRechecksKey
<1>10. CASE SweepGivesUp
  <2>1. /\ sweep.pc = "destroy" /\ UNCHANGED <<keyOf, minted, covers, prov, job>>
        /\ Upsert(Cur, "failed", CurRetry) /\ SweepResumes
    BY <1>10 DEF SweepGivesUp
  <2>2. \A k \in Jobs : /\ marker'[k].subject = marker[k].subject
                        /\ marker'[k].status = IF k = m THEN "failed" ELSE marker[k].status
    BY <1>6, <2>1 DEF MarkerStatus
  <2>3. KeysMove /\ KeysMinted'
    BY <2>1, <2>2 DEF KeysMove, KeysMinted
  <2> QED
    BY <1>0, <2>1, <2>2, <2>3, SweepStep, SweepResumed
<1>11. CASE SweepConfirms \/ SweepCloses
  <2>1. PICK st \in MarkerStatus \ {"none"} :
           /\ Upsert(Cur, st, CurRetry) /\ UNCHANGED <<keyOf, minted, covers, prov, job>>
           /\ sweep.pc \in {"confirm", "close"} /\ (SweepGoes("finalize") \/ SweepResumes)
    BY <1>11 DEF SweepConfirms, SweepCloses, MarkerStatus
  <2>2. \A k \in Jobs : /\ marker'[k].subject = marker[k].subject
                        /\ marker'[k].status = IF k = m THEN st ELSE marker[k].status
    BY <1>6, <2>1
  <2>3. KeysMove /\ KeysMinted'
    BY <2>1, <2>2 DEF KeysMove, KeysMinted
  <2>4. Shredded(m)'
    BY <1>0, <1>4, <2>1, <2>2, <2>3 DEF SweepConfirmed
  <2> QED
    BY <1>0, <2>1, <2>2, <2>3, <2>4, SweepStep, SweepGoesTo, SweepResumed DEF SweepPc, Cur
<1>12. CASE SweepFinalizes \/ SweepFinalizeFails
  <2>1. /\ sweep.pc = "finalize" /\ UNCHANGED <<keyOf, minted, marker, covers, job>>
        /\ prov' = prov \/ prov' = prov \union {Cur}
        /\ sweep' = NoSweep \/ SweepGoes("close")
    BY <1>12 DEF SweepFinalizes, SweepFinalizeFails
  <2>2. CASE sweep' = NoSweep
    BY <2>1, <2>2, SweepStops
  <2>3. CASE SweepGoes("close")
    <3>1. KeysMove /\ KeysMinted'
      BY <2>1 DEF KeysMove, KeysMinted
    <3>2. Shredded(m)'
      BY <1>0, <1>4, <2>1, <3>1 DEF SweepConfirmed
    <3> QED
      BY <1>0, <1>5, <2>1, <2>3, <3>1, <3>2, SweepStep, SweepGoesTo DEF SweepPc, Cur
  <2> QED
    BY <2>1, <2>2, <2>3
<1> QED
  BY <1>1, <1>2, <1>3, <1>7, <1>8, <1>9, <1>10, <1>11, <1>12 DEF SweepProgress

-----------------------------------------------------------------------------
\* Every step keeps the inductive invariant.
LEMMA InvStep == IInv /\ [Next]_vars => IInv'
<1> SUFFICES ASSUME IInv, [Next]_vars PROVE IInv'
  OBVIOUS
<1>1. TypeOK'
  BY TypeStep DEF IInv
<1>2. CASE \E c \in Calls : ArchiveStep(c)
  BY <1>1, <1>2, ArchiveInv
<1>3. CASE \E j \in Jobs, s \in Subjects : StartErase(j, s)
  BY <1>1, <1>3, StartInv
<1>4. CASE \E j \in Jobs : EraseProgress(j)
  BY <1>1, <1>4, EraseInv
<1>5. CASE SweepProgress
  BY <1>1, <1>5, SweepInv
<1>6. CASE KeyStoreDown \/ KeyStoreUp \/ Crash \/ UNCHANGED vars
  BY <1>1, <1>6, EnvironmentInv
<1> QED
  BY <1>2, <1>3, <1>4, <1>5, <1>6 DEF Next

\* The variables keep their types in every behaviour.
THEOREM TypeCorrect == Spec => []TypeOK
<1>1. IInv => TypeOK
  BY DEF IInv
<1> QED
  BY <1>1, InitInv, InvStep, PTL DEF Spec

\* No erasure is recorded as confirmed, finalized or in Zone 7 while a key that
\* its marker covers can still open a blob.
THEOREM ErasureIsShredded == Spec => []ClosedMeansShredded
<1>1. IInv => ClosedMeansShredded
  BY DEF IInv
<1> QED
  BY <1>1, InitInv, InvStep, PTL DEF Spec

-----------------------------------------------------------------------------
(* An erasure that returned.  Two facts beyond the invariant above: a job is *)
(* past its finalize only with its record in Zone 7, and no blob is sealed   *)
(* under "no key", so that a subject without a key can open none.            *)

RecordedJobs == \A j \in Jobs : job[j].pc \in {"close", "done"} => j \in prov

SealedBlobs ==
    /\ \A b \in blobs : b.gen # NoKey
    /\ \A c \in Calls : call[c].pc = "write" => call[c].gen # NoKey

\* Records are only added, and added before the job moves past its finalize.
LEMMA RecordedStep == ASSUME TypeOK, RecordedJobs, [Next]_vars PROVE RecordedJobs'
<1> USE DEF stores, durable, world
<1>1. ASSUME NEW j \in Jobs, EraseProgress(j) PROVE RecordedJobs'
  <2>1. PICK p \in JobPc :
           /\ JobGoes(j, p) /\ prov \subseteq prov'
           /\ p \in {"close", "done"} => j \in prov' \/ job[j].pc = "close"
    BY <1>1 DEF EraseProgress, AppendPending, EraseDestroysKey, AppendConfirmed, EraseFinalizes,
                AppendFinalized, EraseFails, JobAt, JobPc
  <2> QED
    BY <2>1, JobGoesTo DEF RecordedJobs
<1>2. ASSUME NEW j \in Jobs, NEW s \in Subjects, StartErase(j, s) PROVE RecordedJobs'
  BY <1>2 DEF StartErase, RecordedJobs, TypeOK
<1>3. CASE SweepProgress
  <2>1. UNCHANGED job /\ prov \subseteq prov'
    BY <1>3 DEF SweepProgress, StartSweep, SweepNext, SweepEnds, SweepCheckKey, SweepRetriesDestroy,
                SweepRechecksKey, SweepGivesUp, SweepConfirms, SweepFinalizes, SweepFinalizeFails,
                SweepCloses, SweepAppendFails
  <2> QED
    BY <2>1 DEF RecordedJobs
<1>4. CASE Crash
  <2>1. \A j \in Jobs : job'[j].pc \in {"close", "done"} => job'[j] = job[j]
    BY <1>4 DEF Crash, TypeOK, Job
  <2> QED
    BY <1>4, <2>1 DEF Crash, RecordedJobs
<1>5. CASE (\E c \in Calls : ArchiveStep(c)) \/ KeyStoreDown \/ KeyStoreUp \/ UNCHANGED vars
  <2>1. UNCHANGED <<job, prov>>
    BY <1>5 DEF ArchiveStep, StartArchive, MintKey, RereadKey, WriteBlob, RecordItem, ArchiveFails,
                KeyStoreDown, KeyStoreUp, vars
  <2> QED
    BY <2>1 DEF RecordedJobs
<1> QED
  BY <1>1, <1>2, <1>3, <1>4, <1>5 DEF Next

\* A call writes only what it sealed under the key it reread.
LEMMA SealedStep == ASSUME TypeOK, SealedBlobs, [Next]_vars PROVE SealedBlobs'
<1> USE DEF stores, durable, world
<1>1. ASSUME NEW c \in Calls, NEW i \in Items, StartArchive(c, i) PROVE SealedBlobs'
  BY <1>1 DEF StartArchive, SealedBlobs, TypeOK
<1>2. ASSUME NEW c \in Calls, RereadKey(c) PROVE SealedBlobs'
  <2> DEFINE k == keyOf[SubjectOf[call[c].item]]
             r == [call[c] EXCEPT !.pc = IF k = NoKey THEN "raised" ELSE "write", !.gen = k]
  <2>1. call[c] \in Call /\ call \in [Calls -> Call]
    BY DEF TypeOK
  <2>2. r.pc = "write" => r.gen # NoKey
    BY <2>1 DEF Call
  <2>3. call' = [call EXCEPT ![c] = r] /\ UNCHANGED blobs
    BY <1>2, <2>1 DEF RereadKey, Call
  <2> HIDE DEF r, k
  <2> QED
    BY <2>1, <2>2, <2>3 DEF SealedBlobs
<1>3. ASSUME NEW c \in Calls, WriteBlob(c) PROVE SealedBlobs'
  <2>1. call[c].pc = "write" /\ call[c].gen # NoKey
    BY <1>3 DEF WriteBlob, CallAt, SealedBlobs
  <2> QED
    BY <1>3, <2>1, CallGoesTo DEF WriteBlob, SealedBlobs, CallPc
<1>4. ASSUME NEW c \in Calls, MintKey(c) \/ RecordItem(c) \/ ArchiveFails(c) PROVE SealedBlobs'
  <2>1. PICK p \in CallPc \ {"write"} : CallGoes(c, p) /\ UNCHANGED blobs
    BY <1>4 DEF MintKey, RecordItem, ArchiveFails, CallPc
  <2> QED
    BY <2>1, CallGoesTo DEF SealedBlobs
<1>5. CASE Crash
  <2>1. \A c \in Calls : call'[c].pc = "write" => call'[c] = call[c]
    BY <1>5 DEF Crash, TypeOK, Call
  <2> QED
    BY <1>5, <2>1 DEF Crash, SealedBlobs
<1>6. CASE UNCHANGED <<blobs, call>>
  BY <1>6 DEF SealedBlobs
<1>7. CASE SweepProgress
  BY <1>6, <1>7
     DEF SweepProgress, StartSweep, SweepNext, SweepEnds, SweepCheckKey, SweepRetriesDestroy,
         SweepRechecksKey, SweepGivesUp, SweepConfirms, SweepFinalizes, SweepFinalizeFails,
         SweepCloses, SweepAppendFails
<1>8. ASSUME NEW j \in Jobs, EraseProgress(j) PROVE SealedBlobs'
  BY <1>6, <1>8 DEF EraseProgress, AppendPending, EraseDestroysKey, AppendConfirmed, EraseFinalizes,
                    AppendFinalized, EraseFails
<1>9. ASSUME NEW j \in Jobs, NEW s \in Subjects, StartErase(j, s) PROVE SealedBlobs'
  BY <1>6, <1>9 DEF StartErase
<1>10. CASE KeyStoreDown \/ KeyStoreUp \/ UNCHANGED vars
  BY <1>6, <1>10 DEF KeyStoreDown, KeyStoreUp, vars
<1>11. ASSUME NEW c \in Calls, ArchiveStep(c) PROVE SealedBlobs'
  BY <1>1, <1>2, <1>3, <1>4, <1>11 DEF ArchiveStep
<1> QED
  BY <1>5, <1>7, <1>8, <1>9, <1>10, <1>11 DEF Next

\* An erase_subject that returned has its record, and no ciphertext of its items
\* that was sealed before its marker can be opened.
THEOREM ErasureIsComplete == Spec => []ReturnedMeansErased
<1> DEFINE RInv == IInv /\ RecordedJobs /\ SealedBlobs
<1>1. Init => RInv
  <2>1. Init => RecordedJobs
    BY DEF Init, RecordedJobs
  <2>2. Init => SealedBlobs
    BY DEF Init, SealedBlobs, NoKey
  <2> QED
    BY <2>1, <2>2, InitInv
<1>2. RInv /\ [Next]_vars => RInv'
  BY InvStep, RecordedStep, SealedStep DEF IInv
<1>3. RInv => ReturnedMeansErased
  <2> SUFFICES ASSUME RInv, NEW j \in Jobs, job[j].pc = "done"
               PROVE  /\ j \in prov
                      /\ \A b \in blobs : b.gen <= covers[j] => keyOf[job[j].subject] # b.gen
    BY DEF ReturnedMeansErased, JobAt
  <2>1. Shredded(j) /\ marker[j].subject = job[j].subject
    BY DEF IInv, DestroyedJobs, MarkedJobs, Destroyed, Marked
  <2>2. \A b \in blobs : b.gen \in Nat /\ b.gen # NoKey
    BY DEF IInv, TypeOK, SealedBlobs
  <2>3. keyOf[job[j].subject] \in Nat /\ covers[j] \in Nat
    BY DEF IInv, TypeOK, Job
  <2> QED
    BY <2>1, <2>2, <2>3 DEF Shredded, RecordedJobs
<1> QED
  BY <1>1, <1>2, <1>3, PTL DEF Spec

-----------------------------------------------------------------------------
(* Sweeps that run only while no erase_subject is live, as after a restart:  *)
(* the case the module docstring describes.  Beside a live erasure a sweep   *)
(* may write its stale copy of a marker over a newer row, and the two        *)
(* theorems at the end of this part do not hold.                             *)

SweepAlone ==
    \/ sweep = NoSweep
    \/ sweep.pc # "idle" /\ \A j \in Jobs : ~InFlight(job[j].pc)

\* A running erase_subject finds its marker as it left it.
JobsInOrder ==
    \A j \in Jobs :
        /\ job[j].pc \in {"destroy", "confirm"} => marker[j].status = "pending"
        /\ job[j].pc \in {"finalize", "close"} => marker[j].status = "destroy_confirmed"

\* The copies of the markers still to be handled are those in the table.
SnapshotFresh ==
    \A j \in sweep.todo :
        sweep.seen[j].status = marker[j].status /\ marker[j].status \in Unfinalized

SweepInOrder ==
    /\ sweep.pc \in {"check", "destroy", "recheck", "confirm"} => marker[Cur].status = "pending"
    /\ sweep.pc \in {"finalize", "close"} => marker[Cur].status = "destroy_confirmed"

Orderly == SweepAlone /\ JobsInOrder /\ SnapshotFresh /\ SweepInOrder

\* A live erase_subject has no sweep beside it.
LEMMA LiveJob ==
    ASSUME SweepAlone, NEW j \in Jobs, InFlight(job[j].pc)
    PROVE  sweep = NoSweep /\ sweep.pc = "idle" /\ sweep.todo = {}
BY DEF SweepAlone, NoSweep

\* An idle sweep asks nothing of the markers.
LEMMA NoSweepInOrder ==
    ASSUME sweep' = NoSweep PROVE SweepAlone' /\ SnapshotFresh' /\ SweepInOrder'
BY DEF NoSweep, SweepAlone, SnapshotFresh, SweepInOrder

\* One step of erase_subject moves its own marker forward.
LEMMA EraseInOrder ==
    ASSUME IInv, Orderly, NEW j \in Jobs, EraseProgress(j)
    PROVE  Orderly' /\ StatusKept
<1> USE DEF IInv, Orderly, stores, durable, world
<1>1. InFlight(job[j].pc) /\ UNCHANGED sweep
  BY DEF EraseProgress, AppendPending, EraseDestroysKey, AppendConfirmed, EraseFinalizes,
         AppendFinalized, EraseFails, JobAt, InFlight
<1>2. sweep' = NoSweep
  BY <1>1, LiveJob
<1>3. CASE AppendPending(j)
  <2>1. /\ marker[j].status = "none" /\ marker'[j].status = "pending"
        /\ \A k \in Jobs \ {j} : marker'[k] = marker[k]
    BY <1>3 DEF AppendPending, JobAt, FreshJobs, TypeOK
  <2>2. \A k \in Jobs : job'[k].pc = IF k = j THEN "destroy" ELSE job[k].pc
    BY <1>3, JobGoesTo DEF AppendPending, JobPc
  <2> QED
    BY <1>2, <2>1, <2>2, NoSweepInOrder DEF JobsInOrder, StatusKept
<1>4. CASE AppendConfirmed(j)
  <2>1. /\ job[j].pc = "confirm"
        /\ \A k \in Jobs : /\ marker'[k].status = IF k = j THEN "destroy_confirmed" ELSE marker[k].status
                           /\ job'[k].pc = IF k = j THEN "finalize" ELSE job[k].pc
    BY <1>4, JobGoesTo, Upserted, ConstantsAssumption DEF AppendConfirmed, JobAt, JobPc, MarkerStatus
  <2> QED
    BY <1>2, <2>1, NoSweepInOrder DEF JobsInOrder, StatusKept
<1>5. CASE AppendFinalized(j)
  <2>1. /\ job[j].pc = "close"
        /\ \A k \in Jobs : /\ marker'[k].status = IF k = j THEN "finalized" ELSE marker[k].status
                           /\ job'[k].pc = IF k = j THEN "done" ELSE job[k].pc
    BY <1>5, JobGoesTo, Upserted, ConstantsAssumption DEF AppendFinalized, JobAt, JobPc, MarkerStatus
  <2> QED
    BY <1>2, <2>1, NoSweepInOrder DEF JobsInOrder, StatusKept
<1>6. CASE EraseDestroysKey(j) \/ EraseFinalizes(j) \/ EraseFails(j)
  <2>1. PICK p \in JobPc :
           /\ JobGoes(j, p) /\ UNCHANGED marker
           /\ p \in {"raised", "confirm", "close"}
           /\ p = "confirm" => job[j].pc = "destroy"
           /\ p = "close" => job[j].pc = "finalize"
    BY <1>6 DEF EraseDestroysKey, EraseFinalizes, EraseFails, JobAt, JobPc
  <2>2. \A k \in Jobs : job'[k].pc = IF k = j THEN p ELSE job[k].pc
    BY <2>1, JobGoesTo
  <2> QED
    BY <1>2, <2>1, <2>2, NoSweepInOrder DEF JobsInOrder, StatusKept
<1> QED
  BY <1>3, <1>4, <1>5, <1>6 DEF EraseProgress

\* One step of the sweep on the current marker: it moves that row as erase_subject
\* would have, and leaves the others as it read them.
LEMMA SweepStepInOrder ==
    ASSUME IInv, Orderly, UNCHANGED job,
           NEW m \in Jobs, m = Cur, sweep.pc \notin {"idle", "next"},
           sweep'.pc \in SweepPc \ {"idle"}, sweep'.todo = sweep.todo,
           \A k \in Jobs \ {m} : sweep'.seen[k].status = sweep.seen[k].status,
           \A k \in Jobs \ {m} : marker'[k].status = marker[k].status,
           sweep'.pc # "next" => sweep'.cur = m,
           sweep'.pc \in {"check", "destroy", "recheck", "confirm"} => marker'[m].status = "pending",
           sweep'.pc \in {"finalize", "close"} => marker'[m].status = "destroy_confirmed",
           \/ marker'[m].status = marker[m].status
           \/ marker[m].status = "pending"
           \/ marker[m].status = "destroy_confirmed" /\ marker'[m].status = "finalized"
    PROVE  Orderly' /\ StatusKept
<1> USE DEF Orderly
<1>1. \A j \in Jobs : ~InFlight(job[j].pc)
  BY DEF SweepAlone, NoSweep
<1>2. SweepAlone' /\ JobsInOrder'
  BY <1>1 DEF SweepAlone, JobsInOrder, InFlight
<1>3. m \notin sweep.todo /\ sweep.todo \subseteq Jobs
  BY DEF IInv, CurNotInTodo, TypeOK, Sweep
<1>4. SnapshotFresh'
  BY <1>3 DEF SnapshotFresh
<1>5. SweepInOrder'
  BY DEF SweepInOrder, Cur
<1>6. StatusKept
  BY DEF StatusKept
<1> QED
  BY <1>2, <1>4, <1>5, <1>6

\* Every step of the sweep keeps the order of the markers.
LEMMA SweepInOrderStep ==
    ASSUME ~OverlappingSweep, IInv, Orderly, SweepProgress
    PROVE  Orderly' /\ StatusKept
<1> USE DEF IInv, Orderly, stores, durable, world
<1>0. PICK m \in Jobs : m = Cur
  BY DEF TypeOK, Sweep, Cur
<1>1. CASE StartSweep
  <2>1. /\ UNCHANGED <<marker, job>> /\ \A j \in Jobs : ~InFlight(job[j].pc)
        /\ sweep'.pc = "next" /\ sweep'.seen = marker
        /\ sweep'.todo = {j \in Jobs : marker[j].status \in Unfinalized}
    BY <1>1 DEF StartSweep, TypeOK, Sweep
  <2> QED
    BY <2>1 DEF SweepAlone, JobsInOrder, SnapshotFresh, SweepInOrder, StatusKept
<1>2. ASSUME NEW j \in Jobs, SweepNext(j) PROVE Orderly' /\ StatusKept
  <2>1. /\ UNCHANGED <<marker, job>> /\ sweep.pc = "next" /\ j \in sweep.todo
        /\ sweep'.cur = j /\ sweep'.todo = sweep.todo \ {j} /\ sweep'.seen = sweep.seen
        /\ sweep'.pc = IF sweep.seen[j].status = "destroy_confirmed" THEN "finalize" ELSE "check"
    BY <1>2 DEF SweepNext, TypeOK, Sweep
  <2>2. SweepAlone'
    BY <2>1 DEF SweepAlone, NoSweep
  <2> QED
    BY <2>1, <2>2 DEF JobsInOrder, SnapshotFresh, SweepInOrder, StatusKept, Cur, Unfinalized
<1>3. CASE sweep' = NoSweep /\ UNCHANGED <<marker, job>>
  BY <1>3, NoSweepInOrder DEF JobsInOrder, StatusKept
<1>4. CASE SweepEnds \/ SweepAppendFails
  BY <1>3, <1>4 DEF SweepEnds, SweepAppendFails
<1>5. CASE SweepCheckKey
  <2>1. sweep.pc = "check" /\ UNCHANGED <<marker, job>> /\ marker[m].status = "pending"
    BY <1>0, <1>5 DEF SweepCheckKey, SweepInOrder
  <2>2. CASE SweepResumes
    BY <1>0, <2>1, <2>2, SweepResumed, SweepStepInOrder DEF SweepPc
  <2>3. ASSUME NEW p \in {"confirm", "destroy"}, SweepGoes(p) PROVE Orderly' /\ StatusKept
    BY <1>0, <2>1, <2>3, SweepGoesTo, SweepStepInOrder DEF SweepPc, Cur
  <2> QED
    BY <1>5, <2>2, <2>3 DEF SweepCheckKey
<1>6. CASE SweepRetriesDestroy
  <2>1. sweep.pc = "destroy" /\ UNCHANGED <<marker, job>> /\ marker[m].status = "pending"
    BY <1>0, <1>6 DEF SweepRetriesDestroy, SweepInOrder
  <2>2. /\ sweep'.pc = "recheck" /\ sweep'.cur = m /\ sweep'.todo = sweep.todo
        /\ \A k \in Jobs \ {m} : sweep'.seen[k] = sweep.seen[k]
    BY <1>0, <1>6 DEF SweepRetriesDestroy, TypeOK, Sweep, Cur
  <2> QED
    BY <1>0, <2>1, <2>2, SweepStepInOrder DEF SweepPc
<1>7. ASSUME NEW st \in MarkerStatus, Upsert(Cur, st, CurRetry)
      PROVE  \A k \in Jobs : marker'[k].status = IF k = m THEN st ELSE marker[k].status
  <2>1. CurRetry \in 0..MaxRetries
    BY <1>0 DEF CurRetry, Cur, TypeOK, Sweep, Marker
  <2> QED
    BY <1>0, <1>7, <2>1, Upserted
<1>8. CASE SweepRechecksKey
  <2>1. sweep.pc = "recheck" /\ UNCHANGED job /\ marker[m].status = "pending"
    BY <1>0, <1>8 DEF SweepRechecksKey, SweepInOrder
  <2>2. CASE SweepGoes("confirm") /\ UNCHANGED marker
    BY <1>0, <2>1, <2>2, SweepGoesTo, SweepStepInOrder DEF SweepPc, Cur
  <2>3. CASE Upsert(Cur, "pending", CurRetry) /\ SweepGoes("destroy")
    <3>1. \A k \in Jobs : marker'[k].status = IF k = m THEN "pending" ELSE marker[k].status
      BY <1>7, <2>3 DEF MarkerStatus
    <3> QED
      BY <1>0, <2>1, <2>3, <3>1, SweepGoesTo, SweepStepInOrder DEF SweepPc, Cur
  <2> QED
    BY <1>3, <1>8, <2>1, <2>2, <2>3 DEF SweepRechecksKey
<1>9. CASE SweepGivesUp
  <2>1. /\ sweep.pc = "destroy" /\ UNCHANGED job /\ marker[m].status = "pending"
        /\ \A k \in Jobs : marker'[k].status = IF k = m THEN "failed" ELSE marker[k].status
    BY <1>0, <1>7, <1>9 DEF SweepGivesUp, SweepInOrder, MarkerStatus
  <2> QED
    BY <1>0, <1>9, <2>1, SweepResumed, SweepStepInOrder DEF SweepGivesUp, SweepPc
<1>10. CASE SweepConfirms
  <2>1. /\ sweep.pc = "confirm" /\ UNCHANGED job /\ marker[m].status = "pending"
        /\ \A k \in Jobs : marker'[k].status = IF k = m THEN "destroy_confirmed" ELSE marker[k].status
    BY <1>0, <1>7, <1>10 DEF SweepConfirms, SweepInOrder, MarkerStatus
  <2> QED
    BY <1>0, <1>10, <2>1, SweepGoesTo, SweepStepInOrder DEF SweepConfirms, SweepPc, Cur
<1>11. CASE SweepFinalizes \/ SweepFinalizeFails
  <2>1. /\ sweep.pc = "finalize" /\ UNCHANGED <<marker, job>>
        /\ marker[m].status = "destroy_confirmed"
    BY <1>0, <1>11 DEF SweepFinalizes, SweepFinalizeFails, SweepInOrder
  <2>2. CASE SweepGoes("close")
    BY <1>0, <2>1, <2>2, SweepGoesTo, SweepStepInOrder DEF SweepPc, Cur
  <2> QED
    BY <1>3, <1>11, <2>1, <2>2 DEF SweepFinalizes, SweepFinalizeFails
<1>12. CASE SweepCloses
  <2>1. /\ sweep.pc = "close" /\ UNCHANGED job /\ marker[m].status = "destroy_confirmed"
        /\ \A k \in Jobs : marker'[k].status = IF k = m THEN "finalized" ELSE marker[k].status
    BY <1>0, <1>7, <1>12 DEF SweepCloses, SweepInOrder, MarkerStatus
  <2> QED
    BY <1>0, <1>12, <2>1, SweepResumed, SweepStepInOrder DEF SweepCloses, SweepPc
<1> QED
  BY <1>1, <1>2, <1>4, <1>5, <1>6, <1>8, <1>9, <1>10, <1>11, <1>12 DEF SweepProgress

\* Every step keeps the order of the markers.
LEMMA OrderlyStep ==
    ASSUME ~OverlappingSweep, IInv, Orderly, [Next]_vars
    PROVE  Orderly' /\ StatusKept
<1> USE DEF IInv, Orderly, stores, durable, world
<1>1. ASSUME NEW j \in Jobs, NEW s \in Subjects, StartErase(j, s) PROVE Orderly' /\ StatusKept
  <2>1. /\ sweep.pc = "idle" /\ UNCHANGED <<marker, sweep>> /\ job'[j].pc = "mark"
        /\ \A k \in Jobs \ {j} : job'[k] = job[k]
    BY <1>1 DEF StartErase, TypeOK
  <2>2. sweep' = NoSweep
    BY <2>1 DEF SweepAlone
  <2> QED
    BY <2>1, <2>2, NoSweepInOrder DEF JobsInOrder, StatusKept
<1>2. CASE Crash
  <2>1. /\ sweep' = NoSweep /\ UNCHANGED marker
        /\ \A k \in Jobs : InFlight(job'[k].pc) => job'[k] = job[k]
    BY <1>2 DEF Crash, TypeOK, Job, InFlight
  <2> QED
    BY <2>1, NoSweepInOrder DEF JobsInOrder, StatusKept, InFlight
<1>3. CASE UNCHANGED <<marker, job, sweep>>
  BY <1>3 DEF SweepAlone, JobsInOrder, SnapshotFresh, SweepInOrder, Cur, StatusKept
<1>4. ASSUME NEW c \in Calls, ArchiveStep(c) PROVE Orderly' /\ StatusKept
  BY <1>3, <1>4 DEF ArchiveStep, StartArchive, MintKey, RereadKey, WriteBlob, RecordItem, ArchiveFails
<1>5. CASE KeyStoreDown \/ KeyStoreUp \/ UNCHANGED vars
  BY <1>3, <1>5 DEF KeyStoreDown, KeyStoreUp, vars
<1> QED
  BY <1>1, <1>2, <1>4, <1>5, EraseInOrder, SweepInOrderStep DEF Next

\* The initial state is in order.
LEMMA OrderlyInit == Init => Orderly
BY DEF Init, Orderly, SweepAlone, JobsInOrder, SnapshotFresh, SweepInOrder, NoSweep

\* Which calls take a key away, and behind which marker.
LEMMA DestroyIsMarked ==
    ASSUME IInv, ~OverlappingSweep => JobsInOrder /\ SweepInOrder, Next,
           NEW s \in Subjects, keyOf[s] # NoKey, keyOf'[s] = NoKey, crashes' = crashes
    PROVE  \E j \in Jobs :
              /\ DestroysFor(j)
              /\ marker[j].subject = s /\ marker[j].status # "none"
              /\ OverlappingSweep \/ marker[j].status = "pending"
<1> USE DEF IInv, stores, durable, world
<1>1. ~Crash
  BY DEF Crash, TypeOK
<1>2. ASSUME NEW c \in Calls, MintKey(c) PROVE FALSE
  BY <1>2, ConstantsAssumption DEF MintKey, TypeOK, Call, NoKey
<1>3. ASSUME NEW j \in Jobs, EraseDestroysKey(j)
      PROVE  /\ DestroysFor(j)
             /\ marker[j].subject = s /\ marker[j].status # "none"
             /\ OverlappingSweep \/ marker[j].status = "pending"
  <2>1. job[j].pc = "destroy" /\ job'[j].pc = "confirm"
    BY <1>3 DEF EraseDestroysKey, JobAt, JobGoes, TypeOK, Job
  <2>2. marker[j].subject = s /\ marker[j].status # "none"
    BY <1>3 DEF EraseDestroysKey, DestroyKey, JobAt, MarkedJobs, Marked, TypeOK, Job
  <2> QED
    BY <2>1, <2>2 DEF DestroysFor, JobAt, JobsInOrder
<1>4. ASSUME SweepRetriesDestroy
      PROVE  /\ Cur \in Jobs /\ DestroysFor(Cur)
             /\ marker[Cur].subject = s /\ marker[Cur].status # "none"
             /\ OverlappingSweep \/ marker[Cur].status = "pending"
  <2>1. sweep.pc = "destroy" /\ sweep'.pc = "recheck"
    BY <1>4 DEF SweepRetriesDestroy, TypeOK, Sweep
  <2>2. Cur \in Jobs /\ marker[Cur].subject = s /\ marker[Cur].status # "none"
    BY <1>4 DEF SweepRetriesDestroy, DestroyKey, SnapshotHolds, Handled, Cur,
                CurSubject, TypeOK, Sweep, Marker
  <2>3. OverlappingSweep \/ marker[Cur].status = "pending"
    BY <2>1 DEF SweepInOrder
  <2> QED
    BY <2>1, <2>2, <2>3 DEF DestroysFor
<1>5. keyOf' # keyOf
  OBVIOUS
<1>6. \/ \E c \in Calls : MintKey(c)
      \/ \E j \in Jobs : EraseDestroysKey(j)
      \/ SweepRetriesDestroy
  BY <1>1, <1>5
     DEF Next, ArchiveStep, StartArchive, RereadKey, WriteBlob, RecordItem, ArchiveFails,
         StartErase, EraseProgress, AppendPending, AppendConfirmed, EraseFinalizes,
         AppendFinalized, EraseFails, SweepProgress, StartSweep, SweepNext, SweepEnds,
         SweepCheckKey, SweepRechecksKey, SweepGivesUp, SweepConfirms, SweepFinalizes,
         SweepFinalizeFails, SweepCloses, SweepAppendFails, KeyStoreDown, KeyStoreUp
<1> QED
  BY <1>2, <1>3, <1>4, <1>6

\* Outside a crash a key disappears only in a destroy_key call whose own marker
\* is durable, and still pending where sweeps run only after a restart.
THEOREM ErasureIsWriteAhead == Spec => WriteAhead
<1> DEFINE WInv == IInv /\ (~OverlappingSweep => Orderly)
<1>1. Init => WInv
  BY InitInv, OrderlyInit
<1>2. WInv /\ [Next]_vars => WInv'
  BY InvStep, OrderlyStep
<1>3. WInv /\ [Next]_vars => [WriteAheadStep]_vars
  BY DestroyIsMarked DEF WriteAheadStep, Orderly
<1> QED
  BY <1>1, <1>2, <1>3, PTL DEF Spec, WriteAhead

\* While sweeps run only after a restart, no marker goes back.
THEOREM MarkersMoveForward == ~OverlappingSweep /\ Spec => StatusNeverRegresses
<1> SUFFICES ASSUME ~OverlappingSweep PROVE Spec => StatusNeverRegresses
  OBVIOUS
<1>1. Init => IInv /\ Orderly
  BY InitInv, OrderlyInit
<1>2. IInv /\ Orderly /\ [Next]_vars => (IInv /\ Orderly)' /\ StatusKept
  BY InvStep, OrderlyStep
<1> QED
  BY <1>1, <1>2, PTL DEF Spec, StatusNeverRegresses

\* While sweeps run only after a restart, none destroys a key whose destruction
\* its marker already confirms.
THEOREM ConfirmedIsNotDestroyedAgain == ~OverlappingSweep /\ Spec => NeverRedestroysConfirmed
<1> SUFFICES ASSUME ~OverlappingSweep PROVE Spec => NeverRedestroysConfirmed
  OBVIOUS
<1>1. Init => IInv /\ Orderly
  BY InitInv, OrderlyInit
<1>2. IInv /\ Orderly /\ [Next]_vars => (IInv /\ Orderly)'
  BY InvStep, OrderlyStep
<1>3. IInv /\ Orderly => DestroysPending
  BY DEF Orderly, SweepInOrder, DestroysPending
<1> QED
  BY <1>1, <1>2, <1>3, PTL DEF Spec, NeverRedestroysConfirmed
=============================================================================
