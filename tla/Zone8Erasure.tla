---------------------------- MODULE Zone8Erasure ----------------------------
(***************************************************************************)
(* The durable crypto-shredding erasure of one data subject in Zone 8.     *)
(*                                                                         *)
(*   application/zone8_erasure_durability.py      the coordinator, the     *)
(*       write-ahead marker store, finalize and the recovery sweep         *)
(*   application/zone8_crypto_shredding_store.py  archive_for_subject,     *)
(*       the other user of the same key store                              *)
(*   infrastructure/in_memory_subject_key_store.py,                        *)
(*   infrastructure/in_memory_zone8_subject_index.py                       *)
(*                                                                         *)
(* One tenant.  A job is one DurableZone8ErasureCoordinator.erase_subject  *)
(* call and owns one marker; a call is one archive_for_subject call.  A    *)
(* key is the number of the generation that minted it, NoKey when absent.  *)
(***************************************************************************)
EXTENDS Naturals, FiniteSets

CONSTANTS
    Subjects,        \* data subjects (subject_id)
    Items,           \* archivable items (item_id)
    SubjectOf,       \* the subject each item belongs to
    Archived,        \* items archived before the behaviour starts
    Jobs,            \* erase_subject calls, each with a fresh marker_id
    Calls,           \* archive_for_subject calls
    MaxRetries,      \* _MAX_DESTROY_RETRIES
    MaxMints,        \* bound: keys minted per subject
    MaxCrashes,      \* bound: process crashes
    MaxFaults,       \* bound: failed database statements and key-store outages
    VolatileStores,  \* TRUE: key store and subject index live in the process
    SharedConnection,\* TRUE: marker store and finalize share one connection
    OverlappingSweep \* TRUE: a sweep may run while erase_subject calls are live

ASSUME ConstantsAssumption ==
    /\ Subjects # {} /\ Items # {} /\ Jobs # {}
    /\ SubjectOf \in [Items -> Subjects] /\ Archived \subseteq Items
    /\ MaxRetries \in Nat /\ MaxMints \in Nat
    /\ MaxCrashes \in Nat /\ MaxFaults \in Nat
    /\ {VolatileStores, SharedConnection, OverlappingSweep} \subseteq BOOLEAN

NoKey == 0

VARIABLES
    keyOf,    \* _keys: the generation of the key each subject has now
    minted,   \* generations minted so far
    blobs,    \* ciphertext in Zone 8: [item, gen], never rewritten
    indexed,  \* items recorded in the Zone 8 subject index
    marker,   \* zone8_erasure_markers, one row per job
    covers,   \* history: the last generation minted when the marker was appended
    prov,     \* jobs whose provenance record has been committed
    job,      \* the running erase_subject calls
    call,     \* the running archive_for_subject calls
    sweep,    \* the running recover_pending_erasures call
    kms,      \* whether the key store answers
    crashes, faults

vars == <<keyOf, minted, blobs, indexed, marker, covers, prov,
          job, call, sweep, kms, crashes, faults>>
stores == <<keyOf, minted, blobs, indexed>>
durable == <<marker, covers, prov>>
world == <<kms, crashes, faults>>

MarkerStatus == {"none", "pending", "destroy_confirmed", "finalized", "failed"}
\* Mutant: list_unfinalized forgets to exclude 'failed'.
NotFinalized == {"pending", "destroy_confirmed", "failed"}

Unfinalized == {"pending", "destroy_confirmed"}
Marker == [status: MarkerStatus, subject: Subjects, items: SUBSET Items, retry: 0..MaxRetries]

AnySubject == CHOOSE s \in Subjects : TRUE
AnyItem == CHOOSE i \in Items : TRUE
AnyJob == CHOOSE j \in Jobs : TRUE
NoMarker == [status |-> "none", subject |-> AnySubject, items |-> {}, retry |-> 0]
NoSweep == [pc |-> "idle", todo |-> {}, cur |-> AnyJob, seen |-> [j \in Jobs |-> NoMarker]]

JobPc == {"idle", "mark", "destroy", "confirm", "finalize", "close",
          "done", "raised", "dead"}
CallPc == {"idle", "mint", "reread", "write", "index", "done", "raised", "dead"}
SweepPc == {"idle", "next", "check", "destroy", "recheck", "confirm", "finalize", "close"}

Job == [pc: JobPc, subject: Subjects, items: SUBSET Items]
Call == [pc: CallPc, item: Items, gen: Nat]
Sweep == [pc: SweepPc, todo: SUBSET Jobs, cur: Jobs, seen: [Jobs -> Marker]]

InFlight(pc) == pc \notin {"idle", "done", "raised", "dead"}

\* The state is well formed; no marker counts more retries than the limit.
TypeOK ==
    /\ keyOf \in [Subjects -> Nat]
    /\ minted \in [Subjects -> Nat]
    /\ blobs \subseteq [item: Items, gen: Nat]
    /\ indexed \subseteq Items
    /\ marker \in [Jobs -> Marker]
    /\ covers \in [Jobs -> Nat]
    /\ prov \subseteq Jobs
    /\ job \in [Jobs -> Job]
    /\ call \in [Calls -> Call]
    /\ sweep \in Sweep
    /\ kms \in {"up", "down"}
    /\ crashes \in 0..MaxCrashes
    /\ faults \in 0..MaxFaults

Init ==
    /\ minted = [s \in Subjects |-> IF \E i \in Archived : SubjectOf[i] = s THEN 1 ELSE 0]
    /\ keyOf = minted
    /\ blobs = {[item |-> i, gen |-> 1] : i \in Archived} /\ indexed = Archived
    /\ marker = [j \in Jobs |-> NoMarker]
    /\ job = [j \in Jobs |-> [pc |-> "idle", subject |-> AnySubject, items |-> {}]]
    /\ call = [c \in Calls |-> [pc |-> "idle", item |-> AnyItem, gen |-> NoKey]]
    /\ sweep = NoSweep
    /\ covers = [k \in Jobs |-> 0]
    /\ prov = {}
    /\ kms = "up" /\ crashes = 0 /\ faults = 0

-----------------------------------------------------------------------------
(* Environment: the key store and the database fail, the process crashes. *)

Fault == faults < MaxFaults /\ faults' = faults + 1

KeyStoreDown ==
    /\ kms = "up" /\ kms' = "down" /\ Fault
    /\ UNCHANGED <<stores, durable, job, call, sweep, crashes>>

KeyStoreUp ==
    /\ kms = "down" /\ kms' = "up"
    /\ UNCHANGED <<stores, durable, job, call, sweep, crashes, faults>>

\* Everything the process was doing is lost, and with it whatever it kept in
\* memory; markers, provenance records and blobs are on disk.
Crash ==
    /\ crashes < MaxCrashes /\ crashes' = crashes + 1
    /\ job' = [j \in Jobs |->
                 IF InFlight(job[j].pc) THEN [job[j] EXCEPT !.pc = "dead"] ELSE job[j]]
    /\ call' = [c \in Calls |->
                 IF InFlight(call[c].pc) THEN [call[c] EXCEPT !.pc = "dead"] ELSE call[c]]
    /\ sweep' = NoSweep
    /\ keyOf' = IF VolatileStores THEN [s \in Subjects |-> NoKey] ELSE keyOf
    /\ indexed' = IF VolatileStores THEN {} ELSE indexed
    /\ UNCHANGED <<minted, blobs, durable, kms, faults>>

-----------------------------------------------------------------------------
(* Helpers: the upsert of a marker, the key-store calls, the index query. *)

\* _UPSERT_MARKER_SQL replaces status and retry_count of an existing row.
Upsert(j, status, retry) ==
    marker' = [marker EXCEPT ![j].status = status, ![j].retry = retry]

DestroyKey(s) == keyOf' = [keyOf EXCEPT ![s] = NoKey]

FindItemIds(s) ==
    {i \in IF VolatileStores THEN indexed ELSE {b.item : b \in blobs} : SubjectOf[i] = s}

JobAt(j, pc) == job[j].pc = pc
JobGoes(j, pc) == job' = [job EXCEPT ![j].pc = pc]
CallAt(c, pc) == call[c].pc = pc
CallGoes(c, pc) == call' = [call EXCEPT ![c].pc = pc]
SweepGoes(pc) == sweep' = [sweep EXCEPT !.pc = pc]

-----------------------------------------------------------------------------
(* archive_for_subject: seal under the subject's key, write, index. *)

\* get_or_create_key, first statement: `if key not in self._keys`.  A key store
\* that is down raises before anything changed: no step.
StartArchive(c, i) ==
    /\ CallAt(c, "idle") /\ kms = "up"
    /\ call' = [call EXCEPT ![c] = [item |-> i, gen |-> NoKey,
                  pc |-> IF keyOf[SubjectOf[i]] = NoKey THEN "mint" ELSE "reread"]]
    /\ UNCHANGED <<stores, durable, job, sweep, world>>

\* second statement: a fresh key replaces whatever is there by now.
MintKey(c) ==
    LET s == SubjectOf[call[c].item] IN
    /\ CallAt(c, "mint") /\ minted[s] < MaxMints
    /\ minted' = [minted EXCEPT ![s] = @ + 1]
    /\ keyOf' = [keyOf EXCEPT ![s] = minted[s] + 1]
    /\ CallGoes(c, "reread")
    /\ UNCHANGED <<blobs, indexed, durable, job, sweep, world>>

\* `return self._keys[key]`: the key may have been destroyed (KeyError) or
\* replaced since.  The payload is sealed under what is returned.
RereadKey(c) ==
    LET k == keyOf[SubjectOf[call[c].item]] IN
    /\ CallAt(c, "reread")
    /\ call' = [call EXCEPT ![c].pc = IF k = NoKey THEN "raised" ELSE "write", ![c].gen = k]
    /\ UNCHANGED <<stores, durable, job, sweep, world>>

\* consolidate_batch: the one-item batch is written ...
WriteBlob(c) ==
    /\ CallAt(c, "write")
    /\ blobs' = blobs \union {[item |-> call[c].item, gen |-> call[c].gen]}
    /\ CallGoes(c, "index")
    /\ UNCHANGED <<keyOf, minted, indexed, durable, job, sweep, world>>

\* ... then record_item indexes it under its subject.
RecordItem(c) ==
    /\ CallAt(c, "index")
    /\ indexed' = indexed \union {call[c].item}
    /\ CallGoes(c, "done")
    /\ UNCHANGED <<keyOf, minted, blobs, durable, job, sweep, world>>

\* The batch is deferred or rejected: nothing is written.
ArchiveFails(c) ==
    /\ CallAt(c, "write") /\ Fault
    /\ CallGoes(c, "raised")
    /\ UNCHANGED <<stores, durable, job, sweep, kms, crashes>>

-----------------------------------------------------------------------------
(* DurableZone8ErasureCoordinator.erase_subject. *)

\* Mutant: a subject that has a marker of an earlier erasure gets no new one.
StartEraseOnceMarked(j, s) ==
    /\ JobAt(j, "idle") /\ (OverlappingSweep \/ sweep.pc = "idle")
    /\ job' = [job EXCEPT ![j] =
         [pc |-> IF \E k \in Jobs : marker[k].subject = s /\ marker[k].status # "none"
                   THEN "destroy" ELSE "mark",
          subject |-> s, items |-> FindItemIds(s)]]
    /\ UNCHANGED <<stores, durable, call, sweep, world>>

\* find_item_ids comes first; the items it returns go into the marker.
StartErase(j, s) ==
    /\ JobAt(j, "idle") /\ (OverlappingSweep \/ sweep.pc = "idle")
    /\ job' = [job EXCEPT ![j] = [pc |-> "mark", subject |-> s, items |-> FindItemIds(s)]]
    /\ UNCHANGED <<stores, durable, call, sweep, world>>

AppendPending(j) ==
    /\ JobAt(j, "mark")
    /\ marker' = [marker EXCEPT ![j] =
         [status |-> "pending", subject |-> job[j].subject, items |-> job[j].items, retry |-> 0]]
    /\ covers' = [covers EXCEPT ![j] = minted[job[j].subject]]
    /\ JobGoes(j, "destroy")
    /\ UNCHANGED <<stores, prov, call, sweep, world>>

\* Mutant: an error of destroy_key is swallowed.
EraseIgnoresDestroyError(j) ==
    /\ JobAt(j, "destroy")
    /\ IF kms = "up" THEN DestroyKey(job[j].subject) ELSE UNCHANGED keyOf
    /\ JobGoes(j, "confirm")
    /\ UNCHANGED <<minted, blobs, indexed, durable, call, sweep, world>>

EraseDestroysKey(j) ==
    /\ JobAt(j, "destroy") /\ kms = "up"
    /\ DestroyKey(job[j].subject)
    /\ JobGoes(j, "confirm")
    /\ UNCHANGED <<minted, blobs, indexed, durable, call, sweep, world>>

AppendConfirmed(j) ==
    /\ JobAt(j, "confirm")
    /\ Upsert(j, "destroy_confirmed", 0)
    /\ JobGoes(j, "finalize")
    /\ UNCHANGED <<stores, covers, prov, call, sweep, world>>

\* _finalize: one transaction inserts the record and deletes the index rows.
\* The primary key refuses a second record of the same marker.
EraseFinalizes(j) ==
    /\ JobAt(j, "finalize")
    /\ JobGoes(j, IF j \in prov THEN "raised" ELSE "close")
    /\ prov' = prov \union {j}
    /\ UNCHANGED <<stores, marker, covers, call, sweep, world>>

AppendFinalized(j) ==
    /\ JobAt(j, "close")
    /\ Upsert(j, "finalized", 0)
    /\ JobGoes(j, "done")
    /\ UNCHANGED <<stores, covers, prov, call, sweep, world>>

\* The marker store, the key store or the transaction fails and the
\* exception leaves erase_subject.  A transaction whose acknowledgement is lost
\* has committed all the same.
EraseFails(j) ==
    /\ \/ job[j].pc \in {"mark", "confirm", "close"} /\ Fault /\ UNCHANGED prov
       \/ JobAt(j, "destroy") /\ kms = "down" /\ UNCHANGED <<faults, prov>>
       \/ JobAt(j, "finalize") /\ Fault /\ prov' \in {prov, prov \union {j}}
    /\ JobGoes(j, "raised")
    /\ UNCHANGED <<stores, marker, covers, call, sweep, kms, crashes>>

-----------------------------------------------------------------------------
(* recover_pending_erasures. *)

Cur == sweep.cur
CurSubject == sweep.seen[Cur].subject
CurRetry == sweep.seen[Cur].retry

\* On to the next marker of the loop.
SweepResumes ==
    sweep' = [sweep EXCEPT !.pc = "next", !.cur = AnyJob, !.seen[Cur] = NoMarker]

\* Mutant: only pending markers are listed.
StartSweepPendingOnly ==
    /\ sweep.pc = "idle"
    /\ OverlappingSweep \/ \A j \in Jobs : ~InFlight(job[j].pc)
    /\ LET found == {j \in Jobs : marker[j].status = "pending"} IN
       /\ found # {}
       /\ sweep' = [sweep EXCEPT !.pc = "next", !.todo = found, !.seen = marker]
    /\ UNCHANGED <<stores, durable, job, call, world>>

\* list_unfinalized returns copies: later decisions use them, not the table.
StartSweep ==
    /\ sweep.pc = "idle"
    /\ OverlappingSweep \/ \A j \in Jobs : ~InFlight(job[j].pc)
    /\ LET found == {j \in Jobs : marker[j].status \in Unfinalized} IN
       /\ found # {}
       /\ sweep' = [sweep EXCEPT !.pc = "next", !.todo = found, !.seen = marker]
    /\ UNCHANGED <<stores, durable, job, call, world>>

\* Mutant: a confirmed marker is treated like a pending one.
SweepNextAlwaysChecks(j) ==
    /\ sweep.pc = "next" /\ j \in sweep.todo
    /\ sweep' = [sweep EXCEPT !.cur = j, !.todo = @ \ {j}, !.pc = "check"]
    /\ UNCHANGED <<stores, durable, job, call, world>>

SweepNext(j) ==
    /\ sweep.pc = "next" /\ j \in sweep.todo
    /\ sweep' = [sweep EXCEPT !.cur = j, !.todo = @ \ {j}, !.pc =
         IF sweep.seen[j].status = "destroy_confirmed" THEN "finalize" ELSE "check"]
    /\ UNCHANGED <<stores, durable, job, call, world>>

SweepEnds ==
    /\ sweep.pc = "next" /\ sweep.todo = {}
    /\ sweep' = NoSweep
    /\ UNCHANGED <<stores, durable, job, call, world>>

\* A key store that cannot be queried leaves the marker for a later sweep.
SweepCheckKey ==
    /\ sweep.pc = "check"
    /\ IF kms = "down" THEN SweepResumes
       ELSE SweepGoes(IF keyOf[CurSubject] = NoKey THEN "confirm" ELSE "destroy")
    /\ UNCHANGED <<stores, durable, job, call, world>>

\* Mutant: off by one in the bound of the loop.
SweepRetriesOnceMore ==
    /\ sweep.pc = "destroy" /\ CurRetry <= MaxRetries
    /\ IF kms = "up" THEN DestroyKey(CurSubject) ELSE UNCHANGED keyOf
    /\ sweep' = [sweep EXCEPT !.pc = "recheck", !.seen[Cur].retry = @ + 1]
    /\ UNCHANGED <<minted, blobs, indexed, durable, job, call, world>>

\* One turn of the retry loop: a destroy_key that raises counts as a retry.
SweepRetriesDestroy ==
    /\ sweep.pc = "destroy" /\ CurRetry < MaxRetries
    /\ IF kms = "up" THEN DestroyKey(CurSubject) ELSE UNCHANGED keyOf
    /\ sweep' = [sweep EXCEPT !.pc = "recheck", !.seen[Cur].retry = @ + 1]
    /\ UNCHANGED <<minted, blobs, indexed, durable, job, call, world>>

\* Mutant: the retry is trusted and the key not looked up again.
SweepTrustsRetry ==
    /\ sweep.pc = "recheck"
    /\ SweepGoes("confirm")
    /\ UNCHANGED <<stores, durable, job, call, world>>

\* get_key after the retry: its exception is not caught and ends the sweep.
SweepRechecksKey ==
    /\ sweep.pc = "recheck"
    /\ \/ /\ kms = "down"
          /\ sweep' = NoSweep /\ UNCHANGED durable
       \/ /\ kms = "up" /\ keyOf[CurSubject] = NoKey
          /\ SweepGoes("confirm") /\ UNCHANGED durable
       \/ /\ kms = "up" /\ keyOf[CurSubject] # NoKey
          /\ Upsert(Cur, "pending", CurRetry)
          /\ SweepGoes("destroy") /\ UNCHANGED <<covers, prov>>
    /\ UNCHANGED <<stores, job, call, world>>

SweepGivesUp ==
    /\ sweep.pc = "destroy" /\ CurRetry >= MaxRetries
    /\ Upsert(Cur, "failed", CurRetry)
    /\ SweepResumes
    /\ UNCHANGED <<stores, covers, prov, job, call, world>>

SweepConfirms ==
    /\ sweep.pc = "confirm"
    /\ Upsert(Cur, "destroy_confirmed", CurRetry)
    /\ SweepGoes("finalize")
    /\ UNCHANGED <<stores, covers, prov, job, call, world>>

SweepFinalizes ==
    /\ sweep.pc = "finalize" /\ Cur \notin prov
    /\ prov' = prov \union {Cur}
    /\ SweepGoes("close")
    /\ UNCHANGED <<stores, marker, covers, job, call, world>>

\* _recover_finalize_only swallows every failure of _finalize, the duplicate key
\* of an applied finalize and any other, and goes on to close the marker; when
\* the marker store uses the connection whose transaction just failed, that
\* append raises and the sweep ends.
SweepFinalizeFails ==
    /\ sweep.pc = "finalize"
    /\ \/ Cur \in prov /\ UNCHANGED <<prov, faults>>
       \/ Fault /\ prov' \in {prov, prov \union {Cur}}
    /\ IF SharedConnection THEN sweep' = NoSweep ELSE SweepGoes("close")
    /\ UNCHANGED <<stores, marker, covers, job, call, kms, crashes>>

SweepCloses ==
    /\ sweep.pc = "close"
    /\ Upsert(Cur, "finalized", CurRetry)
    /\ SweepResumes
    /\ UNCHANGED <<stores, covers, prov, job, call, world>>

\* A marker-store write that raises ends the sweep.
SweepAppendFails ==
    /\ \/ sweep.pc \in {"confirm", "close"}
       \/ sweep.pc = "recheck" /\ kms = "up" /\ keyOf[CurSubject] # NoKey
       \/ sweep.pc = "destroy" /\ CurRetry >= MaxRetries
    /\ Fault
    /\ sweep' = NoSweep
    /\ UNCHANGED <<stores, durable, job, call, kms, crashes>>

-----------------------------------------------------------------------------
ArchiveStep(c) ==
    \/ \E i \in Items : StartArchive(c, i)
    \/ MintKey(c) \/ RereadKey(c)
    \/ WriteBlob(c) \/ RecordItem(c) \/ ArchiveFails(c)

EraseProgress(j) ==
    \/ AppendPending(j) \/ EraseDestroysKey(j) \/ AppendConfirmed(j)
    \/ EraseFinalizes(j) \/ AppendFinalized(j) \/ EraseFails(j)

SweepProgress ==
    \/ StartSweep \/ (\E j \in Jobs : SweepNext(j)) \/ SweepEnds
    \/ SweepCheckKey \/ SweepRetriesDestroy \/ SweepRechecksKey \/ SweepGivesUp
    \/ SweepConfirms \/ SweepFinalizes \/ SweepFinalizeFails \/ SweepCloses
    \/ SweepAppendFails

Next ==
    \/ \E c \in Calls : ArchiveStep(c)
    \/ \E j \in Jobs, s \in Subjects : StartErase(j, s)
    \/ \E j \in Jobs : EraseProgress(j)
    \/ SweepProgress
    \/ KeyStoreDown \/ KeyStoreUp \/ Crash

Spec == Init /\ [][Next]_vars

\* A running call keeps running; the host of the process repeats the sweep as
\* long as there is something to recover (nothing in src schedules it); and
\* every outage of the key store ends.
FairSpec == /\ Spec
            /\ \A j \in Jobs : WF_vars(EraseProgress(j))
            /\ WF_vars(SweepProgress)
            /\ WF_vars(KeyStoreUp)

-----------------------------------------------------------------------------
(* Properties *)

\* What crypto-shredding promises for the marker of j: no key that existed when
\* the marker was appended will ever open a blob again.
Shredded(j) ==
    LET k == keyOf[marker[j].subject] IN k = NoKey \/ k > covers[j]

\* A marker that says the destroy is confirmed or finalized, and a committed
\* erasure record in Zone 7, are true of the key store: no interleaving of live
\* erasures, sweeps that act on stale copies of the markers, new keys minted by
\* concurrent archives and crashes closes an erasure whose key still exists.
ClosedMeansShredded ==
    \A j \in Jobs :
       (marker[j].status \in {"destroy_confirmed", "finalized"} \/ j \in prov) => Shredded(j)

\* An erase_subject that returned has its Zone 7 record, and every ciphertext of
\* the items it returned that was sealed before the marker is unreadable.
ReturnedMeansErased ==
    \A j \in Jobs : JobAt(j, "done") =>
       /\ j \in prov
       /\ \A b \in blobs : b.item \in job[j].items /\ b.gen <= covers[j]
              => keyOf[job[j].subject] # b.gen

\* The step is the destroy_key call made for the marker of job j, by its own
\* erase_subject or by the sweep.
DestroysFor(j) ==
    \/ JobAt(j, "destroy") /\ job'[j].pc = "confirm"
    \/ sweep.pc = "destroy" /\ sweep'.pc = "recheck" /\ Cur = j

\* The marker is a write-ahead entry (module docstring: "a durable, fsynced
\* marker BEFORE the destroy call"): outside a crash a key disappears only in a
\* destroy_key call whose own marker, of that very subject, is durable; the
\* marker of another erasure of the subject does not stand in for it.  Where
\* sweeps run only after a restart it still says pending, so that a crash in
\* the next moment leaves the call to the sweep; beside a live sweep it may
\* have moved on already.  The key itself may be younger than the marker.
WriteAheadStep ==
    \A s \in Subjects :
        keyOf[s] # NoKey /\ keyOf'[s] = NoKey /\ crashes' = crashes =>
           \E j \in Jobs :
              /\ DestroysFor(j)
              /\ marker[j].subject = s /\ marker[j].status # "none"
              /\ OverlappingSweep \/ marker[j].status = "pending"
WriteAhead == [][WriteAheadStep]_vars

\* While sweeps run only after a restart, a marker never goes back: what is
\* finalized or failed stays so, and what is confirmed is never pending again.
StatusKept ==
    \A j \in Jobs :
        /\ marker[j].status \in {"finalized", "failed"} => marker'[j].status = marker[j].status
        /\ marker[j].status = "destroy_confirmed" => marker'[j].status # "pending"
StatusNeverRegresses == [][StatusKept]_vars

\* The sweep never calls destroy_key for a marker whose destruction the table
\* already confirms ("retry finalize only, idempotent, never re-destroy").
DestroysPending == sweep.pc = "destroy" /\ sweep'.pc = "recheck" => marker[Cur].status = "pending"
NeverRedestroysConfirmed == [][DestroysPending]_vars

\* Every marker is eventually closed or escalated, whatever failed or crashed
\* on the way (recover_pending_erasures, zone8_erasure_durability.py:518-586) -
\* unless, on the one connection the composition gives to the marker store and
\* to finalize, a record that was committed before a crash stops every sweep
\* at its marker for good (lines 598-603, see README.md).
EveryMarkerCloses ==
    \/ \A j \in Jobs :
         marker[j].status \in Unfinalized ~> marker[j].status \in {"finalized", "failed"}
    \/ /\ SharedConnection
       /\ \E j \in Jobs : <>[](j \in prov /\ marker[j].status = "destroy_confirmed")
=============================================================================
