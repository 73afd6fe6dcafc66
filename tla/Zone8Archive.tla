---------------------------- MODULE Zone8Archive ----------------------------
(***************************************************************************)
(* Archiving into Zone 8: ArchiveEngine (archive_engine.py) runs weekly    *)
(* sweeps and fast-track calls, each of which re-scores its candidates,    *)
(* marks them ARCHIVED in their source zone, and hands them as one batch   *)
(* to Zone8ConsolidationStore, which merges their payloads into one        *)
(* content-addressed blob (LocalObjectStore: one directory for every       *)
(* tenant) and then inserts their manifest rows (SqlManifestRepository).   *)
(* Sweeps overlap; a call may fail at every port; the process may crash.   *)
(*                                                                         *)
(* Left out: tenants, and record_item, which writes nothing in SQL (the    *)
(* subject index is a query over the manifest).                            *)
(***************************************************************************)
EXTENDS Naturals, Sequences

CONSTANTS Items,       \* the items of the source zone, Compressed at first
          Payloads,    \* the contents an item may have
          PayloadOf,   \* PayloadOf[i]: the compressed payload of item i
          Sweeps,      \* concurrent calls of the engine
          Lists,       \* the candidate lists the host passes (a fast-track
                       \* call is a list of one)
          NoEntry,     \* find_by_item_id: None
          MaxFaults,   \* bound: failing port calls
          MaxCrashes   \* bound: process crashes

ASSUME ArchiveAssumption == /\ PayloadOf \in [Items -> Payloads]
                            /\ Lists \subseteq Seq(Items)
                            /\ MaxFaults \in Nat /\ MaxCrashes \in Nat

VARIABLES life,      \* life[i]: the RotationState in the source zone
          file,      \* file[b]: the payloads in the file of blob b; its
                     \* domain is the blobs whose file exists
          cut,       \* history: the blobs whose write failed or was stopped
          manifest,  \* manifest[i]: the row of i, or NoEntry
          job,       \* job[s]: where call s is
          events,    \* events[i]: memory.archived events published for i
          faults, crashes

vars == <<life, file, cut, manifest, job, events, faults, crashes>>

\* A blob is addressed by, and here is, the sequence of payloads merged in it.
\* What its file holds may be less.
Blobs == Seq(Payloads)
Entries == [blob : Blobs, at : Nat \ {0}]
ASSUME NoEntryAssumption == NoEntry \notin Entries

\* todo: candidates still to look at; marked: those marked ARCHIVED.
Jobs == [pc : {"idle", "read", "mark", "create", "write", "insert", "publish"},
         todo : Seq(Items), marked : Seq(Items)]

Done == [pc |-> "idle", todo |-> <<>>, marked |-> <<>>]

Init == /\ life = [i \in Items |-> "compressed"]
        /\ file = [b \in {} |-> <<>>] /\ cut = {}
        /\ manifest = [i \in Items |-> NoEntry]
        /\ job = [s \in Sweeps |-> Done]
        /\ events = [i \in Items |-> 0]
        /\ faults = 0 /\ crashes = 0

Continue(s, r) == job' = [job EXCEPT ![s] = r]
Goto(s, pc) == Continue(s, [job[s] EXCEPT !.pc = pc])
Fault == faults < MaxFaults /\ faults' = faults + 1

MarkedItems(s) == {job[s].marked[k] : k \in DOMAIN job[s].marked}

-----------------------------------------------------------------------------
(***************************************************************************)
(* run_weekly_archive_sweep and fast_track_archive: the candidates.        *)
(***************************************************************************)
Start(s) ==
  /\ job[s].pc = "idle"
  /\ \E list \in Lists : Continue(s, [Done EXCEPT !.pc = "read", !.todo = list])
  /\ UNCHANGED <<life, file, cut, manifest, events, faults, crashes>>

NextCandidate(s) ==
  Continue(s, [job[s] EXCEPT !.pc = "read", !.todo = Tail(@)])

\* current_state answers: the candidate is eligible and Compressed.
Evaluate(s) ==
  /\ job[s].pc = "read" /\ job[s].todo # <<>>
  /\ life[Head(job[s].todo)] = "compressed"
  /\ Goto(s, "mark")
  /\ UNCHANGED <<life, file, cut, manifest, events, faults, crashes>>

\* It is not Compressed, or its score is above ArchiveThreshold again.
Skip(s) ==
  /\ job[s].pc = "read" /\ job[s].todo # <<>>
  /\ NextCandidate(s)
  /\ UNCHANGED <<life, file, cut, manifest, events, faults, crashes>>

\* mark_archived.
Mark(s) ==
  LET i == Head(job[s].todo)
  IN  /\ job[s].pc = "mark"
      /\ life' = [life EXCEPT ![i] = "archived"]
      /\ Continue(s, [job[s] EXCEPT !.pc = "read", !.todo = Tail(@),
                                    !.marked = Append(@, i)])
      /\ UNCHANGED <<file, cut, manifest, events, faults, crashes>>

\* current_state or mark_archived raises: the candidate is a failure.
CandidateFails(s) ==
  /\ job[s].pc \in {"read", "mark"} /\ job[s].todo # <<>>
  /\ Fault
  /\ NextCandidate(s)
  /\ UNCHANGED <<life, file, cut, manifest, events, crashes>>

\* No candidate is left: nothing was marked, or consolidate_batch is called.
EndCandidates(s) ==
  /\ job[s].pc = "read" /\ job[s].todo = <<>>
  /\ IF job[s].marked = <<>> THEN Continue(s, Done) ELSE Goto(s, "create")
  /\ UNCHANGED <<life, file, cut, manifest, events, faults, crashes>>

(***************************************************************************)
(* consolidate_batch over LocalObjectStore.put_if_absent and insert_batch. *)
(***************************************************************************)
\* consolidate_batch refuses the batch: the tenant has no bucket (the check
\* may fail, too), or the zone is not one that archives.  The items stay marked.
BatchRefused(s) ==
  /\ job[s].pc = "create"
  /\ Fault
  /\ Continue(s, Done)
  /\ UNCHANGED <<life, file, cut, manifest, events, crashes>>

\* The blob merges the payloads in the order of the batch.
BlobOf(s) == [k \in DOMAIN job[s].marked |-> PayloadOf[job[s].marked[k]]]

\* Call s has created the file of blob b and is filling it.
Writing(s, b) == job[s].pc = "write" /\ BlobOf(s) = b

\* Exclusive creation of an empty file; a file that exists counts as written.
CreateBlob(s) ==
  /\ job[s].pc = "create"
  /\ IF BlobOf(s) \in DOMAIN file THEN Goto(s, "insert") ELSE Goto(s, "write")
  /\ file' = [b \in DOMAIN file \cup {BlobOf(s)} |->
                IF b \in DOMAIN file THEN file[b] ELSE <<>>]
  /\ UNCHANGED <<life, cut, manifest, events, faults, crashes>>

\* The bytes arrive in order, here a payload at a time (one of which a part is
\* there counts as missing); the file is closed after the last.
WriteBlob(s) ==
  LET b == BlobOf(s)
  IN  /\ job[s].pc = "write"
      /\ file' = [file EXCEPT ![b] = Append(@, b[Len(@) + 1])]
      /\ Goto(s, IF Len(file[b]) + 1 = Len(b) THEN "insert" ELSE "write")
      /\ UNCHANGED <<life, cut, manifest, events, faults, crashes>>

\* Mutant: the outage is logged and the batch goes on to the manifest.
StoreUnavailableGoesOn(s) ==
  /\ job[s].pc \in {"create", "write"}
  /\ Fault
  /\ Goto(s, "insert")
  /\ UNCHANGED <<life, file, cut, manifest, events, crashes>>

\* Zone8ObjectStoreUnavailableError: the whole batch is reported as deferred.
\* A write that fails leaves its file behind, with the bytes that arrived.
StoreUnavailable(s) ==
  /\ job[s].pc \in {"create", "write"}
  /\ Fault
  /\ cut' = cut \cup {b \in DOMAIN file : Writing(s, b)}
  /\ Continue(s, Done)
  /\ UNCHANGED <<life, file, manifest, events, crashes>>

\* Mutant: the slice starts one payload too early.
RowOfShifted(s, i) ==
  [blob |-> BlobOf(s), at |-> (CHOOSE k \in DOMAIN job[s].marked :
                                 job[s].marked[k] = i) - 1]

\* The rows of the batch: each item's slice of the blob.
RowOf(s, i) ==
  [blob |-> BlobOf(s), at |-> CHOOSE k \in DOMAIN job[s].marked :
                                job[s].marked[k] = i]

\* Mutant: ON CONFLICT DO UPDATE.
InsertRowsUpsert(s) ==
  /\ job[s].pc = "insert"
  /\ manifest' = [i \in Items |-> IF i \in MarkedItems(s) THEN RowOf(s, i)
                                                          ELSE manifest[i]]
  /\ Goto(s, "publish")
  /\ UNCHANGED <<life, file, cut, events, faults, crashes>>

\* Mutant: ON CONFLICT DO NOTHING.
InsertRowsIgnore(s) ==
  /\ job[s].pc = "insert"
  /\ manifest' = [i \in Items |->
                    IF i \in MarkedItems(s) /\ manifest[i] = NoEntry
                      THEN RowOf(s, i) ELSE manifest[i]]
  /\ Goto(s, "publish")
  /\ UNCHANGED <<life, file, cut, events, faults, crashes>>

\* One transaction; the primary key admits no second row of an item.
InsertRows(s) ==
  /\ job[s].pc = "insert"
  /\ \A i \in MarkedItems(s) : manifest[i] = NoEntry
  /\ manifest' = [i \in Items |-> IF i \in MarkedItems(s) THEN RowOf(s, i)
                                                          ELSE manifest[i]]
  /\ Goto(s, "publish")
  /\ UNCHANGED <<life, file, cut, events, faults, crashes>>

\* A row exists already: the error leaves the sweep.
InsertConflicts(s) ==
  /\ job[s].pc = "insert"
  /\ \E i \in MarkedItems(s) : manifest[i] # NoEntry
  /\ Continue(s, Done)
  /\ UNCHANGED <<life, file, cut, manifest, events, faults, crashes>>

\* So does any other error of the manifest.
InsertFails(s) ==
  /\ job[s].pc = "insert"
  /\ Fault
  /\ Continue(s, Done)
  /\ UNCHANGED <<life, file, cut, manifest, events, crashes>>

\* memory.archived for every item written, in order; then the call returns.
Publish(s) ==
  LET rest == Tail(job[s].marked)
  IN  /\ job[s].pc = "publish"
      /\ events' = [events EXCEPT ![Head(job[s].marked)] = @ + 1]
      /\ IF rest = <<>> THEN Continue(s, Done)
                        ELSE Continue(s, [job[s] EXCEPT !.marked = rest])
      /\ UNCHANGED <<life, file, cut, manifest, faults, crashes>>

\* The process stops: every call is gone, storage stays as it is.
Crash ==
  /\ crashes < MaxCrashes /\ crashes' = crashes + 1
  /\ cut' = cut \cup {b \in DOMAIN file : \E s \in Sweeps : Writing(s, b)}
  /\ job' = [s \in Sweeps |-> Done]
  /\ UNCHANGED <<life, file, manifest, events, faults>>

Next == \/ \E s \in Sweeps :
             \/ Start(s) \/ Evaluate(s) \/ Skip(s) \/ Mark(s)
             \/ CandidateFails(s) \/ EndCandidates(s)
             \/ BatchRefused(s) \/ CreateBlob(s) \/ WriteBlob(s) \/ StoreUnavailable(s)
             \/ InsertRows(s) \/ InsertConflicts(s) \/ InsertFails(s)
             \/ Publish(s)
        \/ Crash

Spec == Init /\ [][Next]_vars

-----------------------------------------------------------------------------
(***************************************************************************)
(* Properties.                                                             *)
(***************************************************************************)

\* The state is well formed, and only a write that was begun was cut short.
TypeOK == /\ life \in [Items -> {"compressed", "archived"}]
          /\ DOMAIN file \subseteq Blobs /\ file \in [DOMAIN file -> Blobs]
          /\ cut \subseteq DOMAIN file
          /\ manifest \in [Items -> Entries \cup {NoEntry}]
          /\ job \in [Sweeps -> Jobs]
          /\ events \in [Items -> Nat]
          /\ faults \in 0 .. MaxFaults /\ crashes \in 0 .. MaxCrashes

\* read_blob_range: the bytes at the range of the row of i, in the file as it
\* is; a range past the end of the file reads nothing.
ReadBlobRange(i) ==
  LET bytes == file[manifest[i].blob]
      at == manifest[i].at
  IN  IF at \in DOMAIN bytes THEN <<bytes[at]>> ELSE <<>>

\* What the manifest points at, through overlapping sweeps, outages and
\* crashes: the file of a row's blob exists; a reader gets the item's own
\* payload or falls off the end of the file, never another item's bytes; and
\* it falls off the end only while a call is still writing that very blob, or
\* when the write of that very blob failed or was stopped.  That this can
\* happen at all is the code's doing: put_if_absent takes the file of another
\* call for the blob, whatever is in it, although consolidate_batch promises
\* that the manifest is never told about a blob the object store does not
\* durably hold.
RowResolves ==
  \A i \in Items :
    manifest[i] # NoEntry =>
      LET b == manifest[i].blob
      IN  /\ b \in DOMAIN file
          /\ ReadBlobRange(i) \in {<<PayloadOf[i]>>, <<>>}
          /\ ReadBlobRange(i) = <<>> =>
               b \in cut \/ \E s \in Sweeps : Writing(s, b)

\* memory.archived is published at most once for an item, and only when the
\* item is archived in its zone and has its manifest row, also when a weekly
\* sweep and a fast-track call both read it as Compressed.
AnnouncedOnce ==
  \A i \in Items :
    /\ events[i] <= 1
    /\ events[i] = 1 => manifest[i] # NoEntry /\ life[i] = "archived"

\* A manifest row is written once: no sweep moves an item to another blob.
RowsAreFinal ==
  [][\A i \in Items : manifest[i] # NoEntry => manifest'[i] = manifest[i]]_vars
=============================================================================
