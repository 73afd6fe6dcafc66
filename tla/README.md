# A TLA+ verification of Dashanan

Dashanan keeps an agent's memory in eight zones behind one HTTP service
(`src/src/dashanan`: `domain` holds pure rules, `application` the services,
`infrastructure` the adapters, `api` the FastAPI host).  This directory models
the parts of it whose correctness depends on the order of things: what several
threads, sweeps, processes and stores do between each other's steps, and what
is left when one of the steps fails.  TLC checks the models on small instances;
TLAPS proves the main invariants for every value of the constants.

Paths below are relative to `src/src/dashanan/`.

## Inventory

| Component | State it keeps | Operations | Hard part | What makes it correct | Modules |
|---|---|---|---|---|---|
| Zone 8 durable erasure (`application/zone8_erasure_durability.py`) | marker table, Zone 7 record, subject keys | `erase_subject`, `recover_pending_erasures` | a crash between any two of five writes; sweeps over stale copies; key store outages; lost acknowledgements | nothing is recorded as erased while its key can still open a blob; a marker precedes every destroy; every marker is closed | `Zone8Erasure` |
| Zone 8 subject-keyed archiver (`application/zone8_crypto_shredding_store.py`) | subject keys, blobs, subject index | `archive_for_subject` | mints a key in two statements beside an erasure | no payload of an erased generation is readable | `Zone8Erasure` |
| Rotation timer wheel (`domain/rotation_timer_wheel.py`) | heap, generation and due maps | `schedule`, `invalidate`, `pop_due` | lazy deletion with generations that start over | what is due comes out, what is not due stays (it does not: see Findings) | `RotationSchedule`, `RotationTimerWheel`, `RotationWheelCalls` |
| Rotation engine (`application/rotation_engine.py`, `domain/rotation_deadline.py`) | one wheel per zone, states of items behind ports | `schedule_or_pin`, `run_sweep` | accesses between re-scoring and compressing; tenants share a wheel; failures and crashes between storing and publishing | at most one event per item; storage and subscribers part in known places only; no deadline before its crossing | `RotationEngine` |
| Archive engine and consolidation (`application/archive_engine.py`, `application/zone8_consolidation_store.py`, `infrastructure/local_object_store.py`, `infrastructure/sql_manifest_repository.py`) | states of items, blob files, manifest rows | `run_weekly_archive_sweep`, `fast_track_archive`, `consolidate_batch` | overlapping calls; a batch refused for one row; torn files; crashes | a row reads its item's payload or, for a blob whose write was cut short, nothing; it is final, and announced once | `Zone8Archive` |
| Provenance write gate (`application/provenance_write_gate.py`, `domain/write_rate_limiter.py`, `infrastructure/sql_write_journal_repository.py`) | journal, per-key locks, token buckets | `submit_write` | several processes over one journal; retries after lost acknowledgements; locks in memory only | a fact is persisted at most once, answers are about one's own request, admissions are bounded | `ProvenanceWriteGate` |
| Circuit breaker of the Postgres pool (`infrastructure/circuit_breaker.py`, `get_pooled_connection` in `api/composition.py`) | state, window, baseline, probe counters | `allow`, `record_success`, `record_failure` | outcomes that arrive in a later state than the one that admitted them | decided by its own probes, counted once, never stuck | `CircuitBreaker` |
| Provenance records, conflict detection, writes of Zones 3 and 5 (`application/conflict_detection_sweep.py`, `application/conflict_aware_zone_writes.py`, `_do_write` in `api/app.py`) | append-only records, rows, attributes | `append` with a look-up of the latest record, then the row | look-up and append without a lock; record before row; one connection that is never rolled back | nothing stored without its record; every contradiction flagged, on both sides | `ConflictAwareWrites` |
| Capacity backstops (`application/zone2_capacity_backstop_sweep.py`, `application/zone4_capacity_backstop_sweep.py`) | snapshot, plan | `run`: plan, then execute item by item | the plan ages while it is executed; any port may fail; sweeps overlap | what has gone is not found; what is reported is done; zones come back within bounds | `CapacityBackstop` |
| DPDP cascade of Zones 2 and 6 (`infrastructure/dpdp_erasure_cascade.py`, `application/subject_erasure_cascade.py`) | erasure obligations | `request_erasure`, `fulfil_pending_erasure` | called by a sweep and directly at once | an obligation is cleared only for what has gone | `CapacityBackstop` |
| Unified subject erasure (`application/unified_subject_erasure_orchestrator.py`, `eraseSubject` in `api/app.py`) | jobs, one transaction across zones | `request_erasure`, one leg per zone | a leg fails after others have erased; deletes that are not committed yet; requests for one subject overlap | a completed job has erased what was there; a client that keeps asking is served | `SubjectErasure` |
| Working memory, Zone 1 (`infrastructure/working_memory_lru_repository.py`) | one LRU dictionary per session | `put`, `get`, `fetch`, `evict_expired` | expiry looks at one end only and relies on the order | bounded; what is live is found | `MemoryApi` |
| HTTP item routes, context assembly (`api/app.py`, `application/memory_orchestrator.py`, `application/context_assembly_builder.py`) | item registry; results | `writeMemory`, `getItem`, `updateItem`, `deleteItem`, `assembleContext` | updates beside deletions; several stores per write; zones that are missing | a deleted item comes back in known ways only; a client reads its own writes | `MemoryApi` |
| Retrieval index, Zone 6 (`infrastructure/hybrid_retrieval_index_repository.py`) | vector, lexical and catalog stores | `index_item`, `delete_item`, search | stores updated one after the other | no entry of an item that has gone | `CapacityBackstop` (not the search) |
| Entity memory, Zone 5 (`infrastructure/entity_memory_repository.py`, `sql_entity_memory_repository.py`) | records, aliases, in memory or in tables | write, register an alias, erase | two statements and two commits in the second shape | as of the writes and of the erasure | `ConflictAwareWrites`, `SubjectErasure` (not the reads) |
| Zone repositories 2-4 | one statement each | append, insert, delete, commit | | as of their callers | the statements the modelled calls issue |
| Memory score, settings, migrations, clock, event bus, bucket provisioning | one formula or one file each | | little that is ordered or concurrent | | not modelled |

How they interact: request threads of the host call the services; the services
call each other and their ports synchronously; sweeps (rotation, archive,
recovery) are meant to be run by a host scheduler that is not in the
repository; all durable state is in Postgres tables and one object directory,
shared by every process.  There are no messages between components except the
events given to a bus whose only implementation discards them.

## Order of the modules

Built in this order: first what cannot be repaired later (an erasure or an
archived item that is lost), then the components those share state with.
`Zone8Erasure`; the rotation wheel and engine; `Zone8Archive`;
`CircuitBreaker`; `ProvenanceWriteGate`; `ConflictAwareWrites`;
`CapacityBackstop`; `SubjectErasure`; `MemoryApi`.

| Composition | How |
|---|---|
| Rotation | `RotationEngine` extends `RotationTimerWheel`; the wheel implements `RotationSchedule` if generations are not reused |
| Backstop, cascade, index | one module: the same item is reached by sweeps of its zone, by direct cascades and by the indexing host |
| Subject erasure and its zones | `SubjectErasure` has a step per commit of each leg; its Zone 8 leg is spelled out in `Zone8Erasure`, its Zone 2 and 6 leg, which the composition does not wire, in `CapacityBackstop` |
| Requests and zones | `MemoryApi` has the zones a request reaches without entities, `ConflictAwareWrites` those it reaches with them |

Planned: an abstract specification of archiving (an item is in one place, and
announced) that `Zone8Archive` implements, and one of the write gate (each key
is decided once) that `ProvenanceWriteGate` implements, both by refinement
mappings proved as for the wheel.

## The modules

### Zone8Erasure

One tenant.  A *job* is a call of `DurableZone8ErasureCoordinator.erase_subject`
with its marker, a *call* one of `archive_for_subject`, and there is one
`recover_pending_erasures` at a time.  A key is the number of the generation
that minted it, so that a key minted after an erasure is told apart from the
one that was destroyed.

| State | Code |
|---|---|
| `keyOf`, `minted` | `InMemorySubjectKeyStore._keys`, generation by generation |
| `blobs`, `indexed` | sealed blobs; the Zone 8 subject index |
| `marker` | rows of `zone8_erasure_markers` |
| `prov` | the committed Zone 7 erasure records |
| `job`, `call`, `sweep` | the program counters and local variables of the three functions; `sweep.seen` is the list of copies that `list_unfinalized` returned |
| `covers` | history: the last generation a marker is about |

Every statement that writes a table, destroys or mints a key, or reads what a
later statement relies on, is an action: `StartErase`, `AppendPending`,
`EraseDestroysKey`, `AppendConfirmed`, `EraseFinalizes`, `AppendFinalized`;
`StartSweep`, `SweepNext`, `SweepCheckKey`, `SweepRetriesDestroy`,
`SweepRechecksKey`, `SweepGivesUp`, `SweepConfirms`, `SweepFinalizes`,
`SweepFinalizeFails`, `SweepCloses`; `StartArchive`, `MintKey`, `RereadKey`,
`WriteBlob`, `RecordItem`.  `EraseFails`, `ArchiveFails`, `SweepAppendFails`
are the failing statements, and a commit whose acknowledgement is lost has
taken effect.  `VolatileStores`, `SharedConnection` and `OverlappingSweep`
select the wiring: whether the key store survives a crash, whether the marker
store and finalize share a connection (as `api/composition.py` has it), and
whether a sweep may run beside live erasures.

### RotationSchedule, RotationTimerWheel, RotationWheelCalls

`RotationSchedule` is what the docstrings of the wheel promise
(`rotation_timer_wheel.py:140`, `:156-160`): each item has at most one deadline,
the latest it was given, and a sweep surfaces, and unschedules, what is due and
nothing else.  `RotationTimerWheel` is the wheel with its heap and its two maps;
the heap is the set of its triples, because `pop_due` takes every due entry
whatever their order.  `LiveEntryInHeap` is what lazy deletion rests on.
`RotationWheelCalls` puts arbitrary calls around the wheel (`CallsSpec`) and
keeps the last answer of `pop_due`.  `ImplementsSchedule`, with
`deadline <- dueAt`, is the refinement.  The code breaks it (see Findings);
`FreshGenerations`, an action property, is what the code lacks, and with it the
refinement is a theorem.

### RotationEngine

`RotationEngine` extends the wheel.  `ScheduleOrPin` is `schedule_or_pin` with
`compute_rotation_deadline` in it (`Deadline`); an item's score only decays
between mutations, so it is represented by the instant it reaches the threshold
(`crosses`).  `sweep[t]` is the run of `run_sweep` of tenant `t`, one per
tenant: `StartSweep` (pop), `TakeEntry`, `Score` (current state, threshold and
guarded transition), `Compress`, `Publish`, `EndSweep`.  `PortFails` is a
`RotationEnginePortError` of `current_state` or `compress`; `SweepAborts` is any
other exception, at the publish as well, and ends the sweep.  A `compress` that
raises may have taken effect, and so may a publish.  `Crash` is a new process
with an empty wheel, at any step, also between `Compress` and `Publish`.
`EventMatchesState` says where storage and subscribers part: only in such a
step, for the item in hand, and then for good.  `NothingDueKeptBack` is the half
of the schedule that the wheel does keep, for the sweeps of the engine.  The three
triggers of `rotation_deadline_invalidation.py` all end in `schedule_or_pin`,
with different scores.  The ports have no implementation in the repository and
are modelled from their use.

### Zone8Archive

A *sweep* `s` is one call of the engine; a fast-track call is one with a list
of one item.  `Evaluate`, `Skip`, `Mark`, `CandidateFails` are the candidate
loop; `EndCandidates` is the call of `consolidate_batch` and `BatchRefused` its
refusal of a batch; `CreateBlob` is the exclusive creation of an
empty file in `put_if_absent`, and `WriteBlob` the arrival of one more payload
in it; `InsertRows`, `InsertConflicts` and `InsertFails` the manifest
transaction; `Publish` one event of the final loop.  `StoreUnavailable` defers
the batch and `Crash` drops every call; either may come between two payloads.
A blob is named by the sequence of payloads merged in it, which is what a
content address says of it, so that two batches with equal payloads share it.
What is in its file is another matter: `file[b]` is the payloads that have
arrived, and `cut`, a history variable, the blobs whose write failed or was
stopped.  `ReadBlobRange` reads the range of a row in the file as it is;
`RowResolves` says that this gives the item's own payload or nothing, and
nothing only while that very blob is being written or when it is in `cut`.

### CircuitBreaker

Each method of the breaker holds its lock and is one action.  A request is
admitted by `AllowClosed`, `AllowHalfOpens` or `AllowProbe`, waits for a
connection for at most `AcquireTimeout`, and ends in `Record`, `Trip`,
`CountProbe` or `Close`, or in `PoolTimeout`, which records nothing.  The window
and the baseline of latencies are sequences, with the percentile and the two
rates of `_evaluate_locked` in integers (a rate of 0.5 is 50 per cent).  Time is
kept as ages.  `admitted[c].kind` is history: which period of the breaker let the
request in, which the breaker itself does not know.  The trip count stops at
`MaxTrips`, where `float(2**exponent)` raises `OverflowError` (1025 trips in a
row), and so does every later `allow`.

### ProvenanceWriteGate

Each process has a gate; threads belong to processes.  `Call`, `Acquire` (the
per-key lock), `Find`, `Spend` (the token bucket under its own lock, then the
checks, which read only the request), `Append`, `Persist` follow
`_submit_write_within_lock`; `JournalFails` is a look-up or append that raises,
whose commit may have taken effect; `Crash` loses locks and buckets.  A request
is its key, its content, its source type, whether it is bound to a user turn,
and the instant it was attested for (`turn`): `Passes` is the part of
`_evaluate_source_type_gate` and of the attestation check that depends on the
clock, so a retry of an accepted request may fail its checks later.  A bucket
holds whole tokens (a write costs one) and the clock whole seconds.  `spent`
and `before` are history, for windows of time.

Not in this model: a clock that goes backwards (`try_consume` takes it for no
time elapsed, but keeps the earlier instant, so the interval is refilled again);
and which connection the journal uses, as nothing in `src` composes a gate.  A
connection left in a failed transaction makes further look-ups raise, which is
`JournalFails` once more.

### ConflictAwareWrites

A *writer* is a request for `writeMemory` or `writeMemoryBatch` being served.
`LegsOf` is `classify` with the Zone 5 branch of `_do_write`: an attribute of a
single subject, edges, a general fact, or nothing at all.

| State | Code |
|---|---|
| `ledger` | rows of `provenance_records`; `at` is history: the clock at the commit |
| `rows`, `zone5` | Zone 3's edges and facts; the `provenance_id` each entity's attribute has |
| `job[w]` | the facts and legs still to do, the record at hand and the correction to append before it; `broken` when a statement of the connection has failed |
| `clock` | `write_timestamp`, which also serves as the id of a record |

`Stamp` builds the record, `NoConflict` and `Conflict` are the look-up of
`ConflictDetectingProvenanceRepository.append`, `AppendCorrection` and
`AppendRecord` its two appends, `RefuseBlank`, `WriteAttribute` and `InsertRow`
the row, `EndFact` the receipt.  `StatementFails`, `AnswerLost` (committed, and
the answer is lost), `LegFails` (every later statement of a connection that
nobody rolls back) and `Crash` are the failures.

### CapacityBackstop

| State | Code |
|---|---|
| `life`, `aged` | rows of Zones 2 and 4; those compressed and past `MaxAge` |
| `ranked`, `catalog`, `indexed` | Zone 6: the vector and lexical entries, the catalog's text, the steps of `index_item` done |
| `pending` | `InMemoryErasureObligationStore` |
| `job[c]` | a running sweep or direct cascade with the items still to do |
| `asked`, `late` | history: obligations ever created; items indexed while or after they were evicted |

`StartSweep` is the snapshot and `plan_backstop_eviction` over it, with any
scores: the plan is a set, and its items are done in any order that is sorted as
the code sorts them (`SortedBy`); `NoObligation` to `Clear` are `fulfil_pending_erasure`; `DropIndex` to
`Publish` are `_execute_one`; `PortFails`, `EvictFails` and `EvictOnBroken` the
failures a sweep records before it goes on.  The host writes, indexes
(`IndexItem`, in its two steps), compresses and asks for erasures at any time.

### SubjectErasure

| State | Code |
|---|---|
| `present` | what a reader finds of edges, attributes, aliases, archived items |
| `call[c]` | the running request; `held` are the rows deleted by its open transaction |
| `job`, `succeeded` | `unified_erasure_job_store`; the admin jobs that say "succeeded" |
| `owed`, `wanted` | history: what was present when the request was accepted; the subjects for whom a success is still awaited |

`Accept` takes a request at any time, also for a subject whose erasure is under
way or has succeeded.  The legs are `DeleteEdges` (Zone 3, without a commit, waiting for rows another
transaction has deleted), `EraseEntity` (Zone 5 in memory) or two of
`CommitStatement` (Zone 5 in tables), `CommitStatement` for the Zone 8 marker,
`DestroyKey`, `CommitStatement` for the record of it, then `Complete` and
`Report`.  `LegFails` and `AnswerLost` end a request as FAILED and roll back
what it holds; `Crash` loses jobs, keys and the Zone 5 in memory.  Writers of
every kind of item run beside.

### MemoryApi

| State | Code |
|---|---|
| `zone1`, `opened` | the session dictionaries in access order; the sessions that exist |
| `procedures`, `episodes` | Zone 4's hashes, Zone 2's rows |
| `registry`, `dead` | `ItemRegistry`: the object under a key; objects marked deleted |
| `call[c]` | a request, with the object its route holds, the sessions still to read and the result |
| `kept`, `evicted`, `gone` | history: what an assembly should find; what Zone 1 dropped; answered deletions, each with the objects that must not be found under its key any more |

`WriteWorking`, `WriteProcedural`, `AppendEpisode`, `EpisodeFails`, `Mirror`
and `Register` are `_do_write`; `Read`, `LookUp`, `PutBack`, `Delete` and
`NotFound` the item routes; `Assemble`, `ReadSession` and `Build` the
orchestrator with Zone 1's `fetch` session by session and
`_greedy_knapsack_fill`; `Get` and `EvictExpired` the host's own calls of Zone
1.  Each holds one lock.

`DeletedStaysDeleted` is about the item routes: a deletion marks the registered
object, and the zones keep the item, so `assembleContext` and `searchMemory` go
on returning it, and nothing is claimed of them.  An item named by a UUID is
never found again.  A procedural item is named by the hash of its task and has
an object per write; it is found again with an object registered after the
deletion, or with one that an update had in hand at the deletion and puts back
(`api/app.py:364`), an earlier and unmarked object if the task was written
again in between.  A deletion buries all the other objects (`Objects`,
`InHand`).

## The runs

| Run | Properties | Instance | Shows |
|---|---|---|---|
| `Zone8Erasure` | `TypeOK`, `ClosedMeansShredded`, `ReturnedMeansErased` | 2 jobs, 1 item, 1 archive call, 2 retries, 2 keys, 1 crash, 1 fault; sweeps overlap | what is recorded as erased is unreadable |
| `Zone8Recovery` | `WriteAhead`, `StatusNeverRegresses`, `NeverRedestroysConfirmed`, `EveryMarkerCloses` | the same with 2 faults and the one connection of the composition; sweeps only between calls | a key goes only under a pending marker of that very erasure; markers go forward, and all the way, but for one case (see Findings) |
| `RotationWheelReuse` | `ImplementsSchedule` (violated) | 2 items, 3 instants, 2 generations | see Findings |
| `RotationSweep` | `TypeOK`, `CompressedOnce`, `LiveEntryInHeap`, `DeadlineAfterCrossing`, `EventMatchesState`, `NothingDueKeptBack` | 2 tenants with an item each, 3 instants, 4 generations, 4 mutations, 2 faults or crashes | at most one event per item; silence only after a failure or a crash with the item in hand; nothing due kept back |
| `Zone8Archive` | `TypeOK`, `RowResolves`, `AnnouncedOnce`, `RowsAreFinal` | 3 items of 2 payloads, 2 calls, 4 lists, 2 faults, 1 crash | the manifest is final, and right but for files cut short |
| `CircuitBreaker` | `BreakerTypeOK`, `OnlyProbesDecide`, `ProbesAccounted`, `BreakerMovesOn` | 3 requests, window 3, 2 probes, 2 latencies, backoffs 2 and 3, 1 timeout | only its own probes decide; it moves on |
| `CircuitBreakerStuck` | `HalfOpenEnds` (violated) | 2 requests | see Findings |
| `ProvenanceWriteGate` | `TypeOK`, `PersistedAtMostOnce`, `AcceptedIsJournaled`, `ConflictsAreForeign`, `BurstBounded` | 2 processes, 3 threads, 2 keys, 3 requests (one attested), burst 1, 1 fault, 1 crash | at most once, over retries and crashes |
| `ConflictAwareWrites` | `TypeOK`, `RowsHaveProvenance`, `ContradictionsFlagged`, `BothSidesDisputed` | 2 requests at a time, 2 entities, 6 facts in 4 request bodies, 4 clock readings, 1 fault, 1 crash | nothing without its record; contradictions are disputed on both sides |
| `CapacityBackstop` | `TypeOK`, `GoneIsNotFound`, `ReportedMeansDone`, `BackInBounds` | 2 episodes and a procedure, caps of 1, 2 calls, 2 scores, 1 fault | evictions leave nothing behind and are not announced early |
| `SubjectErasure` | `TypeOK`, `CompletedMeansErased`, `AskedIsErased` | 1 subject with an item of each of 4 kinds, both shapes of Zone 5, 2 requests at a time and any number after each other, 2 faults or crashes | what is reported as erased is erased, and is in the end |
| `MemoryApi` | `TypeOK`, `DeletedStaysDeleted`, `ReadYourWrites` | 4 calls, 2 tenants, 2 sessions, 1 hash, capacity 2, TTL 2, 2 ticks | deletions last but for two ways back, and a client reads its own writes |

### Bounds

The bounds are the smallest at which the cases of interest occur together.
Two jobs of one subject are needed for an erasure to meet another's key and a
sweep another's marker; two generations for a key minted after an erasure;
`MaxRetries` is 2, as in the code.  In the wheel two generations let an item
be scheduled again, leave and come back under a number that is still in the
heap, and three instants put the deadlines of the two uses in either order.  In
`RotationSweep` four mutations let an item be scheduled, invalidated and
scheduled again while the other waits; as many generations mean that the bound
on generations never stops one.  Two faults are a failure in one sweep and a
failure in the other, or a crash after either.  The lists of `Zone8Archive` share
items pairwise, and two of them give equal blobs; two faults let a write be cut
short and the attempt that finds its file fail as well.  The breaker's window of 3
with 2 probes has a full window before, during and after an eviction; a
baseline of 2 makes the slow-call rate matter.  The gate's burst of 1 makes two
threads compete for one token, and an attestation that lasts no time expires
between a request and its retry; the proof covers any burst and rate.

Four readings of the clock in `ConflictAwareWrites` are a conflict (two) beside
two more writes of the same item; its facts take every branch of `classify`.
In `CapacityBackstop` the cap decides between two episodes, by score and by age,
while `MaxAge` alone evicts the procedure; one fault falls on every port in
turn.  The four items of `SubjectErasure` are one per leg, written at any time
of the behaviour; subjects share nothing.  The two tenants of `MemoryApi` use
the same session name and the same hash; the long text does not fit one of the
budgets, and one assembly reads a single entry of Zone 1.  Two writes of the
procedural item, an update and a deletion of it are the four calls that bring
it back without a later write.

`CHECK_DEADLOCK FALSE` is set where a behaviour may end: in the runs of
`Zone8Erasure` (all calls returned, no marker left), `ConflictAwareWrites` (no
reading of the clock left), `CapacityBackstop` and `SubjectErasure` (nothing
left to write, evict or ask for) and `MemoryApi` (every call is served once).

### Fairness

* `Zone8Erasure!FairSpec`: a running `erase_subject` goes on (a thread that is
  not dead runs), key store outages end, and the host starts a recovery sweep
  as long as there is something to recover.  The last is the intended use:
  the docstring of `recover_pending_erasures` calls it the job recovery sweep
  after a restart, but nothing in the application calls it (only its tests do),
  so the liveness of `Zone8Recovery` is that of a host which does call it.  No
  fairness is given to failures and crashes, which are bounded.
* `CircuitBreaker!FairSpec`: time passes, requests keep arriving while the
  breaker allows them, and every acquisition ends, by the pool's own timeout.
* `CapacityBackstop!FairSpec`: a call that has begun goes on, and the host calls
  each zone's sweep again and again (strongly: a sweep may start only while a
  thread is free).  Nothing in `src` schedules it: the docstring of `run`
  (`zone2_capacity_backstop_sweep.py:408-411`) leaves the periodic trigger to
  the caller, so the liveness is that of a host which has one.
* `SubjectErasure!FairSpec`: a running request goes on and gets the row locks it
  waits for in turn, and a client who has had no success calls again: the
  docstring of `request_erasure` has the legs "independently idempotent,
  retry-safe" for that.

The other runs check safety only.

### Assumptions on constants

Beyond types: `TimingAssumption` of `CircuitBreaker` says that an acquisition is
over before the shortest backoff.  `POOL_ACQUIRE_TIMEOUT_SECONDS` is 2.0
(`api/composition.py:114`) and the base backoff 30 seconds.  Without it an
outcome of before the trip could close the breaker.

## What is proved

For every value of the constants that satisfies their assumptions, and for
`MarkersMoveForward` and `ConfirmedIsNotDestroyedAgain` under `~OverlappingSweep`:

| Module | Theorems | Inductive invariant, beyond types |
|---|---|---|
| `Zone8ErasureProofs` | `TypeCorrect`, `ErasureIsShredded`, `ErasureIsWriteAhead` | keys never outrun the counter, so that a key minted later is above what any marker covers (`KeysMinted`); a job past its destroy is shredded (`DestroyedJobs`); the sweep's copies are stale in their status only, and a confirmation in them stays true (`SnapshotHolds`); a sweep about to confirm has seen the key gone (`SweepConfirmed`) |
| | `ErasureIsComplete` | the same, and: a job past its finalize has its Zone 7 record (`RecordedJobs`); a blob is sealed under a generation, never under no key (`SealedBlobs`) |
| | `MarkersMoveForward`, `ConfirmedIsNotDestroyedAgain` | the same, and `Orderly`: no `erase_subject` is live while a sweep runs, and then a job finds its marker, and a sweep each row of its list, as it read it |
| `RotationProofs`, the wheel | `WheelTypeCorrect`, `LiveDeadlineKept`, `WheelKeepsPromise` | the heap holds the entry that the maps describe, which is why dropping the others loses nothing.  `WheelKeepsPromise` is the refinement of `RotationSchedule` for behaviours with `[][FreshGenerations]_callVars`: an entry of the current generation is then the live one (`Unambiguous`), so `pop_due` surfaces what is due and nothing else.  The assumption is what the code does not see to |
| `RotationProofs`, the engine | `EngineTypeCorrect`, `EngineKeepsDeadlines`, `DeadlinesAreLateEnough`, `CompressionIsAnnouncedOnce`, `AnnouncementMatchesStorage`, `SweepsMissNothing` | an entry gets past `Score` only in the sweep of the item's own tenant (`OwnItemInHand`), so the state it read is still the item's when it compresses (`HandMatchesState`), and what is still active, or about to be published, has not been announced (`AnnouncedOnce`); the two action properties follow from it case by case |
| `Zone8ArchiveProofs` | `ArchiveTypeCorrect`, `RowsResolve`, `ArchivedIsAnnouncedOnce`, `RowsNeverChange` | a call inserts rows only for a blob whose file exists (`BlobBeforeRows`), and a row names its item's place in it (`RowsNameSlices`); a file holds a beginning of its blob, lacks the rest only while one call writes it or once it is in `cut`, and has one writer (`FilesInv`); the items of a publishing call are distinct, have rows, and belong to no other publisher (`PublishOnce`), because the manifest admitted their rows only while there were none |
| `ApiProofs`, the breaker | `BreakerTypeCorrect`, `DecidedByItsProbes`, `ProbesConserved` | whatever is being acquired while OPEN is at least as old as the trip (`LateCallsAge`), so by `TimingAssumption` none of it is left when the backoff has elapsed |
| `ApiProofs`, the item routes | `ApiTypeCorrect`, `DeletionIsFinal`, `WritersReadTheirWrites` | an object under a call's own name is that call's (`RegistersItself`), so a late `put_back` of an item with a UUID writes what is there already; what a deletion has buried is marked, or was registered before and is neither in the registry nor in anybody's hand (`Buried`, `Retired`), so nobody can put it back; an entry of Zone 1 was written and its session opened (`HoldsWrites`); what an assembly has found is the tenant's, fresh and written, and what it should find is found or in a session still to read (`Reads`) |
| | `FillLeavesNothingThatFits` | none: a fact about `_greedy_knapsack_fill`, which `WritersReadTheirWrites` rests on |
| `ProvenanceWriteGateProofs` | `GateTypeCorrect`, `FactsPersistedOnce`, `AcceptedAnswersOwn`, `ConflictsComeFromOutside`, `BurstsAreBounded` | the lock's holder is the only thread of its process in the section (`LockHeld`), no entry of its own process has appeared since it looked (`NoOwnEntry`), who persists made the entry and is the first (`PersistReady`); what was spent in a window plus what could be spent now stays in bounds (`BucketInv`) |
| `ConflictAwareWritesProofs` | `WritesTypeCorrect`, `StoredIsProvenanced`, `ConflictsAreFlagged`, `DisputesHaveTwoSides` | what a writer found when it looked stays true of the ledger until it appends, up to records that were committed after its own stamp (`Flagged`, `Chains`, `LedgerTimes`); the record a pending correction names is its writer's own and still to come, and ids are not used twice (`Named`, `Correcting`, `Fresh`) |
| `CapacityBackstopProofs` | `BackstopTypeCorrect`, `EvictedIsNotFound`, `ReportsAreNotPremature` | before a call deletes a row its entries are out of Zone 6 (`OutOfIndex`), for a sweep the text too (`OutOfCatalog`), and before it reports, the row has gone (`OutOfZone`); others only take more away, except a host that indexes late |
| `SubjectErasureProofs` | `ErasureTypeCorrect`, `CompletedErasuresAreDone` | what is left of what a request owes belongs to a leg it has still to do, or is held by its own open transaction (`Pending`); everybody else only takes away, or adds what it does not owe |

`~OverlappingSweep` is the case the module docstring describes, a sweep after a
restart.  It cannot be dropped: beside a live erasure a sweep acts on copies of
the markers that are already old, and writes `pending` work over a row that has
moved on.  The other erasure theorems hold with overlapping sweeps as well.

The selection of an assembly is a recursive function over a list.  Its partial
sums and partial selections (`SumsDefined`, `SelectedDefined`) are shown to be
defined, and its facts to hold at every position, by the least position at which
they would fail (`UpTo`, from the library's `WFMin` and
`NatLessThanWellFounded`), as the library's induction theorems cannot be
instantiated here.

`CallsTypeOK`, of the wheel under arbitrary calls, is proved and has no run; the
wheel's types are part of `TypeOK` in `RotationSweep`.

Every invariant and every action property of the passing runs is a theorem.
Model-checked only are the liveness properties `EveryMarkerCloses`,
`BreakerMovesOn`, `BackInBounds` and `AskedIsErased`: liveness under fairness is
out of the prover's reach.  No module of the project declares a RECURSIVE
operator.

## Findings

Two runs end in a counterexample to something the repository says of the
program; `PROJECT.json` quotes the lines.

* `CircuitBreakerStuck`: a probe that ends in `PoolTimeout` is not recorded and
  keeps its slot, so the breaker stays HALF_OPEN and refuses every request.
* `RotationWheelReuse`: generations start over when an item leaves the wheel
  (`rotation_timer_wheel.py:113`), so an entry that `invalidate` left in the
  heap passes for the current one.  `pop_due`, which promises "genuinely due,
  still-live" entries (lines 156-160), returns the item before its deadline and
  deletes the live deadline with it.  `run_sweep` then finds the item too hot,
  skips it, and does not schedule it again.

Met while modelling, and in the models' behaviours unless said otherwise, but
without a run of their own:

Erasure

* `_recover_finalize_only` (`zone8_erasure_durability.py:598-603`) takes every
  failure of finalize for the duplicate of an applied one, so a marker may be
  finalized without its Zone 7 record.
* With the one connection the composition hands to both
  (`api/composition.py:637-638`), a recovery sweep that meets that duplicate
  goes on in an aborted transaction, so the marker is not closed.
  `EveryMarkerCloses` excepts exactly this: some job's record is committed
  while its marker stays at `destroy_confirmed` for ever.
* A key minted for the subject after a crash is found by the recovery sweep at
  line 566, which takes it for the one it was to destroy.
* The docstring of `request_erasure` calls each leg's delete "already durable"
  (lines 334-340), but Zone 3's is uncommitted until the append of the Zone 8
  marker and is rolled back when that fails; the retry erases it.
* The leg of Zones 2 and 6 looks up the subject's items and is given no cascade;
  edges that name the subject as their object are not erased.
* Jobs, admin jobs, keys and the Zone 5 in memory are gone after a restart.

Backstops

* An obligation requested between `has_pending_erasure` and the eviction is
  left behind by a sweep that then evicts the item, and the same item may be
  announced by two sweeps that overlap.
* A direct cascade removes an item from the two indexes but leaves its text in
  the catalog.
* Nothing rolls back the connection of the Zone 2 evictions, so after one
  failure all later ones of that sweep fail as well.

Rotation

* `run_sweep` does not put back the entries it could not consume, as `pop_due`'s
  docstring expects of it; such an item waits for its next mutation.  As one
  wheel serves all tenants of a zone, this includes the items of other tenants.
* A failure or a crash between `compress` and the publish
  (`rotation_engine.py:518-545`), or a `compress` that raises after it took
  effect, leaves a compressed item whose `memory.compressed` never comes: the
  guard stops every later sweep.  `EventMatchesState` says that there is no
  other way.
* The wheels are in memory: a restart forgets every deadline.

Archive

* A batch deferred by an outage was marked archived before
  (`archive_engine.py:547`, :719), although the docstring at 366-371 has its
  items stay compressed; a later sweep skips them.
* A failed write leaves a short file (`local_object_store.py:91-109`), and a
  write under way has one, which another attempt takes for the blob and records
  rows for: the manifest is then told about a blob that the store does not hold,
  which the docstring of `consolidate_batch` excludes
  (`zone8_consolidation_store.py:389-392`).  `RowResolves` says for which rows
  this happens: those of a blob whose own write was cut short or goes on.  They
  name the right blob and slice, and read nothing of another item.

Writes

* Two first writers of an item at a time find nothing and are both unflagged;
  the next write disputes the later of them.
* A correction may name a write that never lands, when its append fails.
* After one failing edge the other edges of a fact, attempted "independently",
  fail as well on the same connection.
* A fact with several subjects and no object is accepted, and nothing is stored.
  A blank predicate leaves a record without a row.  Retries duplicate edges,
  since nothing reads the Idempotency-Key (`openapi.yaml:1100-1108`).
* A write of the gate whose `persist_fact` failed, or whose process stopped
  before it, is answered with the cached acceptance on retry although the fact
  is not stored.  Each process has its own buckets, so `n` processes admit `n`
  times the limit of a tenant, and a restart starts with a full burst.

Items and contexts

* Every episodic write has `seq` 0 (`api/app.py:682`), and the primary key is
  tenant, session and `seq` (`episodic_schema.sql:41`): a session's second
  episodic write is answered 503, at every retry.
* `deleteItem` marks the registry only: `assembleContext` still returns the
  item, where `openapi.yaml:236` speaks of a tombstone.
* A deleted procedural item, whose id is the hash of its task, becomes visible
  again when the task is written anew; and without any later write, when an
  update looked up an object, the task was written again, the item deleted, and
  the update then puts its object, which nobody marked, back
  (`api/app.py:360-364`).  `DeletedStaysDeleted` says that there is no other way.
* An assembly reads Zones 1, 4 and 5 only and is degraded for the others; an
  item that is in two of them is counted twice.
* `record_execution` reads, changes and writes a procedure without a lock
  (`in_memory_procedural_memory_repository.py:184-201`); nothing calls it.

Breaker

* `float(2**exponent)` overflows after 1025 consecutive trips; `allow` then
  raises for ever.

## What is not modelled, and why

* Memory score, rank fusion, BM25, cosine similarity: floating-point formulas
  without state.  The models keep what control depends on, such as the instant
  of a crossing or any assignment of scores.
* Bucket provisioning and credentials (one exclusive file creation; an HMAC over
  a claim), settings, migrations, clock, event bus: start-up code and adapters
  of one line.  Administration endpoints are updates of one dictionary.
* Reads that change nothing and that no modelled step depends on: the queries of
  Zones 2, 3 and 5, the alias trie's shape, `read_for_subject`.
* Encryption: a payload is readable with the generation of the key it was sealed
  under, and with no other.
* Several tenants, except where they meet: keys, markers and rows carry the
  tenant in their key and no step relates two tenants, but tenants share a wheel
  (`RotationEngine`), an object directory (`Zone8Archive` has items with equal
  payloads for that) and session names and hashes (`MemoryApi`).
* Threads inside the timer wheel, which has no lock: nothing in `src` shares an
  engine between threads yet, and a call of the wheel is atomic here.
* A host that rebuilds the rotation wheels after a restart: nothing in `src`
  does, so the model begins again with an empty wheel.
* Restarts in `CapacityBackstop` and `MemoryApi`: but for the rows of Zone 2
  everything there is in memory, and a restart begins with none of it.
* Request validation and authentication: no state of their own that other steps
  depend on.
