------------------------- MODULE Zone8ArchiveProofs -------------------------
(***************************************************************************)
(* Archiving into Zone 8, for any items, payloads, candidate lists and     *)
(* number of overlapping calls: manifest rows resolve, they never change,  *)
(* and an item is announced at most once.  The last rests on who may       *)
(* publish: the marked items of a call that publishes are distinct, have   *)
(* rows, and belong to no other publishing call, since the manifest        *)
(* admitted their rows only while there were none.                         *)
(***************************************************************************)
EXTENDS Zone8Archive, SequenceTheorems, TLAPS

\* A call writes, and inserts rows for, only a blob whose file exists.
BlobBeforeRows ==
  \A s \in Sweeps :
    job[s].pc \in {"write", "insert"} => BlobOf(s) \in DOMAIN file

\* A row names an existing file and, of its blob, the item's own slice.
RowsNameSlices ==
  \A i \in Items :
    manifest[i] # NoEntry =>
      /\ manifest[i].blob \in DOMAIN file
      /\ manifest[i].at \in DOMAIN manifest[i].blob
      /\ manifest[i].blob[manifest[i].at] = PayloadOf[i]

\* What a call marked is archived, and it marks no item twice.
MarkedAreArchived ==
  \A s \in Sweeps :
    /\ \A k \in DOMAIN job[s].marked : life[job[s].marked[k]] = "archived"
    /\ \A j, k \in DOMAIN job[s].marked :
         job[s].marked[j] = job[s].marked[k] => j = k
    /\ job[s].pc = "mark" =>
         /\ job[s].todo # <<>>
         /\ \A k \in DOMAIN job[s].marked : job[s].marked[k] # Head(job[s].todo)
    /\ job[s].pc \in {"create", "write", "insert", "publish"} =>
         job[s].marked # <<>>

\* Items still to publish have rows, no event yet, and one publisher.
PublishOnce ==
  \A s \in Sweeps :
    job[s].pc = "publish" =>
      /\ \A k \in DOMAIN job[s].marked :
           /\ manifest[job[s].marked[k]] # NoEntry
           /\ events[job[s].marked[k]] = 0
      /\ \A u \in Sweeps \ {s} : job[u].pc = "publish" =>
           \A k \in DOMAIN job[s].marked, j \in DOMAIN job[u].marked :
             job[s].marked[k] # job[u].marked[j]

Announced ==
  \A i \in Items :
    events[i] = 0 \/ /\ events[i] = 1
                     /\ manifest[i] # NoEntry
                     /\ life[i] = "archived"

IInv == /\ TypeOK
        /\ BlobBeforeRows
        /\ RowsNameSlices
        /\ MarkedAreArchived
        /\ PublishOnce
        /\ Announced

\* A file holds a beginning of its blob; it lacks the rest only while a call
\* is writing it, or after that write was cut short; and nobody writes a file
\* that another call has created.
FilesInv ==
  /\ \A b \in DOMAIN file :
       /\ Len(file[b]) <= Len(b)
       /\ \A k \in 1 .. Len(file[b]) : file[b][k] = b[k]
       /\ Len(file[b]) = Len(b) \/ b \in cut \/ \E s \in Sweeps : Writing(s, b)
  /\ \A s \in Sweeps : job[s].pc = "write" =>
       /\ Len(file[BlobOf(s)]) < Len(BlobOf(s))
       /\ \A u \in Sweeps \ {s} : job[u].pc = "write" => BlobOf(u) # BlobOf(s)

-----------------------------------------------------------------------------
\* A finished call is well formed.
LEMMA DoneType == Done \in Jobs
  BY DEF Done, Jobs

\* The merged blob holds, at the position of each item of the batch, that
\* item's payload.
LEMMA MergedBlob ==
  ASSUME TypeOK, NEW s \in Sweeps
  PROVE  /\ BlobOf(s) \in Blobs
         /\ DOMAIN BlobOf(s) = DOMAIN job[s].marked
         /\ \A k \in DOMAIN job[s].marked :
              BlobOf(s)[k] = PayloadOf[job[s].marked[k]]
  <1> DEFINE m == job[s].marked
  <1>1. m \in Seq(Items)
    BY DEF TypeOK, Jobs
  <1>2. PICK n \in Nat : m \in [1 .. n -> Items] /\ DOMAIN m = 1 .. n
    BY <1>1, LenProperties
  <1>3. [k \in 1 .. n |-> PayloadOf[m[k]]] \in [1 .. n -> Payloads]
    BY <1>2, ArchiveAssumption
  <1>4. [k \in 1 .. n |-> PayloadOf[m[k]]] \in Seq(Payloads)
    BY <1>2, <1>3
  <1> QED BY <1>2, <1>4 DEF BlobOf, Blobs

\* A call continues as r: what the other calls are does not change.
LEMMA ContinueType ==
  ASSUME TypeOK, NEW s \in Sweeps, NEW r \in Jobs, Continue(s, r)
  PROVE  /\ job' \in [Sweeps -> Jobs]
         /\ job'[s] = r
         /\ \A u \in Sweeps \ {s} : job'[u] = job[u]
  BY DEF Continue, TypeOK

\* The inductive invariant holds in the initial states.
LEMMA InitIInv == Init => IInv
  <1> SUFFICES ASSUME Init PROVE IInv
    OBVIOUS
  <1>1. \A s \in Sweeps : job[s] = Done
    BY DEF Init
  <1>2. TypeOK
    BY DoneType, ArchiveAssumption DEF Init, TypeOK
  <1>3. /\ Done.pc = "idle" /\ Done.marked = <<>>
        /\ DOMAIN Done.marked = {}
    BY DEF Done
  <1> QED BY <1>1, <1>2, <1>3
          DEF Init, IInv, BlobBeforeRows, RowsNameSlices,
              MarkedAreArchived, PublishOnce, Announced

(***************************************************************************)
(* Steps of one call that change neither the zone, the manifest nor the    *)
(* events, and that do not start publishing.  Files may be added.          *)
(***************************************************************************)
LEMMA QuietStep ==
  ASSUME IInv, NEW s \in Sweeps, NEW r \in Jobs, Continue(s, r),
         UNCHANGED <<life, manifest, events>>,
         DOMAIN file \subseteq DOMAIN file', DOMAIN file' \subseteq Blobs,
         file' \in [DOMAIN file' -> Blobs], cut' \subseteq DOMAIN file',
         faults' \in 0 .. MaxFaults, crashes' \in 0 .. MaxCrashes,
         r.marked = <<>> \/ r.marked = job[s].marked,
         r.pc # "publish",
         r.pc \in {"write", "insert"} =>
           r.marked = job[s].marked /\ BlobOf(s) \in DOMAIN file',
         r.pc = "mark" =>
           /\ r.todo # <<>>
           /\ \A k \in DOMAIN r.marked : r.marked[k] # Head(r.todo),
         r.pc \in {"create", "write", "insert"} => r.marked # <<>>
  PROVE  IInv'
  <1>1. /\ job' \in [Sweeps -> Jobs]
        /\ job'[s] = r
        /\ \A u \in Sweeps \ {s} : job'[u] = job[u]
    BY ContinueType DEF IInv
  <1>2. TypeOK'
    BY <1>1 DEF IInv, TypeOK, Jobs, Entries, Blobs
  <1>3. BlobBeforeRows'
    BY <1>1 DEF IInv, BlobBeforeRows, BlobOf
  <1>4. RowsNameSlices'
    BY DEF IInv, RowsNameSlices
  <1>5. MarkedAreArchived'
    <2>1. \A k \in DOMAIN r.marked : k \in DOMAIN job[s].marked
                                     /\ r.marked[k] = job[s].marked[k]
      OBVIOUS
    <2> QED BY <1>1, <2>1 DEF IInv, MarkedAreArchived
  <1>6. PublishOnce'
    BY <1>1 DEF IInv, PublishOnce
  <1>7. Announced'
    BY DEF IInv, Announced
  <1> QED BY <1>2, <1>3, <1>4, <1>5, <1>6, <1>7 DEF IInv

\* Reading candidates keeps the inductive invariant.
LEMMA CandidateSteps ==
  ASSUME IInv, NEW s \in Sweeps,
         \/ Start(s) \/ Evaluate(s) \/ Skip(s) \/ CandidateFails(s)
         \/ EndCandidates(s)
  PROVE  IInv'
  <1>0. /\ job[s] \in Jobs /\ faults \in 0 .. MaxFaults
        /\ crashes \in 0 .. MaxCrashes
        /\ DOMAIN file \subseteq Blobs /\ file \in [DOMAIN file -> Blobs]
        /\ cut \subseteq DOMAIN file
    BY DEF IInv, TypeOK
  <1>1. CASE Start(s)
    <2>1. PICK list \in Lists :
            Continue(s, [Done EXCEPT !.pc = "read", !.todo = list])
      BY <1>1 DEF Start
    <2> DEFINE r == [Done EXCEPT !.pc = "read", !.todo = list]
    <2>2. r \in Jobs /\ r.pc = "read" /\ r.marked = <<>>
      <3>1. Done.marked = <<>>
        BY DEF Done
      <3>2. list \in Seq(Items)
        BY ArchiveAssumption
      <3> QED BY <3>1, <3>2, DoneType DEF Jobs
    <2>3. UNCHANGED <<life, file, cut, manifest, events, faults, crashes>>
      BY <1>1 DEF Start
    <2> HIDE DEF r
    <2> QED BY <1>0, <2>1, <2>2, <2>3, QuietStep DEF r
  <1>2. CASE Evaluate(s)
    <2> DEFINE r == [job[s] EXCEPT !.pc = "mark"]
    <2>1. /\ r \in Jobs /\ r.pc = "mark"
          /\ r.marked = job[s].marked /\ r.todo = job[s].todo
      BY <1>0 DEF Jobs
    <2>2. /\ Continue(s, r) /\ job[s].todo # <<>>
          /\ life[Head(job[s].todo)] = "compressed"
          /\ UNCHANGED <<life, file, cut, manifest, events, faults, crashes>>
      BY <1>2 DEF Evaluate, Goto
    <2>3. \A k \in DOMAIN job[s].marked : job[s].marked[k] # Head(job[s].todo)
      BY <2>2 DEF IInv, MarkedAreArchived
    <2> HIDE DEF r
    <2> QED BY <1>0, <2>1, <2>2, <2>3, QuietStep
  <1>3. CASE Skip(s) \/ CandidateFails(s)
    <2> DEFINE r == [job[s] EXCEPT !.pc = "read", !.todo = Tail(@)]
    <2>1. /\ Continue(s, r) /\ job[s].todo # <<>>
          /\ UNCHANGED <<life, file, cut, manifest, events, crashes>>
      BY <1>3 DEF Skip, CandidateFails, NextCandidate
    <2>2. Tail(job[s].todo) \in Seq(Items)
      BY <1>0, <2>1 DEF Jobs
    <2>3. r \in Jobs /\ r.pc = "read" /\ r.marked = job[s].marked
      BY <1>0, <2>2 DEF Jobs
    <2>4. faults' \in 0 .. MaxFaults
      BY <1>0, <1>3, ArchiveAssumption DEF Skip, CandidateFails, Fault
    <2> HIDE DEF r
    <2> QED BY <1>0, <2>1, <2>3, <2>4, QuietStep
  <1>4. CASE EndCandidates(s)
    <2>0. UNCHANGED <<life, file, cut, manifest, events, faults, crashes>>
      BY <1>4 DEF EndCandidates
    <2>1. CASE job[s].marked = <<>>
      <3>1. Continue(s, Done)
        BY <1>4, <2>1 DEF EndCandidates
      <3>2. Done.pc = "idle" /\ Done.marked = <<>>
        BY DEF Done
      <3> QED BY <1>0, <2>0, <3>1, <3>2, DoneType, QuietStep
    <2>2. CASE job[s].marked # <<>>
      <3> DEFINE r == [job[s] EXCEPT !.pc = "create"]
      <3>1. Continue(s, r)
        BY <1>4, <2>2 DEF EndCandidates, Goto
      <3>2. r \in Jobs /\ r.pc = "create" /\ r.marked = job[s].marked
        BY <1>0 DEF Jobs
      <3> HIDE DEF r
      <3> QED BY <1>0, <2>0, <2>2, <3>1, <3>2, QuietStep
    <2> QED BY <2>1, <2>2
  <1> QED BY <1>1, <1>2, <1>3, <1>4

\* So do the steps at the object store, and the failures of the manifest.
LEMMA StoreSteps ==
  ASSUME IInv, FilesInv, NEW s \in Sweeps,
         \/ BatchRefused(s) \/ CreateBlob(s) \/ WriteBlob(s)
         \/ StoreUnavailable(s) \/ InsertConflicts(s) \/ InsertFails(s)
  PROVE  IInv'
  <1>0. /\ job[s] \in Jobs /\ faults \in 0 .. MaxFaults
        /\ crashes \in 0 .. MaxCrashes
        /\ DOMAIN file \subseteq Blobs /\ file \in [DOMAIN file -> Blobs]
        /\ cut \subseteq DOMAIN file
        /\ BlobOf(s) \in Blobs
    BY MergedBlob DEF IInv, TypeOK
  <1>1. CASE CreateBlob(s)
    <2>1. PICK pc \in {"write", "insert"} : Goto(s, pc)
      BY <1>1 DEF CreateBlob
    <2>2. /\ job[s].pc = "create"
          /\ file' = [b \in DOMAIN file \cup {BlobOf(s)} |->
                        IF b \in DOMAIN file THEN file[b] ELSE <<>>]
          /\ UNCHANGED <<life, cut, manifest, events, faults, crashes>>
      BY <1>1 DEF CreateBlob
    <2>3. job[s].marked # <<>>
      BY <2>2 DEF IInv, MarkedAreArchived
    <2> DEFINE r == [job[s] EXCEPT !.pc = pc]
    <2>4. r \in Jobs /\ r.pc = pc /\ r.marked = job[s].marked /\ Continue(s, r)
      BY <1>0, <2>1 DEF Jobs, Goto
    <2> HIDE DEF r
    <2>5. pc # "publish" /\ pc # "mark"
      OBVIOUS
    <2>6. <<>> \in Blobs
      BY DEF Blobs
    <2>7. /\ DOMAIN file' = DOMAIN file \cup {BlobOf(s)}
          /\ file' \in [DOMAIN file' -> Blobs]
      BY <1>0, <2>2, <2>6
    <2> QED BY <1>0, <2>2, <2>3, <2>4, <2>5, <2>7, QuietStep
  <1>2. CASE WriteBlob(s)
    <2> DEFINE b == BlobOf(s)
               n == Len(file[b])
    <2>1. /\ file' = [file EXCEPT ![b] = Append(@, b[Len(@) + 1])]
          /\ job[s].pc = "write"
          /\ UNCHANGED <<life, cut, manifest, events, faults, crashes>>
      BY <1>2 DEF WriteBlob
    <2>2. job[s].marked # <<>> /\ b \in DOMAIN file /\ n < Len(b)
      BY <2>1 DEF IInv, FilesInv, MarkedAreArchived, BlobBeforeRows
    <2>3. Append(file[b], b[n + 1]) \in Blobs
      <3>1. file[b] \in Seq(Payloads) /\ b \in Seq(Payloads)
        BY <1>0, <2>2 DEF Blobs
      <3> HIDE DEF b
      <3>2. n + 1 \in 1 .. Len(b)
        BY <2>2, <3>1, LenProperties
      <3> QED BY <3>1, <3>2, ElementOfSeq, AppendProperties DEF Blobs
    <2>4. /\ DOMAIN file' = DOMAIN file
          /\ file' \in [DOMAIN file' -> Blobs]
      BY <1>0, <2>1, <2>2, <2>3
    <2>5. PICK pc \in {"write", "insert"} : Goto(s, pc)
      BY <1>2 DEF WriteBlob
    <2> DEFINE r == [job[s] EXCEPT !.pc = pc]
    <2>6. /\ r \in Jobs /\ r.pc = pc /\ r.marked = job[s].marked
          /\ Continue(s, r)
      BY <1>0, <2>5 DEF Jobs, Goto
    <2>7. pc # "publish" /\ pc # "mark"
      OBVIOUS
    <2> HIDE DEF r, n
    <2> QED BY <1>0, <2>1, <2>2, <2>4, <2>6, <2>7, QuietStep
  <1>3. CASE BatchRefused(s) \/ StoreUnavailable(s)
             \/ InsertConflicts(s) \/ InsertFails(s)
    <2>1. /\ Continue(s, Done) /\ faults' \in 0 .. MaxFaults
          /\ UNCHANGED <<life, file, manifest, events, crashes>>
      BY <1>0, <1>3, ArchiveAssumption
         DEF BatchRefused, StoreUnavailable, InsertConflicts, InsertFails, Fault
    <2>2. cut' \subseteq DOMAIN file
      BY <1>0, <1>3
         DEF BatchRefused, StoreUnavailable, InsertConflicts, InsertFails
    <2>3. Done.pc = "idle" /\ Done.marked = <<>>
      BY DEF Done
    <2> QED BY <1>0, <2>1, <2>2, <2>3, DoneType, QuietStep
  <1> QED BY <1>1, <1>2, <1>3

-----------------------------------------------------------------------------
\* mark_archived makes archived what the call will hand on.
LEMMA MarkStep ==
  ASSUME IInv, NEW s \in Sweeps, Mark(s)
  PROVE  IInv'
  <1> DEFINE i == Head(job[s].todo)
             m == job[s].marked
             r == [job[s] EXCEPT !.pc = "read", !.todo = Tail(@),
                                 !.marked = Append(@, i)]
  <1>0. /\ job[s] \in Jobs /\ life \in [Items -> {"compressed", "archived"}]
        /\ m \in Seq(Items) /\ job[s].todo \in Seq(Items)
    BY DEF IInv, TypeOK, Jobs
  <1>1. /\ job[s].pc = "mark" /\ Continue(s, r)
        /\ life' = [life EXCEPT ![i] = "archived"]
        /\ UNCHANGED <<file, cut, manifest, events, faults, crashes>>
    BY DEF Mark
  <1>2. /\ job[s].todo # <<>>
        /\ \A k \in DOMAIN m : m[k] # i
    BY <1>1 DEF IInv, MarkedAreArchived
  <1>3. i \in Items /\ Tail(job[s].todo) \in Seq(Items)
    BY <1>0, <1>2
  <1>4. r \in Jobs /\ r.pc = "read" /\ r.marked = Append(m, i)
    <2>1. Append(m, i) \in Seq(Items)
      BY <1>0, <1>3
    <2> HIDE DEF i
    <2> QED BY <1>0, <1>3, <2>1 DEF Jobs
  <1>5. /\ DOMAIN Append(m, i) = 1 .. Len(m) + 1
        /\ \A k \in 1 .. Len(m) : k \in DOMAIN m /\ Append(m, i)[k] = m[k]
        /\ Append(m, i)[Len(m) + 1] = i
        /\ Len(m) \in Nat
    BY <1>0, <1>3
  <1> HIDE DEF r, i
  <1>6. /\ job' \in [Sweeps -> Jobs] /\ job'[s] = r
        /\ \A u \in Sweeps \ {s} : job'[u] = job[u]
    BY <1>1, <1>4, ContinueType DEF IInv
  <1>7. /\ life' \in [Items -> {"compressed", "archived"}]
        /\ life'[i] = "archived"
        /\ \A j \in Items : life[j] = "archived" => life'[j] = "archived"
    BY <1>0, <1>1, <1>3
  <1>8. TypeOK'
    BY <1>1, <1>6, <1>7 DEF IInv, TypeOK, Jobs, Entries, Blobs
  <1>9. BlobBeforeRows'
    BY <1>1, <1>4, <1>6 DEF IInv, BlobBeforeRows, BlobOf
  <1>10. RowsNameSlices'
    BY <1>1 DEF IInv, RowsNameSlices
  <1>11. MarkedAreArchived'
    <2> SUFFICES ASSUME NEW u \in Sweeps
                 PROVE  (/\ \A k \in DOMAIN job[u].marked :
                              life[job[u].marked[k]] = "archived"
                         /\ \A j, k \in DOMAIN job[u].marked :
                              job[u].marked[j] = job[u].marked[k] => j = k
                         /\ job[u].pc = "mark" =>
                              /\ job[u].todo # <<>>
                              /\ \A k \in DOMAIN job[u].marked :
                                   job[u].marked[k] # Head(job[u].todo)
                         /\ job[u].pc \in {"create", "write", "insert", "publish"}
                              => job[u].marked # <<>>)'
      BY DEF MarkedAreArchived
    <2>1. CASE u # s
      <3>1. \A k \in DOMAIN job[u].marked : job[u].marked[k] \in Items
        BY DEF IInv, TypeOK, Jobs
      <3> QED BY <1>6, <1>7, <2>1, <3>1 DEF IInv, MarkedAreArchived
    <2>2. CASE u = s
      <3>1. job'[u].marked = Append(m, i) /\ job'[u].pc = "read"
        BY <1>4, <1>6, <2>2
      <3>2. \A k \in DOMAIN m : m[k] \in Items /\ life'[m[k]] = "archived"
        BY <1>0, <1>7 DEF IInv, MarkedAreArchived
      <3>3. \A k \in 1 .. Len(m) + 1 : life'[Append(m, i)[k]] = "archived"
        BY <1>5, <1>7, <3>2
      <3>4. \A j, k \in DOMAIN m : m[j] = m[k] => j = k
        BY DEF IInv, MarkedAreArchived
      <3>5. \A j, k \in 1 .. Len(m) + 1 :
              Append(m, i)[j] = Append(m, i)[k] => j = k
        BY <1>2, <1>5, <3>4
      <3> QED BY <1>5, <3>1, <3>3, <3>5
    <2> QED BY <2>1, <2>2
  <1>12. PublishOnce'
    BY <1>1, <1>4, <1>6 DEF IInv, PublishOnce
  <1>13. Announced'
    BY <1>1, <1>7 DEF IInv, Announced
  <1> QED BY <1>8, <1>9, <1>10, <1>11, <1>12, <1>13 DEF IInv

\* The rows of a batch name the blob the batch has written.
LEMMA InsertStep ==
  ASSUME IInv, NEW s \in Sweeps, InsertRows(s)
  PROVE  IInv'
  <1> DEFINE m == job[s].marked
             r == [job[s] EXCEPT !.pc = "publish"]
  <1>0. job[s] \in Jobs /\ m \in Seq(Items)
    BY DEF IInv, TypeOK, Jobs
  <1>1. /\ job[s].pc = "insert" /\ Continue(s, r)
        /\ \A i \in MarkedItems(s) : manifest[i] = NoEntry
        /\ manifest' = [i \in Items |-> IF i \in MarkedItems(s)
                                          THEN RowOf(s, i) ELSE manifest[i]]
        /\ UNCHANGED <<life, file, cut, events, faults, crashes>>
    BY DEF InsertRows, Goto
  <1>2. r \in Jobs /\ r.pc = "publish" /\ r.marked = m
    BY <1>0 DEF Jobs
  <1> HIDE DEF r
  <1>3. /\ job' \in [Sweeps -> Jobs] /\ job'[s] = r
        /\ \A u \in Sweeps \ {s} : job'[u] = job[u]
    BY <1>1, <1>2, ContinueType DEF IInv
  <1>4. ASSUME NEW i \in MarkedItems(s)
        PROVE  /\ RowOf(s, i) \in Entries
               /\ RowOf(s, i).blob = BlobOf(s)
               /\ RowOf(s, i).at \in DOMAIN BlobOf(s)
               /\ BlobOf(s)[RowOf(s, i).at] = PayloadOf[i]
    <2> DEFINE k == CHOOSE k \in DOMAIN m : m[k] = i
    <2>1. k \in DOMAIN m /\ m[k] = i
      BY DEF MarkedItems
    <2>2. RowOf(s, i) = [blob |-> BlobOf(s), at |-> k]
      BY DEF RowOf
    <2> HIDE DEF k
    <2>3. k \in Nat \ {0}
      <3>1. Len(m) \in Nat /\ DOMAIN m = 1 .. Len(m)
        BY <1>0, LenProperties
      <3> QED BY <2>1, <3>1
    <2> HIDE DEF m
    <2> QED BY <2>1, <2>2, <2>3, MergedBlob DEF IInv, Entries, m
  <1>5. TypeOK'
    <2>1. manifest' \in [Items -> Entries \cup {NoEntry}]
      BY <1>1, <1>4 DEF IInv, TypeOK
    <2> QED BY <1>1, <1>3, <2>1 DEF IInv, TypeOK, Jobs, Entries, Blobs
  <1>6. BlobBeforeRows'
    BY <1>1, <1>2, <1>3 DEF IInv, BlobBeforeRows, BlobOf
  <1>7. RowsNameSlices'
    <2>1. BlobOf(s) \in DOMAIN file
      BY <1>1 DEF IInv, BlobBeforeRows
    <2> QED BY <1>1, <1>4, <2>1 DEF IInv, RowsNameSlices
  <1>8. MarkedAreArchived'
    BY <1>1, <1>2, <1>3 DEF IInv, MarkedAreArchived
  <1>9. \A i \in Items : manifest[i] # NoEntry => manifest'[i] # NoEntry
    BY <1>1
  <1>10. \A k \in DOMAIN m : /\ m[k] \in MarkedItems(s) /\ m[k] \in Items
                             /\ manifest[m[k]] = NoEntry
    BY <1>0, <1>1 DEF MarkedItems
  <1>11. \A k \in DOMAIN m : events[m[k]] = 0
    BY <1>10 DEF IInv, Announced
  <1>12. \A u \in Sweeps \ {s} : job[u].pc = "publish" =>
           \A j \in DOMAIN job[u].marked :
             /\ job[u].marked[j] \in Items
             /\ manifest[job[u].marked[j]] # NoEntry
    BY DEF IInv, TypeOK, Jobs, PublishOnce
  <1>13. PublishOnce'
    <2>1. \A k \in DOMAIN m : manifest'[m[k]] # NoEntry
      BY <1>1, <1>4, <1>10, NoEntryAssumption
    <2>2. ASSUME NEW u \in Sweeps \ {s}, job[u].pc = "publish",
                 NEW k \in DOMAIN m, NEW j \in DOMAIN job[u].marked
          PROVE  m[k] # job[u].marked[j]
      BY <1>10, <1>12, <2>2
    <2> SUFFICES ASSUME NEW u \in Sweeps, job'[u].pc = "publish"
                 PROVE
                   (/\ \A k \in DOMAIN job[u].marked :
                         /\ manifest[job[u].marked[k]] # NoEntry
                         /\ events[job[u].marked[k]] = 0
                    /\ \A v \in Sweeps \ {u} : job[v].pc = "publish" =>
                         \A k \in DOMAIN job[u].marked,
                            j \in DOMAIN job[v].marked :
                           job[u].marked[k] # job[v].marked[j])'
      BY DEF PublishOnce
    <2>3. CASE u = s
      BY <1>1, <1>2, <1>3, <1>11, <2>1, <2>2, <2>3
    <2>4. CASE u # s
      <3>1. job'[u] = job[u] /\ job[u].pc = "publish"
        BY <1>3, <2>4
      <3>2. \A k \in DOMAIN job[u].marked :
              /\ manifest'[job[u].marked[k]] # NoEntry
              /\ events[job[u].marked[k]] = 0
        BY <1>9, <1>12, <2>4, <3>1 DEF IInv, PublishOnce
      <3>3. \A v \in Sweeps \ {u} : job'[v].pc = "publish" =>
              \A k \in DOMAIN job[u].marked, j \in DOMAIN job'[v].marked :
                job[u].marked[k] # job'[v].marked[j]
        BY <1>2, <1>3, <2>2, <2>4, <3>1 DEF IInv, PublishOnce
      <3> QED BY <1>1, <3>1, <3>2, <3>3
    <2> QED BY <2>3, <2>4
  <1>14. Announced'
    BY <1>1, <1>9 DEF IInv, Announced
  <1> QED BY <1>5, <1>6, <1>7, <1>8, <1>13, <1>14 DEF IInv

\* Publishing announces an item of the batch, which leaves the batch.
LEMMA PublishStep ==
  ASSUME IInv, NEW s \in Sweeps, Publish(s)
  PROVE  IInv'
  <1> DEFINE m == job[s].marked
             i == Head(m)
  <1>0. job[s] \in Jobs /\ m \in Seq(Items) /\ events \in [Items -> Nat]
    BY DEF IInv, TypeOK, Jobs
  <1>1. /\ job[s].pc = "publish" /\ events' = [events EXCEPT ![i] = @ + 1]
        /\ UNCHANGED <<life, file, cut, manifest, faults, crashes>>
    BY DEF Publish
  <1>2. m # <<>>
    BY <1>1 DEF IInv, MarkedAreArchived
  <1>3. /\ i \in Items /\ Tail(m) \in Seq(Items)
        /\ 1 \in DOMAIN m /\ m[1] = i
        /\ \A k \in DOMAIN Tail(m) : k + 1 \in DOMAIN m /\ Tail(m)[k] = m[k + 1]
                                     /\ k + 1 # 1
    BY <1>0, <1>2
  <1>4. /\ manifest[i] # NoEntry /\ life[i] = "archived" /\ events[i] = 0
        /\ \A k \in DOMAIN Tail(m) : Tail(m)[k] # i
    <2>1. \A k \in DOMAIN m : /\ manifest[m[k]] # NoEntry
                              /\ events[m[k]] = 0
                              /\ life[m[k]] = "archived"
      BY <1>1 DEF IInv, PublishOnce, MarkedAreArchived
    <2>2. \A j, k \in DOMAIN m : m[j] = m[k] => j = k
      BY DEF IInv, MarkedAreArchived
    <2> HIDE DEF i
    <2> QED BY <1>3, <2>1, <2>2
  <1> HIDE DEF i
  <1>5. /\ events' \in [Items -> Nat] /\ events'[i] = 1
        /\ \A j \in Items \ {i} : events'[j] = events[j]
    BY <1>0, <1>1, <1>3, <1>4
  <1>6. PICK r \in Jobs :
          /\ Continue(s, r)
          /\ r.pc = "publish" => r.marked # <<>>
          /\ r.pc \in {"idle", "publish"}
          /\ r.marked = <<>> \/ r.marked = Tail(m)
    <2>1. CASE Tail(m) = <<>>
      <3>1. Continue(s, Done)
        BY <2>1 DEF Publish
      <3>2. Done.pc = "idle" /\ Done.marked = <<>>
        BY DEF Done
      <3> QED BY <3>1, <3>2, DoneType
    <2>2. CASE Tail(m) # <<>>
      <3> DEFINE r == [job[s] EXCEPT !.marked = Tail(m)]
      <3>1. Continue(s, r)
        BY <2>2 DEF Publish
      <3>2. r \in Jobs /\ r.marked = Tail(m) /\ r.pc = "publish"
        BY <1>0, <1>1, <1>3 DEF Jobs
      <3> HIDE DEF r
      <3> QED BY <2>2, <3>1, <3>2
    <2> QED BY <2>1, <2>2
  <1>7. /\ job' \in [Sweeps -> Jobs] /\ job'[s] = r
        /\ \A u \in Sweeps \ {s} : job'[u] = job[u]
    BY <1>6, ContinueType DEF IInv
  <1>8. \A k \in DOMAIN r.marked :
          k + 1 \in DOMAIN m /\ r.marked[k] = m[k + 1] /\ r.marked[k] # i
          /\ k \in Nat
    <2>1. CASE r.marked = <<>>
      BY <2>1
    <2>2. CASE r.marked = Tail(m)
      <3>1. DOMAIN Tail(m) \subseteq Nat
        BY <1>3
      <3> QED BY <1>3, <1>4, <2>2, <3>1
    <2> QED BY <1>6, <2>1, <2>2
  <1>9. TypeOK'
    BY <1>1, <1>5, <1>7 DEF IInv, TypeOK, Jobs, Entries, Blobs
  <1>10. BlobBeforeRows' /\ RowsNameSlices'
    BY <1>1, <1>6, <1>7 DEF IInv, BlobBeforeRows, RowsNameSlices, BlobOf
  <1>11. MarkedAreArchived'
    <2>1. /\ \A k \in DOMAIN r.marked : life[r.marked[k]] = "archived"
          /\ \A j, k \in DOMAIN r.marked :
               r.marked[j] = r.marked[k] => j = k
      <3>1. /\ \A k \in DOMAIN m : life[m[k]] = "archived"
            /\ \A j, k \in DOMAIN m : m[j] = m[k] => j = k
        BY DEF IInv, MarkedAreArchived
      <3> HIDE DEF m
      <3> QED BY <1>8, <3>1
    <2> QED BY <1>1, <1>6, <1>7, <2>1 DEF IInv, MarkedAreArchived
  <1>12. PublishOnce'
    <2>1. ASSUME NEW u \in Sweeps \ {s}, job[u].pc = "publish",
                 NEW j \in DOMAIN job[u].marked
          PROVE  /\ job[u].marked[j] \in Items \ {i}
                 /\ manifest[job[u].marked[j]] # NoEntry
                 /\ events[job[u].marked[j]] = 0
                 /\ \A k \in DOMAIN m : m[k] # job[u].marked[j]
      BY <1>1, <1>3, <2>1 DEF IInv, TypeOK, Jobs, PublishOnce
    <2>2. \A k \in DOMAIN m : /\ m[k] \in Items /\ manifest[m[k]] # NoEntry
                              /\ events[m[k]] = 0
      BY <1>0, <1>1 DEF IInv, PublishOnce
    <2> HIDE DEF m
    <2>3. \A k \in DOMAIN r.marked : /\ manifest'[r.marked[k]] # NoEntry
                                     /\ events'[r.marked[k]] = 0
      BY <1>1, <1>5, <1>8, <2>2
    <2>4. \A u \in Sweeps \ {s} : job'[u].pc = "publish" =>
            /\ \A j \in DOMAIN job'[u].marked :
                 /\ manifest'[job'[u].marked[j]] # NoEntry
                 /\ events'[job'[u].marked[j]] = 0
            /\ \A k \in DOMAIN r.marked, j \in DOMAIN job'[u].marked :
                 r.marked[k] # job'[u].marked[j]
      BY <1>1, <1>5, <1>7, <1>8, <2>1
    <2>5. \A u, v \in Sweeps \ {s} :
            job[u].pc = "publish" /\ job[v].pc = "publish" /\ u # v =>
              \A k \in DOMAIN job[u].marked, j \in DOMAIN job[v].marked :
                job[u].marked[k] # job[v].marked[j]
      BY DEF IInv, PublishOnce
    <2> QED BY <1>7, <2>3, <2>4, <2>5 DEF PublishOnce
  <1>13. Announced'
    BY <1>1, <1>4, <1>5 DEF IInv, Announced
  <1> QED BY <1>9, <1>10, <1>11, <1>12, <1>13 DEF IInv

\* A crash forgets the calls and changes nothing that is stored.
LEMMA CrashStep ==
  ASSUME IInv, Crash
  PROVE  IInv'
  <1>1. /\ \A s \in Sweeps : job'[s] = Done
        /\ job' \in [Sweeps -> Jobs]
        /\ UNCHANGED <<life, file, manifest, events, faults>>
        /\ cut' \subseteq DOMAIN file
        /\ crashes' \in 0 .. MaxCrashes
    BY DoneType, ArchiveAssumption DEF Crash, IInv, TypeOK
  <1>2. Done.pc = "idle" /\ Done.marked = <<>> /\ DOMAIN Done.marked = {}
    BY DEF Done
  <1>3. TypeOK'
    BY <1>1 DEF IInv, TypeOK, Jobs, Entries, Blobs
  <1> QED BY <1>1, <1>2, <1>3
          DEF IInv, BlobBeforeRows, RowsNameSlices, MarkedAreArchived, PublishOnce,
              Announced

\* Every step keeps the inductive invariant.
LEMMA StepIInv == IInv /\ FilesInv /\ [Next]_vars => IInv'
  <1> SUFFICES ASSUME IInv, FilesInv, [Next]_vars PROVE IInv'
    OBVIOUS
  <1>1. CASE UNCHANGED vars
    BY <1>1
    DEF vars, IInv, TypeOK, Jobs, Entries, Blobs, BlobBeforeRows, BlobOf,
        RowsNameSlices, MarkedAreArchived, PublishOnce, Announced
  <1>2. CASE Crash
    BY <1>2, CrashStep
  <1>3. ASSUME NEW s \in Sweeps,
               \/ Start(s) \/ Evaluate(s) \/ Skip(s) \/ Mark(s)
               \/ CandidateFails(s) \/ EndCandidates(s)
               \/ BatchRefused(s) \/ CreateBlob(s) \/ WriteBlob(s)
               \/ StoreUnavailable(s) \/ InsertRows(s) \/ InsertConflicts(s)
               \/ InsertFails(s) \/ Publish(s)
        PROVE  IInv'
    BY <1>3, CandidateSteps, MarkStep, StoreSteps, InsertStep, PublishStep
  <1> QED BY <1>1, <1>2, <1>3 DEF Next

-----------------------------------------------------------------------------
\* A step of call s leaves the blobs that other calls are writing.
LEMMA StillWriting ==
  ASSUME TypeOK, NEW s \in Sweeps, NEW r, Continue(s, r)
  PROVE  /\ job'[s] = r
         /\ \A u \in Sweeps \ {s} : /\ job'[u] = job[u]
                                    /\ BlobOf(u)' = BlobOf(u)
                                    /\ \A b : Writing(u, b)' <=> Writing(u, b)
  <1>1. job'[s] = r /\ \A u \in Sweeps \ {s} : job'[u] = job[u]
    BY DEF Continue, TypeOK
  <1> QED BY <1>1 DEF BlobOf, Writing

\* No call is writing at first.
LEMMA InitFiles == Init => FilesInv
  <1> SUFFICES ASSUME Init PROVE FilesInv
    OBVIOUS
  <1>1. DOMAIN file = {} /\ \A s \in Sweeps : job[s].pc # "write"
    BY DEF Init, Done
  <1> QED BY <1>1 DEF FilesInv

\* A step that is no writer's, neither before nor after, leaves the files.
LEMMA FilesQuiet ==
  ASSUME IInv, FilesInv, NEW s \in Sweeps, NEW r, Continue(s, r),
         job[s].pc # "write", r.pc # "write", UNCHANGED <<file, cut>>
  PROVE  FilesInv'
  <1>1. /\ job'[s].pc # "write" /\ ~ \E b : Writing(s, b) \/ Writing(s, b)'
        /\ \A u \in Sweeps \ {s} : /\ job'[u] = job[u]
                                   /\ BlobOf(u)' = BlobOf(u)
                                   /\ \A b : Writing(u, b)' <=> Writing(u, b)
    BY StillWriting DEF IInv, Writing
  <1> QED BY <1>1 DEF FilesInv

\* The file that a call creates it goes on to write.
LEMMA FilesCreated ==
  ASSUME IInv, FilesInv, NEW s \in Sweeps, CreateBlob(s)
  PROVE  FilesInv'
  <1> DEFINE b == BlobOf(s)
  <1>1. /\ job[s].pc = "create" /\ UNCHANGED cut
        /\ file' = [x \in DOMAIN file \cup {b} |->
                      IF x \in DOMAIN file THEN file[x] ELSE <<>>]
    BY DEF CreateBlob
  <1>2. CASE b \in DOMAIN file
    <2>1. /\ Continue(s, [job[s] EXCEPT !.pc = "insert"])
          /\ [job[s] EXCEPT !.pc = "insert"].pc = "insert"
      BY <1>2 DEF CreateBlob, Goto, IInv, TypeOK, Jobs
    <2>2. file' = file
      BY <1>1, <1>2 DEF IInv, TypeOK
    <2> QED BY <1>1, <2>1, <2>2, FilesQuiet
  <1>3. CASE b \notin DOMAIN file
    <2> DEFINE r == [job[s] EXCEPT !.pc = "write"]
    <2>1. /\ Continue(s, r) /\ r.pc = "write" /\ r.marked = job[s].marked
      BY <1>3 DEF CreateBlob, Goto, IInv, TypeOK, Jobs
    <2> HIDE DEF r
    <2>2. /\ job'[s].pc = "write" /\ BlobOf(s)' = b
          /\ \A x : Writing(s, x)' <=> x = b
          /\ \A x : ~ Writing(s, x)
      BY <1>1, <2>1, StillWriting DEF IInv, BlobOf, Writing
    <2>3. \A u \in Sweeps \ {s} :
            /\ job'[u] = job[u] /\ BlobOf(u)' = BlobOf(u)
            /\ \A x : Writing(u, x)' <=> Writing(u, x)
      BY <2>1, StillWriting DEF IInv
    <2>4. \A u \in Sweeps : job[u].pc = "write" => BlobOf(u) \in DOMAIN file
      BY DEF IInv, BlobBeforeRows
    <2>5. /\ DOMAIN file' = DOMAIN file \cup {b} /\ file'[b] = <<>>
          /\ \A x \in DOMAIN file : file'[x] = file[x]
      BY <1>1, <1>3
    <2>6. Len(<<>>) = 0 /\ 0 < Len(b)
      <3>1. job[s].marked \in Seq(Items) /\ job[s].marked # <<>>
        BY <1>1 DEF IInv, TypeOK, Jobs, MarkedAreArchived
      <3>2. 1 \in DOMAIN job[s].marked
        BY <3>1
      <3>3. b \in Seq(Payloads) /\ 1 \in DOMAIN b
        BY <3>2, MergedBlob DEF IInv, Blobs
      <3> HIDE DEF b
      <3> QED BY <3>3, LenProperties
    <2> HIDE DEF b
    <2>7. ASSUME NEW x \in DOMAIN file'
          PROVE  /\ Len(file'[x]) <= Len(x)
                 /\ \A k \in 1 .. Len(file'[x]) : file'[x][k] = x[k]
                 /\ \/ Len(file'[x]) = Len(x) \/ x \in cut'
                    \/ \E u \in Sweeps : Writing(u, x)'
      <3>1. CASE x = b
        <4>1. Len(b) \in Nat
          BY <2>6, MergedBlob, LenProperties DEF IInv, Blobs, b
        <4> QED BY <2>2, <2>5, <2>6, <3>1, <4>1
      <3>2. CASE x # b
        <4>1. /\ x \in DOMAIN file /\ file'[x] = file[x]
          BY <2>5, <3>2
        <4>2. \A u \in Sweeps : Writing(u, x) => Writing(u, x)'
          BY <2>2, <2>3
        <4> QED BY <1>1, <4>1, <4>2 DEF FilesInv
      <3> QED BY <3>1, <3>2
    <2>8. ASSUME NEW u \in Sweeps, job'[u].pc = "write"
          PROVE  /\ Len(file'[BlobOf(u)']) < Len(BlobOf(u)')
                 /\ \A v \in Sweeps \ {u} :
                      job'[v].pc = "write" => BlobOf(v)' # BlobOf(u)'
      <3>1. \A v \in Sweeps \ {s} : job'[v].pc = "write" => BlobOf(v)' # b
        BY <1>3, <2>3, <2>4
      <3>2. CASE u = s
        BY <2>2, <2>3, <2>5, <2>6, <3>1, <3>2
      <3>3. CASE u # s
        <4>1. /\ job[u].pc = "write" /\ BlobOf(u)' = BlobOf(u)
              /\ BlobOf(u) \in DOMAIN file
          BY <2>3, <2>4, <2>8, <3>3
        <4>2. BlobOf(u) # b
          BY <1>3, <4>1
        <4>3. /\ Len(file[BlobOf(u)]) < Len(BlobOf(u))
              /\ \A v \in Sweeps \ {u} : job[v].pc = "write" => BlobOf(v) # BlobOf(u)
          BY <4>1 DEF FilesInv
        <4> QED BY <2>2, <2>3, <2>5, <4>1, <4>2, <4>3
      <3> QED BY <3>2, <3>3
    <2> QED BY <2>7, <2>8 DEF FilesInv
  <1> QED BY <1>2, <1>3

\* Its bytes arrive in order, and the call that brings the last stops writing.
LEMMA FilesWritten ==
  ASSUME IInv, FilesInv, NEW s \in Sweeps, WriteBlob(s)
  PROVE  FilesInv'
  <1> DEFINE b == BlobOf(s)
             n == Len(file[b])
             pc == IF n + 1 = Len(b) THEN "insert" ELSE "write"
             r == [job[s] EXCEPT !.pc = pc]
  <1>1. /\ job[s].pc = "write" /\ UNCHANGED cut
        /\ file' = [file EXCEPT ![b] = Append(@, b[Len(@) + 1])]
        /\ Continue(s, r)
    BY DEF WriteBlob, Goto
  <1>2. /\ b \in DOMAIN file /\ n < Len(b)
        /\ file[b] \in Seq(Payloads) /\ b \in Seq(Payloads)
        /\ \A k \in 1 .. n : file[b][k] = b[k]
        /\ \A u \in Sweeps \ {s} : job[u].pc = "write" => BlobOf(u) # b
    BY <1>1, MergedBlob DEF IInv, TypeOK, BlobBeforeRows, FilesInv, Blobs
  <1>3. r.pc = pc /\ r.marked = job[s].marked
    BY DEF IInv, TypeOK, Jobs
  <1> HIDE DEF r
  <1>4. /\ job'[s].pc = pc /\ BlobOf(s)' = b
        /\ \A x : Writing(s, x)' <=> (pc = "write" /\ x = b)
        /\ \A x : Writing(s, x) <=> x = b
    <2>1. job'[s] = r
      BY <1>1, StillWriting DEF IInv
    <2> HIDE DEF pc
    <2>2. job'[s].pc = pc /\ BlobOf(s)' = b
      BY <1>3, <2>1 DEF BlobOf
    <2> HIDE DEF b
    <2> QED BY <1>1, <2>2 DEF Writing, b
  <1>5. \A u \in Sweeps \ {s} :
          /\ job'[u] = job[u] /\ BlobOf(u)' = BlobOf(u)
          /\ \A x : Writing(u, x)' <=> Writing(u, x)
    BY <1>1, StillWriting DEF IInv
  <1>6. /\ DOMAIN file' = DOMAIN file
        /\ file'[b] = Append(file[b], b[n + 1])
        /\ \A x \in DOMAIN file \ {b} : file'[x] = file[x]
    BY <1>1, <1>2 DEF IInv, TypeOK
  <1> HIDE DEF b
  <1>7. /\ n \in Nat /\ Len(b) \in Nat /\ Len(file'[b]) = n + 1
        /\ \A k \in 1 .. n + 1 : file'[b][k] = b[k]
    <2>1. n \in Nat /\ Len(b) \in Nat
      BY <1>2, LenProperties
    <2>2. b[n + 1] \in Payloads
      BY <1>2, <2>1, ElementOfSeq
    <2>3. /\ Len(file'[b]) = n + 1
          /\ \A k \in 1 .. n + 1 :
               file'[b][k] = IF k = n + 1 THEN b[n + 1] ELSE file[b][k]
      BY <1>2, <1>6, <2>2, AppendProperties
    <2> QED BY <1>2, <2>1, <2>3
  <1>8. ASSUME NEW x \in DOMAIN file'
        PROVE  /\ Len(file'[x]) <= Len(x)
               /\ \A k \in 1 .. Len(file'[x]) : file'[x][k] = x[k]
               /\ \/ Len(file'[x]) = Len(x) \/ x \in cut'
                  \/ \E u \in Sweeps : Writing(u, x)'
    <2>1. CASE x = b
      <3>1. Len(file'[x]) = Len(x) \/ Writing(s, x)'
        BY <1>4, <1>7, <2>1
      <3> HIDE DEF n, pc
      <3>2. n + 1 <= Len(b)
        BY <1>2, <1>7 DEF n
      <3> QED BY <1>7, <2>1, <3>1, <3>2
    <2>2. CASE x # b
      <3>1. x \in DOMAIN file /\ file'[x] = file[x]
        BY <1>6, <2>2
      <3>2. \A u \in Sweeps : Writing(u, x) => Writing(u, x)'
        BY <1>4, <1>5, <2>2
      <3> QED BY <1>1, <3>1, <3>2 DEF FilesInv
    <2> QED BY <2>1, <2>2
  <1>9. ASSUME NEW u \in Sweeps, job'[u].pc = "write"
        PROVE  /\ Len(file'[BlobOf(u)']) < Len(BlobOf(u)')
               /\ \A v \in Sweeps \ {u} :
                    job'[v].pc = "write" => BlobOf(v)' # BlobOf(u)'
    <2>1. CASE u = s
      <3>1. n + 1 # Len(b)
        BY <1>4, <1>9, <2>1
      <3> HIDE DEF n, pc
      <3>2. n + 1 < Len(b)
        BY <1>2, <1>7, <3>1 DEF n
      <3> QED BY <1>2, <1>4, <1>5, <1>7, <2>1, <3>2
    <2>2. CASE u # s
      <3>1. job[u].pc = "write" /\ BlobOf(u)' = BlobOf(u) /\ BlobOf(u) # b
        BY <1>2, <1>5, <1>9, <2>2
      <3>2. /\ Len(file[BlobOf(u)]) < Len(BlobOf(u))
            /\ \A v \in Sweeps \ {u} : job[v].pc = "write" => BlobOf(v) # BlobOf(u)
            /\ BlobOf(u) \in DOMAIN file
        BY <3>1 DEF FilesInv, IInv, BlobBeforeRows
      <3> QED BY <1>4, <1>5, <1>6, <3>1, <3>2
    <2> QED BY <2>1, <2>2
  <1> QED BY <1>8, <1>9 DEF FilesInv

\* A writer that stops leaves its blob among those that were cut short.
LEMMA FilesLeft ==
  ASSUME IInv, FilesInv,
         \/ Crash
         \/ \E s \in Sweeps : job[s].pc = "write" /\ StoreUnavailable(s)
  PROVE  FilesInv'
  <1>1. Done.pc = "idle"
    BY DEF Done
  <1>2. CASE Crash
    <2>1. /\ UNCHANGED file
          /\ cut' = cut \cup {b \in DOMAIN file : \E s \in Sweeps : Writing(s, b)}
          /\ \A s \in Sweeps : job'[s] = Done
      BY <1>2 DEF Crash
    <2> QED BY <1>1, <2>1 DEF FilesInv
  <1>3. ASSUME NEW s \in Sweeps, job[s].pc = "write", StoreUnavailable(s)
        PROVE  FilesInv'
    <2>1. /\ UNCHANGED file
          /\ cut' = cut \cup {b \in DOMAIN file : Writing(s, b)}
          /\ Continue(s, Done)
      BY <1>3 DEF StoreUnavailable
    <2>2. /\ job'[s].pc # "write" /\ ~ \E b : Writing(s, b)'
          /\ \A u \in Sweeps \ {s} :
               /\ job'[u] = job[u] /\ BlobOf(u)' = BlobOf(u)
               /\ \A b : Writing(u, b)' <=> Writing(u, b)
      BY <1>1, <2>1, StillWriting DEF IInv, Writing
    <2> QED BY <2>1, <2>2 DEF FilesInv
  <1> QED BY <1>2, <1>3

\* Every step keeps what the files hold.
LEMMA FilesStep == IInv /\ FilesInv /\ [Next]_vars => FilesInv'
  <1> SUFFICES ASSUME IInv, FilesInv, [Next]_vars PROVE FilesInv'
    OBVIOUS
  <1>0. \A s \in Sweeps : job[s] \in Jobs
    BY DEF IInv, TypeOK
  <1>1. CASE UNCHANGED vars
    BY <1>1 DEF vars, FilesInv, Writing, BlobOf
  <1>2. CASE Crash
    BY <1>2, FilesLeft
  <1>3. ASSUME NEW s \in Sweeps, CreateBlob(s) \/ WriteBlob(s)
        PROVE  FilesInv'
    BY <1>3, FilesCreated, FilesWritten
  <1>4. ASSUME NEW s \in Sweeps, StoreUnavailable(s)
        PROVE  FilesInv'
    <2>1. CASE job[s].pc = "write"
      BY <1>4, <2>1, FilesLeft
    <2>2. CASE job[s].pc # "write"
      <3>1. Continue(s, Done) /\ UNCHANGED <<file, cut>> /\ Done.pc = "idle"
        BY <1>4, <2>2 DEF StoreUnavailable, Writing, Done
      <3> QED BY <2>2, <3>1, FilesQuiet
    <2> QED BY <2>1, <2>2
  <1>5. ASSUME NEW s \in Sweeps,
               \/ Start(s) \/ Evaluate(s) \/ Skip(s) \/ Mark(s)
               \/ CandidateFails(s) \/ EndCandidates(s) \/ BatchRefused(s)
               \/ InsertRows(s) \/ InsertConflicts(s) \/ InsertFails(s)
               \/ Publish(s)
        PROVE  FilesInv'
    <2>1. job[s].pc # "write" /\ UNCHANGED <<file, cut>>
      BY <1>5 DEF Start, Evaluate, Skip, Mark, CandidateFails, EndCandidates,
                  BatchRefused, InsertRows, InsertConflicts, InsertFails, Publish
    <2>2. \E r : Continue(s, r) /\ r.pc # "write"
      <3>0. Done \in Jobs /\ Done.pc = "idle"
        BY DoneType DEF Done
      <3>1. CASE Start(s)
        <4>1. PICK list : Continue(s, [Done EXCEPT !.pc = "read", !.todo = list])
          BY <3>1 DEF Start
        <4>2. [Done EXCEPT !.pc = "read", !.todo = list].pc = "read"
          BY <3>0 DEF Jobs
        <4> QED BY <4>1, <4>2
      <3>2. CASE Mark(s)
        <4> DEFINE r == [job[s] EXCEPT !.pc = "read", !.todo = Tail(@),
                           !.marked = Append(@, Head(job[s].todo))]
        <4>1. Continue(s, r) /\ r.pc = "read"
          BY <1>0, <3>2 DEF Mark, Jobs
        <4> HIDE DEF r
        <4> QED BY <4>1
      <3>3. CASE Publish(s)
        <4> DEFINE r == [job[s] EXCEPT !.marked = Tail(@)]
        <4>1. r.pc = "publish" /\ (Continue(s, Done) \/ Continue(s, r))
          BY <1>0, <3>3 DEF Jobs, Publish
        <4> HIDE DEF r
        <4> QED BY <3>0, <4>1
      <3>4. CASE Evaluate(s) \/ InsertRows(s)
        <4>1. PICK pc \in {"mark", "publish"} : Goto(s, pc)
          BY <3>4 DEF Evaluate, InsertRows
        <4>2. [job[s] EXCEPT !.pc = pc].pc = pc
          BY <1>0 DEF Jobs
        <4> QED BY <4>1, <4>2 DEF Goto
      <3>5. CASE Skip(s) \/ CandidateFails(s)
        <4> DEFINE r == [job[s] EXCEPT !.pc = "read", !.todo = Tail(@)]
        <4>1. Continue(s, r) /\ r.pc = "read"
          BY <1>0, <3>5 DEF Skip, CandidateFails, NextCandidate, Jobs
        <4> HIDE DEF r
        <4> QED BY <4>1
      <3>6. CASE BatchRefused(s) \/ InsertConflicts(s) \/ InsertFails(s)
        BY <3>0, <3>6 DEF BatchRefused, InsertConflicts, InsertFails
      <3>7. CASE EndCandidates(s)
        <4>1. Continue(s, Done) \/ Goto(s, "create")
          BY <3>7 DEF EndCandidates
        <4>2. [job[s] EXCEPT !.pc = "create"].pc = "create"
          BY <1>0 DEF Jobs
        <4> QED BY <3>0, <4>1, <4>2 DEF Goto
      <3> QED BY <1>5, <3>1, <3>2, <3>3, <3>4, <3>5, <3>6, <3>7
    <2> QED BY <2>1, <2>2, FilesQuiet
  <1> QED BY <1>1, <1>2, <1>3, <1>4, <1>5 DEF Next

-----------------------------------------------------------------------------
\* The state stays well formed.
THEOREM ArchiveTypeCorrect == Spec => []TypeOK
  <1>1. IInv => TypeOK
    BY DEF IInv
  <1> QED BY <1>1, InitIInv, InitFiles, StepIInv, FilesStep, PTL DEF Spec

\* A reader gets the item's own payload, or falls off the end of a file whose
\* own write is under way, failed or was stopped: the file holds a beginning of
\* its blob, and the row names the item's slice of the blob.
THEOREM RowsResolve == Spec => []RowResolves
  <1>1. IInv /\ FilesInv => RowResolves
    <2> SUFFICES ASSUME IInv, FilesInv, NEW i \in Items, manifest[i] # NoEntry,
                        NEW b, b = manifest[i].blob
                 PROVE  /\ b \in DOMAIN file
                        /\ ReadBlobRange(i) \in {<<PayloadOf[i]>>, <<>>}
                        /\ ReadBlobRange(i) = <<>> =>
                             b \in cut \/ \E s \in Sweeps : Writing(s, b)
      BY DEF RowResolves
    <2> DEFINE at == manifest[i].at
    <2>1. /\ b \in DOMAIN file /\ at \in DOMAIN b /\ b[at] = PayloadOf[i]
      BY DEF IInv, RowsNameSlices
    <2>2. b \in Seq(Payloads) /\ file[b] \in Seq(Payloads)
      BY <2>1 DEF IInv, TypeOK, Blobs
    <2>3. DOMAIN b = 1 .. Len(b) /\ DOMAIN file[b] = 1 .. Len(file[b])
      BY <2>2, LenProperties
    <2>4. /\ \A k \in 1 .. Len(file[b]) : file[b][k] = b[k]
          /\ \/ Len(file[b]) = Len(b) \/ b \in cut
             \/ \E s \in Sweeps : Writing(s, b)
      BY <2>1 DEF FilesInv
    <2>5. ReadBlobRange(i) = IF at \in DOMAIN file[b] THEN <<file[b][at]>> ELSE <<>>
      BY DEF ReadBlobRange
    <2> HIDE DEF at
    <2>6. CASE at \in DOMAIN file[b]
      <3>1. ReadBlobRange(i) = <<PayloadOf[i]>>
        BY <2>1, <2>3, <2>4, <2>5, <2>6
      <3>2. <<PayloadOf[i]>> # <<>>
        OBVIOUS
      <3> QED BY <2>1, <3>1, <3>2
    <2>7. CASE at \notin DOMAIN file[b]
      <3>1. Len(file[b]) # Len(b)
        BY <2>1, <2>3, <2>7
      <3> QED BY <2>1, <2>4, <2>5, <2>7, <3>1
    <2> QED BY <2>6, <2>7
  <1> QED BY <1>1, InitIInv, InitFiles, StepIInv, FilesStep, PTL DEF Spec

\* memory.archived is published at most once for an item, and only for one
\* that is archived and has its manifest row.
THEOREM ArchivedIsAnnouncedOnce == Spec => []AnnouncedOnce
  <1>1. IInv => AnnouncedOnce
    <2> SUFFICES ASSUME Announced, NEW i \in Items
                 PROVE  /\ events[i] <= 1
                        /\ events[i] = 1 =>
                             manifest[i] # NoEntry /\ life[i] = "archived"
      BY DEF IInv, AnnouncedOnce
    <2> QED BY DEF Announced
  <1> QED BY <1>1, InitIInv, InitFiles, StepIInv, FilesStep, PTL DEF Spec

\* No call ever changes a manifest row.
THEOREM RowsNeverChange == Spec => RowsAreFinal
  <1>1. [Next]_vars =>
          [\A i \in Items : manifest[i] # NoEntry => manifest'[i] = manifest[i]]_vars
    <2> SUFFICES ASSUME Next, NEW i \in Items, manifest[i] # NoEntry
                 PROVE  manifest'[i] = manifest[i]
      OBVIOUS
    <2>1. ASSUME NEW s \in Sweeps, InsertRows(s)
          PROVE  manifest'[i] = manifest[i]
      BY <2>1 DEF InsertRows
    <2> QED BY <2>1
            DEF Next, Start, Evaluate, Skip, Mark, CandidateFails,
                EndCandidates, BatchRefused, CreateBlob, WriteBlob,
                StoreUnavailable, InsertConflicts, InsertFails, Publish, Crash
  <1> QED BY <1>1, PTL DEF Spec, RowsAreFinal
=============================================================================
