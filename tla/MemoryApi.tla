------------------------------ MODULE MemoryApi ------------------------------
(***************************************************************************)
(* Memory items as a client of the HTTP API sees them: writeMemory puts an *)
(* item into a zone, mirrors it to the working memory (Zone 1) and         *)
(* registers it; updateItem and deleteItem go through the registry alone;  *)
(* assembleContext and searchMemory read the zones and fill a token        *)
(* budget.  Zone 1 is an ordered dictionary for every session of a tenant, *)
(* least recently used first, with a capacity and an idle TTL.             *)
(*                                                                         *)
(* Requests run in threads of one process: each step below holds one lock, *)
(* and requests meet between any two.  Payloads are left out, as are the   *)
(* process's restart (everything here but the episodes is in memory), the  *)
(* writes that name entities (ConflictAwareWrites) and hence the           *)
(* candidates of Zone 5, and credentials.  The clock does not step back.   *)
(***************************************************************************)
EXTENDS Naturals, FiniteSets, Sequences, SequencesExt

CONSTANTS Calls,      \* requests, each served once
          Requests,   \* Requests[c]: what call c may ask for
          Tenants, Sessions,
          Hashes,     \* task signature hashes
          Tokens,     \* Tokens[c]: the length of the text call c writes
          Capacity, TTL,
          MaxClock    \* bound

\* A written item is called after its call (a UUID), or has the hash of its
\* task.  So are RegisteredItem objects: one per write.
Names == Calls \cup Hashes
SessionKeys == Tenants \X Sessions
ZoneNames == {"working", "procedural", "episodic", "semantic", "entity"}

Writes == [op : {"write"}, tenant : Tenants, session : Sessions,
           zone : ZoneNames, hash : Hashes]
ItemRequests == [op : {"get", "update", "delete"}, tenant : Tenants, item : Names]
Assemblies == [op : {"assemble"}, tenant : Tenants, zones : SUBSET ZoneNames,
               hash : Hashes, budget : Nat, max : Nat]

ASSUME ApiAssumption ==
  /\ Capacity \in Nat \ {0} /\ TTL \in Nat \ {0} /\ MaxClock \in Nat
  /\ Tokens \in [Calls -> Nat \ {0}]
  /\ Calls \cap Hashes = {}
  /\ Requests \in [Calls -> SUBSET (Writes \cup ItemRequests \cup Assemblies)]

VARIABLES clock,
          zone1,       \* zone1[t, s]: the session's items, oldest access first
          opened,      \* sessions of _sessions: those that were ever written
          procedures,  \* Zone 4: the tenants' committed hashes
          episodes,    \* Zone 2: committed rows
          registry,    \* ItemRegistry: the object put under <<tenant, item>>
          dead,        \* the objects marked as deleted
          call,        \* call[c]: where it is
          kept,        \* history: what the assembly of c should find
          evicted,     \* history: entries Zone 1 has dropped
          gone         \* history: answered deletions, see Delete

zones == <<procedures, episodes>>
items == <<registry, dead>>
history == <<kept, evicted, gone>>
vars == <<clock, zone1, opened, zones, items, call, history>>

\* The zones build_app_context hands to the orchestrator.
Registered == {"working", "procedural", "entity"}

Pcs == {"idle", "mirror", "register", "put_back", "working", "procedural",
        "accepted", "refused", "found", "not_found", "assembled"}
NoRequest == [op |-> "none"]
Idle == [pc |-> "idle", req |-> NoRequest, obj |-> {}, unread |-> {},
         found |-> {}, result |-> <<>>]

Init == /\ clock = 0
        /\ zone1 = [k \in SessionKeys |-> <<>>]
        /\ opened = {} /\ procedures = {} /\ episodes = {}
        /\ registry = [k \in {} |-> k] /\ dead = {}
        /\ call = [c \in Calls |-> Idle]
        /\ kept = [c \in Calls |-> {}] /\ evicted = {} /\ gone = {}

At(c, pc) == call[c].pc = pc
Req(c) == call[c].req
Goto(c, pc) == call' = [call EXCEPT ![c].pc = pc]
Begin(c, r, pc) ==
  /\ At(c, "idle") /\ r \in Requests[c]
  /\ call' = [call EXCEPT ![c] = [Idle EXCEPT !.pc = pc, !.req = r]]

Tick == /\ clock < MaxClock
        /\ clock' = clock + 1
        /\ UNCHANGED <<zone1, opened, zones, items, call, history>>

-----------------------------------------------------------------------------
(***************************************************************************)
(* WorkingMemoryLRURepository: what a session holds, under its lock.       *)
(***************************************************************************)
\* _evict_expired_locked: it stops at the first entry that is not idle.
Live(q) ==
  LET fresh == {i \in DOMAIN q : clock - q[i].last < TTL}
  IN  IF fresh = {} THEN <<>> ELSE SubSeq(q, Min(fresh), Len(q))

Without(q, n) ==
  IF \E i \in DOMAIN q : q[i].item = n
  THEN RemoveAt(q, CHOOSE i \in DOMAIN q : q[i].item = n) ELSE q
\* popitem(last=False) while there are too many.
Youngest(q) ==
  IF Len(q) > Capacity THEN SubSeq(q, Len(q) - Capacity + 1, Len(q)) ELSE q
Entry(n, tokens) == [item |-> n, tokens |-> tokens, last |-> clock]

\* Mutant: an item that is written again keeps its place.
PutInPlace(q, n, tokens) ==
  LET live == Live(q)
  IN  IF \E i \in DOMAIN live : live[i].item = n
      THEN [i \in DOMAIN live |->
              IF live[i].item = n THEN Entry(n, tokens) ELSE live[i]]
      ELSE Youngest(Append(live, Entry(n, tokens)))

Put(q, n, tokens) ==
  Youngest(Append(Without(Live(q), n), Entry(n, tokens)))

Held(z) == {k \in Tenants \X Sessions \X Names :
              \E e \in ToSet(z[<<k[1], k[2]>>]) : e.item = k[3]}

\* The session's entries become q; what the change drops is remembered.
Zone1Becomes(k, q) ==
  /\ zone1' = [zone1 EXCEPT ![k] = q]
  /\ LET dropped == Held(zone1) \ Held(zone1')
     IN  /\ kept' = [c \in Calls |-> kept[c] \ dropped]
         /\ evicted' = (evicted \cup dropped) \ Held(zone1')
  /\ UNCHANGED gone

\* get: a host reads an item of its session, which is now the youngest.
Get(k, n) ==
  /\ \E e \in ToSet(Live(zone1[k])) :
       e.item = n /\ Zone1Becomes(k, Put(zone1[k], n, e.tokens))
  /\ UNCHANGED <<clock, opened, zones, items, call>>

\* evict_expired, session_item_count, and a get that finds nothing.
EvictExpired(k) ==
  /\ Live(zone1[k]) # zone1[k]
  /\ Zone1Becomes(k, Live(zone1[k]))
  /\ UNCHANGED <<clock, opened, zones, items, call>>

-----------------------------------------------------------------------------
(***************************************************************************)
(* _do_write, for one item of writeMemory or writeMemoryBatch.             *)
(***************************************************************************)
ItemOf(c) == IF Req(c).zone = "procedural" THEN Req(c).hash ELSE c
SessionOf(c) == <<Req(c).tenant, Req(c).session>>

\* working_repository.put.
PutIn(k, n, tokens) ==
  /\ opened' = opened \cup {k}
  /\ Zone1Becomes(k, Put(zone1[k], n, tokens))

WriteWorking(c, r) ==
  /\ r.op = "write" /\ r.zone = "working"
  /\ Begin(c, r, "register")
  /\ PutIn(<<r.tenant, r.session>>, c, Tokens[c])
  /\ UNCHANGED <<clock, zones, items>>

\* InMemoryProceduralMemoryRepository.commit.
WriteProcedural(c, r) ==
  /\ r.op = "write" /\ r.zone = "procedural"
  /\ Begin(c, r, "mirror")
  /\ procedures' = procedures \cup {<<r.tenant, r.hash>>}
  /\ UNCHANGED <<clock, zone1, opened, episodes, items, history>>

\* SqlEpisodicRepository.append: the key is (tenant, session, seq), and every
\* episode of the API has seq 0.
AppendEpisode(c, r) ==
  /\ r.op = "write" /\ r.zone = "episodic"
  /\ \A e \in episodes : <<e[1], e[2]>> # <<r.tenant, r.session>>
  /\ Begin(c, r, "mirror")
  /\ episodes' = episodes \cup {<<r.tenant, r.session, c>>}
  /\ UNCHANGED <<clock, zone1, opened, procedures, items, history>>

\* The row's key exists, or the statement fails (it may at any time): 503.
EpisodeFails(c, r) ==
  /\ r.op = "write" /\ r.zone = "episodic"
  /\ Begin(c, r, "refused")
  /\ UNCHANGED <<clock, zone1, opened, zones, items, history>>

\* Zone 1 holds what the other zones are given as well (ADR-002).
Mirror(c) ==
  /\ At(c, "mirror")
  /\ PutIn(SessionOf(c), ItemOf(c), Tokens[c])
  /\ Goto(c, "register")
  /\ UNCHANGED <<clock, zones, items>>

\* ItemRegistry.put, WriteStatusStore.record and the 202.
Register(c) ==
  /\ At(c, "register")
  /\ LET key == <<Req(c).tenant, ItemOf(c)>>
     IN  registry' = [k \in DOMAIN registry \cup {key} |->
                        IF k = key THEN c ELSE registry[k]]
  /\ Goto(c, "accepted")
  /\ UNCHANGED <<clock, zone1, opened, zones, dead, history>>

-----------------------------------------------------------------------------
(***************************************************************************)
(* The routes on one item: getItem and the other reads of it, updateItem,  *)
(* deleteItem.                                                             *)
(***************************************************************************)
\* ItemRegistry.get.
Visible(k) == k \in DOMAIN registry /\ registry[k] \notin dead

Read(c, r) ==
  /\ r.op = "get" /\ Visible(<<r.tenant, r.item>>)
  /\ Begin(c, r, "found")
  /\ UNCHANGED <<clock, zone1, opened, zones, items, history>>

\* The route has the object itself, not a copy.
LookUp(c, r) ==
  /\ r.op = "update" /\ Visible(<<r.tenant, r.item>>)
  /\ At(c, "idle") /\ r \in Requests[c]
  /\ call' = [call EXCEPT ![c] =
                [Idle EXCEPT !.pc = "put_back", !.req = r,
                             !.obj = {registry[<<r.tenant, r.item>>]}]]
  /\ UNCHANGED <<clock, zone1, opened, zones, items, history>>

\* Mutant: what is put back is a copy made when the item was looked up.
PutBackCopy(c) ==
  /\ At(c, "put_back")
  /\ \E o \in call[c].obj :
       /\ registry' = [registry EXCEPT ![<<Req(c).tenant, Req(c).item>>] = o]
       /\ dead' = dead \ {o}
  /\ Goto(c, "accepted")
  /\ UNCHANGED <<clock, zone1, opened, zones, history>>

PutBack(c) ==
  /\ At(c, "put_back")
  /\ \E o \in call[c].obj :
       registry' = [registry EXCEPT ![<<Req(c).tenant, Req(c).item>>] = o]
  /\ Goto(c, "accepted")
  /\ UNCHANGED <<clock, zone1, opened, zones, dead, history>>

\* The objects registered under k so far, and those that updates under way hold.
Objects(k) == {c \in Calls : /\ At(c, "accepted") /\ Req(c).op = "write"
                              /\ <<Req(c).tenant, ItemOf(c)>> = k}
InHand(k) ==
  {o \in Calls : \E c \in Calls : /\ At(c, "put_back") /\ o \in call[c].obj
                                  /\ <<Req(c).tenant, Req(c).item>> = k}

\* mark_deleted; the zones keep the item.  In gone, the deletion buries the
\* object it marks, and the earlier ones of the item except those in hand.
Delete(c, r) ==
  LET k == <<r.tenant, r.item>>
  IN  /\ r.op = "delete" /\ Visible(k)
      /\ Begin(c, r, "accepted")
      /\ dead' = dead \cup {registry[k]}
      /\ gone' = gone \cup
           {[key |-> k, buried |-> (Objects(k) \ InHand(k)) \cup {registry[k]}]}
      /\ UNCHANGED <<clock, zone1, opened, zones, registry, kept, evicted>>

NotFound(c, r) ==
  /\ r.op \in {"get", "update", "delete"} /\ ~Visible(<<r.tenant, r.item>>)
  /\ Begin(c, r, "not_found")
  /\ UNCHANGED <<clock, zone1, opened, zones, items, history>>

-----------------------------------------------------------------------------
(***************************************************************************)
(* MemoryOrchestrator.assemble_context.  A zone without a repository makes *)
(* the result degraded and gives nothing.                                  *)
(***************************************************************************)
\* Entries of answered writes that Zone 1 has not dropped since.
Remembered(t) ==
  {k \in {<<t, SessionOf(c)[2], ItemOf(c)>> :
            c \in {d \in Calls : At(d, "accepted") /\ Req(d).op = "write"
                                   /\ Req(d).tenant = t}} : k \notin evicted}

\* The sessions to read: those of the tenant that exist when the fetch begins.
Unread(r) == {k \in opened : k[1] = r.tenant /\ "working" \in r.zones}

Assemble(c, r) ==
  /\ r.op = "assemble"
  /\ At(c, "idle") /\ r \in Requests[c]
  /\ call' = [call EXCEPT ![c] =
       [Idle EXCEPT !.pc = "working", !.req = r, !.unread = Unread(r)]]
  /\ kept' = [kept EXCEPT ![c] =
                IF "working" \in r.zones THEN Remembered(r.tenant) ELSE {}]
  /\ UNCHANGED <<clock, zone1, opened, zones, items, evicted, gone>>

\* fetch, for one session: it counts as no access.
ReadSession(c, k) ==
  /\ At(c, "working") /\ k \in call[c].unread
  /\ Zone1Becomes(k, Live(zone1[k]))
  /\ call' = [call EXCEPT ![c].unread = @ \ {k},
                          ![c].found = @ \cup {[entry |-> e, from |-> k,
                                                read |-> clock] :
                                                 e \in ToSet(Live(zone1[k]))}]
  /\ UNCHANGED <<clock, opened, zones, items>>

\* The last accesses first, max_items of them; ties are broken by item_id, a
\* UUID: any order.
Candidates(found, max) ==
  {SubSeq(q, 1, IF Len(q) < max THEN Len(q) ELSE max) :
     q \in {p \in SetToSeqs(found) :
              \A i, j \in DOMAIN p :
                i < j => p[i].entry.last >= p[j].entry.last}}

\* Zone 4 knows the procedure of the request's task, if any.
Procedure(r) ==
  IF "procedural" \in r.zones /\ <<r.tenant, r.hash>> \in procedures
  THEN <<[item |-> r.hash, zone |-> "procedural", tokens |-> 1]>> ELSE <<>>

TokensOf(q) ==
  LET sum[n \in 0..Len(q)] == IF n = 0 THEN 0 ELSE sum[n - 1] + q[n].tokens
  IN  sum[Len(q)]

\* Mutant: the first item that does not fit ends the selection.
FillUntilFull(q, budget) ==
  LET fits == {n \in 0..Len(q) : TokensOf(SubSeq(q, 1, n)) <= budget}
  IN  SubSeq(q, 1, Max(fits))

\* _greedy_knapsack_fill.  Every score is 0 (no procedure the API commits has
\* an outcome): the stable sort keeps the order of the zones.
Fill(q, budget) ==
  LET chosen[n \in 0..Len(q)] ==
        IF n = 0 THEN <<>>
        ELSE IF TokensOf(chosen[n - 1]) + q[n].tokens <= budget
             THEN Append(chosen[n - 1], q[n]) ELSE chosen[n - 1]
  IN  chosen[Len(q)]

Build(c) ==
  /\ At(c, "working") /\ call[c].unread = {}
  /\ \E q \in Candidates(call[c].found, Req(c).max) :
       LET working == [i \in DOMAIN q |-> [item |-> q[i].entry.item,
                                           zone |-> "working",
                                           tokens |-> q[i].entry.tokens]]
       IN  call' = [call EXCEPT ![c] =
             [Idle EXCEPT !.pc = "assembled", !.req = Req(c),
                !.result = [items |-> Fill(working \o Procedure(Req(c)),
                                           Req(c).budget),
                            working |-> Len(q),
                            degraded |-> ~(Req(c).zones \subseteq Registered)]]]
  /\ UNCHANGED <<clock, zone1, opened, zones, items, history>>

Next == \/ Tick
        \/ \E k \in SessionKeys : EvictExpired(k)
        \/ \E k \in SessionKeys, n \in Names : Get(k, n)
        \/ \E c \in Calls, k \in SessionKeys : ReadSession(c, k)
        \/ \E c \in Calls : \E r \in Requests[c] :
             \/ WriteWorking(c, r) \/ WriteProcedural(c, r)
             \/ AppendEpisode(c, r) \/ EpisodeFails(c, r)
             \/ Read(c, r) \/ LookUp(c, r) \/ Delete(c, r) \/ NotFound(c, r)
             \/ Assemble(c, r)
        \/ \E c \in Calls : Mirror(c) \/ Register(c) \/ PutBack(c) \/ Build(c)

Spec == Init /\ [][Next]_vars

-----------------------------------------------------------------------------
(***************************************************************************)
(* Properties                                                              *)
(***************************************************************************)
\* A session of Zone 1 never holds more than its capacity, nor an item twice,
\* and its entries are in the order of their last accesses: the one eviction
\* loop, which stops at the first entry that is not idle, and the LRU eviction
\* rely on it (working_memory_lru_repository.py:209, :340).
LeastRecentFirst ==
  \A k \in SessionKeys :
    /\ Len(zone1[k]) <= Capacity
    /\ \A i, j \in DOMAIN zone1[k] :
         i < j => /\ zone1[k][i].last <= zone1[k][j].last
                  /\ zone1[k][i].item # zone1[k][j].item

Entries == [item : Names, tokens : Nat, last : 0..clock]
Chosen == [item : Names, zone : Registered, tokens : Nat]
Results == {<<>>} \cup [items : Seq(Chosen), working : Nat, degraded : BOOLEAN]
Records ==
  [pc : Pcs, req : {NoRequest} \cup Writes \cup ItemRequests \cup Assemblies,
   obj : SUBSET Calls, unread : SUBSET opened,
   found : SUBSET [entry : Entries, from : SessionKeys, read : 0..clock],
   result : Results]

TypeOK == /\ LeastRecentFirst
          /\ clock \in 0..MaxClock
          /\ zone1 \in [SessionKeys -> Seq(Entries)]
          /\ opened \subseteq SessionKeys
          /\ procedures \subseteq Tenants \X Hashes
          /\ episodes \subseteq Tenants \X Sessions \X Calls
          /\ DOMAIN registry \subseteq Tenants \X Names
          /\ registry \in [DOMAIN registry -> Calls]
          /\ dead \subseteq Calls
          /\ call \in [Calls -> Records]
          /\ kept \in [Calls -> SUBSET (Tenants \X Sessions \X Names)]
          /\ evicted \subseteq Tenants \X Sessions \X Names
          /\ gone \subseteq [key : Tenants \X Names, buried : SUBSET Calls]

\* What a deletion means for the routes on one item (api/app.py:344-375), under
\* updates and writes that run meanwhile.  An item named after its write (a
\* UUID) is never found again: an update puts back the object itself, which
\* the deletion has marked.  A procedural item, named by the hash of its task,
\* is found again only with an object registered after the deletion, or with
\* that of an earlier write, replaced since, which an update under way at the
\* deletion had looked up: line 364 puts it back, unmarked, although no write
\* followed the deletion.  Nothing is said of assembleContext and searchMemory:
\* they read the zones, which keep a deleted item.
DeletedStaysDeleted ==
  \A g \in gone :
    Visible(g.key) => /\ g.key[2] \in Hashes
                      /\ registry[g.key] \notin g.buried

\* The read-your-own-write of ADR-002 (api/app.py:709-711): an item whose
\* write was answered before an assembly began, and which Zone 1 has not
\* dropped in the meantime, is in the result unless max_items entries came
\* before it or it does not fit in what is left of the budget.  What the
\* zone gives an assembly is the tenant's, and was not idle for the TTL.
ReadYourWrites ==
  \A c \in Calls :
    /\ At(c, "working") => \A f \in call[c].found :
         f.from[1] = Req(c).tenant /\ f.read - f.entry.last < TTL
    /\ At(c, "assembled") =>
         LET chosen == call[c].result.items
             left == Req(c).budget - TokensOf(chosen)
         IN  \A k \in kept[c] :
               \/ \E i \in ToSet(chosen) : i.item = k[3] /\ i.zone = "working"
               \/ call[c].result.working = Req(c).max
               \/ \E d \in Calls : /\ Req(d).op = "write" /\ ItemOf(d) = k[3]
                                   /\ Tokens[d] > left
=============================================================================
