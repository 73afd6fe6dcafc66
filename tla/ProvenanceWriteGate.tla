------------------------ MODULE ProvenanceWriteGate ------------------------
(***************************************************************************)
(* ProvenanceWriteGate.submit_write                                        *)
(* (application/provenance_write_gate.py): look the idempotency key up in  *)
(* the journal, spend a token of the tenant's bucket, validate, append to  *)
(* the journal, run the caller's persist_fact.  Every process has a gate   *)
(* of its own, whose locks and buckets live in its memory; the journal and *)
(* its UNIQUE (tenant_id, idempotency_key) are shared.                     *)
(*                                                                         *)
(* A request is its idempotency key, the identifying fields a replay is    *)
(* compared by (its content), and what the source_type, user-turn and      *)
(* caller checks look at.  The lock is re-entrant: a persist_fact that     *)
(* submits its own key again finds the entry and changes nothing.          *)
(***************************************************************************)
EXTENDS Naturals

CONSTANTS Gates,       \* processes, with one gate each
          Threads,     \* threads that call submit_write
          GateOf,      \* GateOf[th]: the process of th
          Tenants,
          Keys,        \* (tenant_id, idempotency_key) pairs
          TenantOf,    \* TenantOf[k]: the tenant of k
          Contents,
          Requests,    \* the WriteRequests made
          NoTurn,      \* no user-turn marker, or no genuine attestation
          MaxAge,      \* how long a user-turn attestation is valid
          NoThread,    \* nobody holds the lock
          NoEntry,     \* find_by_idempotency_key: None
          Capacity,    \* TokenBucketConfig.capacity
          Rate,        \* TokenBucketConfig.refill_per_second
          MaxTime,     \* bound: the last instant
          MaxFaults,   \* bound: failing journal and persist_fact calls
          MaxCrashes   \* bound: process crashes

\* A row of the journal; the gate that wrote it is history.
Entries == [content : Contents, gate : Gates]

Instants == 0 .. MaxTime

\* source: user_stated, another of the fixed source types, or none of them;
\* turn: when the attestation was issued; bound: caller_identity is not blank
\* and retrieval_context_hash is a hash.
WriteRequests == [key : Keys, content : Contents,
                  source : {"user_stated", "other", "unknown"},
                  turn : Instants \cup {NoTurn}, bound : BOOLEAN]

ASSUME GateAssumption ==
  /\ GateOf \in [Threads -> Gates]
  /\ TenantOf \in [Keys -> Tenants]
  /\ Requests \subseteq WriteRequests /\ Requests # {}
  /\ NoTurn \notin Instants
  /\ NoThread \notin Threads
  /\ NoEntry \notin Entries
  /\ {Capacity, Rate} \subseteq Nat \ {0}
  /\ {MaxAge, MaxTime, MaxFaults, MaxCrashes} \subseteq Nat

VARIABLES journal,  \* journal[k]: the entry of k, or NoEntry
          runs,     \* runs[k]: calls of persist_fact for k
          lock,     \* lock[g][k]: the thread in the critical section of k
          bucket,   \* bucket[g][t]: tenant t's TokenBucketState in gate g
          now,      \* the clock
          spent,    \* history: tokens spent in bucket[g][t]
          before,   \* history: before[g][t][w], those spent before instant w
          thread,   \* thread[th]: the call th is making, or made last
          faults, crashes

vars == <<journal, runs, lock, bucket, now, spent, before, thread,
          faults, crashes>>
limits == <<bucket, spent, before>>

FullAt(w) == [tokens |-> Capacity, last |-> w]
NoRequest == CHOOSE r \in Requests : TRUE
NoCall == [pc |-> "idle", req |-> NoRequest, answer |-> "none"]

Calls == [pc : {"idle", "lock", "find", "spend", "append", "persist"},
          req : Requests,
          answer : {"none", "accepted", "cached", "rejected", "raised"}]

Init == /\ journal = [k \in Keys |-> NoEntry]
        /\ runs = [k \in Keys |-> 0]
        /\ lock = [g \in Gates |-> [k \in Keys |-> NoThread]]
        /\ bucket = [g \in Gates |-> [t \in Tenants |-> FullAt(0)]]
        /\ now = 0
        /\ spent = [g \in Gates |-> [t \in Tenants |-> 0]]
        /\ before = [g \in Gates |-> [t \in Tenants |-> [w \in Instants |-> 0]]]
        /\ thread = [th \in Threads |-> NoCall]
        /\ faults = 0 /\ crashes = 0

Req(th) == thread[th].req
Key(th) == Req(th).key
At(th, pc) == thread[th].pc = pc
Goto(th, pc) == thread' = [thread EXCEPT ![th].pc = pc]
Fault == faults < MaxFaults /\ faults' = faults + 1

\* Leave the `with lock` block, and the call.
Return(th, answer) ==
  /\ thread' = [thread EXCEPT ![th].pc = "idle", ![th].answer = answer]
  /\ lock' = [lock EXCEPT ![GateOf[th]][Key(th)] = NoThread]

-----------------------------------------------------------------------------
(***************************************************************************)
(* submit_write.                                                           *)
(***************************************************************************)
Call(th, r) ==
  /\ At(th, "idle")
  /\ thread' = [thread EXCEPT ![th] = [pc |-> "lock", req |-> r, answer |-> "none"]]
  /\ UNCHANGED <<journal, runs, lock, limits, now, faults, crashes>>

\* Mutant: two threads that miss the lock of a key each create their own.
AcquireOwnLock(th) ==
  /\ At(th, "lock")
  /\ lock' = [lock EXCEPT ![GateOf[th]][Key(th)] = th]
  /\ Goto(th, "find")
  /\ UNCHANGED <<journal, runs, limits, now, faults, crashes>>

Acquire(th) ==
  /\ At(th, "lock")
  /\ lock[GateOf[th]][Key(th)] = NoThread
  /\ lock' = [lock EXCEPT ![GateOf[th]][Key(th)] = th]
  /\ Goto(th, "find")
  /\ UNCHANGED <<journal, runs, limits, now, faults, crashes>>

\* Mutant: any entry of the key answers the request.
FindAnyEntry(th) ==
  /\ At(th, "find")
  /\ IF journal[Key(th)] = NoEntry
       THEN Goto(th, "spend") /\ UNCHANGED lock
       ELSE Return(th, "cached")
  /\ UNCHANGED <<journal, runs, limits, now, faults, crashes>>

\* _is_verbatim_replay, of the request the key was journaled for.
IsVerbatimReplay(th) == journal[Key(th)].content = Req(th).content

\* find_by_idempotency_key: a verbatim replay gets the journaled answer, any
\* other use of the key is refused; neither spends a token.
Find(th) ==
  /\ At(th, "find")
  /\ IF journal[Key(th)] = NoEntry
       THEN Goto(th, "spend") /\ UNCHANGED lock
       ELSE Return(th, IF IsVerbatimReplay(th) THEN "cached" ELSE "rejected")
  /\ UNCHANGED <<journal, runs, limits, now, faults, crashes>>

Smaller(a, b) == IF a <= b THEN a ELSE b

Refilled(b) == Smaller(Capacity, b.tokens + Rate * (now - b.last))

\* verify_user_turn_attestation, of a genuine signature.
Attested(r) ==
  r.turn # NoTurn /\ r.turn \in 0 .. now /\ now - r.turn <= MaxAge

\* The checks, in the order of the code; all refuse in the same way.
Passes(r) == /\ r.source # "unknown"
             /\ r.source = "user_stated" => Attested(r)
             /\ r.bound

\* Mutant: off by one in the balance.
SpendOneMore(th) ==
  LET g == GateOf[th]
      t == TenantOf[Key(th)]
      tokens == Refilled(bucket[g][t])
  IN  /\ At(th, "spend")
      /\ bucket' = [bucket EXCEPT ![g][t] = [tokens |-> tokens - 1, last |-> now]]
      /\ spent' = [spent EXCEPT ![g][t] = @ + 1]
      /\ IF Passes(Req(th))
           THEN Goto(th, "append") /\ UNCHANGED lock
           ELSE Return(th, "rejected")
      /\ UNCHANGED <<journal, runs, now, before, faults, crashes>>

\* Mutant: a token is spent, and the instant of the refill kept.
SpendKeepsInstant(th) ==
  LET g == GateOf[th]
      t == TenantOf[Key(th)]
      tokens == Refilled(bucket[g][t])
      allowed == tokens >= 1
  IN  /\ At(th, "spend")
      /\ bucket' = [bucket EXCEPT ![g][t].tokens = IF allowed THEN tokens - 1
                                                              ELSE tokens]
      /\ spent' = IF allowed THEN [spent EXCEPT ![g][t] = @ + 1] ELSE spent
      /\ IF allowed /\ Passes(Req(th))
           THEN Goto(th, "append") /\ UNCHANGED lock
           ELSE Return(th, "rejected")
      /\ UNCHANGED <<journal, runs, now, before, faults, crashes>>

\* _consume_rate_limit_token, under the lock of the buckets, and then the
\* checks, which read nothing but the request and the clock.
Spend(th) ==
  LET g == GateOf[th]
      t == TenantOf[Key(th)]
      tokens == Refilled(bucket[g][t])
      allowed == tokens >= 1
  IN  /\ At(th, "spend")
      /\ bucket' = [bucket EXCEPT ![g][t] =
                      [tokens |-> IF allowed THEN tokens - 1 ELSE tokens,
                       last |-> now]]
      /\ spent' = IF allowed THEN [spent EXCEPT ![g][t] = @ + 1] ELSE spent
      /\ IF allowed /\ Passes(Req(th))
           THEN Goto(th, "append") /\ UNCHANGED lock
           ELSE Return(th, "rejected")
      /\ UNCHANGED <<journal, runs, now, before, faults, crashes>>

Journaled(th) ==
  [journal EXCEPT ![Key(th)] = [content |-> Req(th).content, gate |-> GateOf[th]]]

\* Mutant: ON CONFLICT DO NOTHING.
AppendIgnoresConflict(th) ==
  /\ At(th, "append")
  /\ journal' = IF journal[Key(th)] = NoEntry THEN Journaled(th) ELSE journal
  /\ Goto(th, "persist")
  /\ UNCHANGED <<runs, lock, limits, now, faults, crashes>>

\* journal.append commits; the constraint makes it raise when another process
\* has journaled the key since.
Append(th) ==
  /\ At(th, "append")
  /\ IF journal[Key(th)] = NoEntry
       THEN journal' = Journaled(th) /\ Goto(th, "persist") /\ UNCHANGED lock
       ELSE Return(th, "raised") /\ UNCHANGED journal
  /\ UNCHANGED <<runs, limits, now, faults, crashes>>

\* The connection fails: under find, or under append, whose commit may have
\* been applied all the same.
JournalFails(th) ==
  /\ \/ At(th, "find") /\ UNCHANGED journal
     \/ /\ At(th, "append") /\ journal[Key(th)] = NoEntry
        /\ journal' \in {journal, Journaled(th)}
  /\ Fault
  /\ Return(th, "raised")
  /\ UNCHANGED <<runs, limits, now, crashes>>

\* persist_fact is called, and returns or raises.
Persist(th, answer) ==
  /\ At(th, "persist")
  /\ \/ answer = "accepted" /\ UNCHANGED faults
     \/ answer = "raised" /\ Fault
  /\ runs' = [runs EXCEPT ![Key(th)] = @ + 1]
  /\ Return(th, answer)
  /\ UNCHANGED <<journal, limits, now, crashes>>

\* Process g stops, and starts with new locks and full buckets.
Crash(g) ==
  /\ crashes < MaxCrashes /\ crashes' = crashes + 1
  /\ thread' = [th \in Threads |-> IF GateOf[th] = g THEN NoCall ELSE thread[th]]
  /\ lock' = [lock EXCEPT ![g] = [k \in Keys |-> NoThread]]
  /\ bucket' = [bucket EXCEPT ![g] = [t \in Tenants |-> FullAt(now)]]
  /\ spent' = [spent EXCEPT ![g] = [t \in Tenants |-> 0]]
  /\ before' = [before EXCEPT ![g] = [t \in Tenants |-> [w \in Instants |-> 0]]]
  /\ UNCHANGED <<journal, runs, now, faults>>

Tick ==
  /\ now < MaxTime /\ now' = now + 1
  /\ before' = [g \in Gates |-> [t \in Tenants |->
                  [before[g][t] EXCEPT ![now + 1] = spent[g][t]]]]
  /\ UNCHANGED <<journal, runs, lock, bucket, spent, thread, faults, crashes>>

Next == \/ \E th \in Threads :
             \/ \E r \in Requests : Call(th, r)
             \/ Acquire(th) \/ Find(th) \/ Spend(th) \/ Append(th)
             \/ JournalFails(th)
             \/ \E answer \in {"accepted", "raised"} : Persist(th, answer)
        \/ \E g \in Gates : Crash(g)
        \/ Tick

Spec == Init /\ [][Next]_vars

-----------------------------------------------------------------------------
(***************************************************************************)
(* Properties.                                                             *)
(***************************************************************************)

\* The state is well formed; no bucket is overspent, or holds more than its
\* capacity.
TypeOK ==
  /\ journal \in [Keys -> Entries \cup {NoEntry}]
  /\ runs \in [Keys -> Nat]
  /\ lock \in [Gates -> [Keys -> Threads \cup {NoThread}]]
  /\ bucket \in [Gates -> [Tenants -> [tokens : 0 .. Capacity, last : Instants]]]
  /\ now \in Instants
  /\ spent \in [Gates -> [Tenants -> Nat]]
  /\ before \in [Gates -> [Tenants -> [Instants -> Nat]]]
  /\ thread \in [Threads -> Calls]
  /\ faults \in 0 .. MaxFaults /\ crashes \in 0 .. MaxCrashes

\* persist_fact runs at most once for an idempotency key, over all threads,
\* processes, retries and crashes, and never before the key is journaled
\* (AC-010: no fact without its provenance entry).
PersistedAtMostOnce ==
  \A k \in Keys : runs[k] <= 1 /\ (runs[k] = 1 => journal[k] # NoEntry)

\* Whoever is told WriteAccepted finds his own request journaled: a key used
\* for another request never answers with the earlier one's success.
AcceptedIsJournaled ==
  \A th \in Threads :
    thread[th].answer \in {"accepted", "cached"} =>
      /\ journal[Key(th)] # NoEntry
      /\ journal[Key(th)].content = Req(th).content

\* The locks make the second of two calls of one process a replay: only an
\* entry of another process makes an append fail on the constraint.
ConflictsAreForeign ==
  \A th \in Threads :
    At(th, "append") /\ journal[Key(th)] # NoEntry =>
      journal[Key(th)].gate # GateOf[th]

\* In any window of time a gate admits at most the burst and what the window
\* refills, whichever keys and threads the writes come by.
BurstBounded ==
  \A g \in Gates, t \in Tenants : \A w \in 0 .. now :
    spent[g][t] - before[g][t][w] <= Capacity + Rate * (now - w)
=============================================================================
