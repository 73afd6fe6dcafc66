--------------------- MODULE ProvenanceWriteGateProofs ---------------------
(***************************************************************************)
(* For any number of processes, threads, keys, tenants and requests:       *)
(* persist_fact runs at most once for a key and only once it is journaled, *)
(* an accepted answer is about the caller's own request, the constraint of *)
(* the journal is met by foreign entries only, and a gate's admissions are *)
(* bounded in every window of time.                                        *)
(***************************************************************************)
EXTENDS ProvenanceWriteGate, Integers, TLAPS

InCritical(th) == thread[th].pc \in {"find", "spend", "append", "persist"}

\* The critical section of a key in a process has one thread at a time.
LockHeld ==
  \A th \in Threads : InCritical(th) => lock[GateOf[th]][Key(th)] = th

\* Since th took the lock, nobody in its process has journaled the key.
NoOwnEntry ==
  \A th \in Threads :
    At(th, "spend") \/ At(th, "append") =>
      (journal[Key(th)] # NoEntry => journal[Key(th)].gate # GateOf[th])

\* Whoever is about to call persist_fact made the entry, and is the first.
PersistReady ==
  \A th \in Threads :
    At(th, "persist") =>
      /\ journal[Key(th)] = [content |-> Req(th).content, gate |-> GateOf[th]]
      /\ runs[Key(th)] = 0

\* No bucket was refilled in the future.
LastPast == \A g \in Gates, t \in Tenants : bucket[g][t].last <= now

GInv == /\ TypeOK /\ LastPast /\ LockHeld /\ NoOwnEntry /\ PersistReady
        /\ PersistedAtMostOnce /\ AcceptedIsJournaled

\* What gate g can admit for t right now.
Potential(g, t) == Refilled(bucket[g][t])

\* What was spent in a window and what could be spent now stay in bounds.
BucketInv ==
  \A g \in Gates, t \in Tenants :
    \A w \in 0 .. now :
      spent[g][t] - before[g][t][w] + Potential(g, t) <= Capacity + Rate * (now - w)

-----------------------------------------------------------------------------
\* An entry is not NoEntry, and a journaled key keeps its entry.
LEMMA JournalGrows ==
  ASSUME TypeOK, [Next]_vars
  PROVE  /\ \A th \in Threads : [content |-> Req(th).content, gate |-> GateOf[th]]
                                  \in Entries
         /\ \A k \in Keys : journal[k] # NoEntry => journal'[k] = journal[k]
<1>1. \A th \in Threads : [content |-> Req(th).content, gate |-> GateOf[th]] \in Entries
  BY GateAssumption DEF WriteRequests, TypeOK, Calls, Req, Entries
<1>2. ASSUME NEW k \in Keys, journal[k] # NoEntry
      PROVE  journal'[k] = journal[k]
  <2>1. \A th \in Threads : Append(th) => journal'[k] = journal[k]
    BY <1>2 DEF Append, Journaled, TypeOK
  <2>2. \A th \in Threads : JournalFails(th) => journal'[k] = journal[k]
    BY <1>2 DEF JournalFails, Journaled, TypeOK
  <2>3. \A th \in Threads :
          /\ \A r \in Requests : Call(th, r) => journal' = journal
          /\ Acquire(th) \/ Find(th) \/ Spend(th) => journal' = journal
          /\ \A a \in {"accepted", "raised"} : Persist(th, a) => journal' = journal
    BY DEF Call, Acquire, Find, Spend, Persist
  <2>4. (\E g \in Gates : Crash(g)) \/ Tick \/ UNCHANGED vars => journal' = journal
    BY DEF Crash, Tick, vars
  <2> QED  BY <2>1, <2>2, <2>3, <2>4 DEF Next
<1> QED  BY <1>1, <1>2

\* What the two ways to leave a step do to the threads.
LEMMA ThreadMoves ==
  ASSUME TypeOK, NEW th \in Threads, NEW u \in Threads
  PROVE  /\ \A pc \in {"idle", "lock", "find", "spend", "append", "persist"} :
              Goto(th, pc) =>
                /\ thread'[u].req = thread[u].req
                /\ thread'[u].answer = thread[u].answer
                /\ thread'[u].pc = IF u = th THEN pc ELSE thread[u].pc
         /\ \A a \in {"accepted", "cached", "rejected", "raised"} :
              Return(th, a) =>
                /\ thread'[u].req = thread[u].req
                /\ thread'[u].answer = IF u = th THEN a ELSE thread[u].answer
                /\ thread'[u].pc = IF u = th THEN "idle" ELSE thread[u].pc
BY DEF TypeOK, Calls, Goto, Return

\* Both keep the threads and the locks well formed.
LEMMA MoveTypes ==
  ASSUME TypeOK, NEW th \in Threads
  PROVE  /\ \A pc \in {"idle", "lock", "find", "spend", "append", "persist"} :
              Goto(th, pc) => thread' \in [Threads -> Calls]
         /\ \A a \in {"accepted", "cached", "rejected", "raised"} :
              Return(th, a) =>
                /\ thread' \in [Threads -> Calls]
                /\ lock' \in [Gates -> [Keys -> Threads \cup {NoThread}]]
<1>1. Key(th) \in Keys /\ GateOf[th] \in Gates
  BY GateAssumption DEF WriteRequests, TypeOK, Calls, Req, Key
<1>2. ASSUME NEW pc \in {"idle", "lock", "find", "spend", "append", "persist"},
             Goto(th, pc)
      PROVE  thread' \in [Threads -> Calls]
  BY <1>2 DEF TypeOK, Calls, Goto
<1>3. ASSUME NEW a \in {"accepted", "cached", "rejected", "raised"}, Return(th, a)
      PROVE  thread' \in [Threads -> Calls]
  BY <1>3 DEF TypeOK, Calls, Return
<1>4. ASSUME NEW a \in {"accepted", "cached", "rejected", "raised"}, Return(th, a)
      PROVE  lock' \in [Gates -> [Keys -> Threads \cup {NoThread}]]
  BY <1>1, <1>4 DEF TypeOK, Return
<1> QED  BY <1>2, <1>3, <1>4

-----------------------------------------------------------------------------
\* The inductive invariant holds in the initial states.
LEMMA InitGInv == Init => GInv
<1> SUFFICES ASSUME Init PROVE GInv  OBVIOUS
<1>1. NoRequest \in Requests
  BY GateAssumption DEF NoRequest
<1>2. 0 \in Instants /\ FullAt(0) \in [tokens : 0 .. Capacity, last : Instants]
  BY GateAssumption DEF Instants, FullAt
<1>3. NoCall \in Calls
  BY <1>1 DEF NoCall, Calls
<1>4. TypeOK
  BY <1>2, <1>3, GateAssumption DEF Init, TypeOK
<1>5. \A th \in Threads : thread[th].pc = "idle" /\ thread[th].answer = "none"
  BY DEF Init, NoCall
<1>6. LockHeld /\ NoOwnEntry /\ PersistReady /\ AcceptedIsJournaled
  BY <1>5 DEF LockHeld, InCritical, NoOwnEntry, PersistReady, At, AcceptedIsJournaled
<1>7. PersistedAtMostOnce
  BY DEF Init, PersistedAtMostOnce
<1>8. LastPast
  BY DEF Init, LastPast, FullAt
<1> QED  BY <1>4, <1>6, <1>7, <1>8 DEF GInv

\* Every step keeps the state well formed and the refills in the past.
LEMMA TypeStep == TypeOK /\ LastPast /\ [Next]_vars => (TypeOK /\ LastPast)'
<1> SUFFICES ASSUME TypeOK, LastPast, [Next]_vars PROVE (TypeOK /\ LastPast)'
  OBVIOUS
<1>0. /\ Capacity \in Nat \ {0} /\ Rate \in Nat \ {0}
      /\ MaxTime \in Nat /\ MaxFaults \in Nat /\ MaxCrashes \in Nat
  BY GateAssumption
<1>k. ASSUME NEW th \in Threads
      PROVE  Key(th) \in Keys /\ GateOf[th] \in Gates /\ TenantOf[Key(th)] \in Tenants
  BY GateAssumption DEF WriteRequests, TypeOK, Calls, Req, Key
<1>1. ASSUME NEW th \in Threads, NEW r \in Requests, Call(th, r)
      PROVE  (TypeOK /\ LastPast)'
  <2>1. thread' \in [Threads -> Calls]
    BY <1>1 DEF Call, TypeOK, Calls
  <2> QED  BY <1>1, <2>1 DEF Call, TypeOK, LastPast, limits
<1>2. ASSUME NEW th \in Threads, Acquire(th)
      PROVE  (TypeOK /\ LastPast)'
  <2>1. lock' \in [Gates -> [Keys -> Threads \cup {NoThread}]]
    BY <1>2, <1>k DEF Acquire, TypeOK
  <2> QED  BY <1>2, <2>1, MoveTypes DEF Acquire, TypeOK, LastPast, limits
<1>3. ASSUME NEW th \in Threads, Find(th)
      PROVE  (TypeOK /\ LastPast)'
  <2>1. thread' \in [Threads -> Calls]
        /\ lock' \in [Gates -> [Keys -> Threads \cup {NoThread}]]
    BY <1>3, MoveTypes DEF Find, TypeOK
  <2> QED  BY <1>3, <2>1 DEF Find, TypeOK, LastPast, limits
<1>4. ASSUME NEW th \in Threads, Spend(th)
      PROVE  (TypeOK /\ LastPast)'
  <2>1. thread' \in [Threads -> Calls]
        /\ lock' \in [Gates -> [Keys -> Threads \cup {NoThread}]]
    BY <1>4, MoveTypes DEF Spend, TypeOK
  <2> DEFINE g == GateOf[th]
             t == TenantOf[Key(th)]
             tokens == Refilled(bucket[g][t])
             b == [tokens |-> IF tokens >= 1 THEN tokens - 1 ELSE tokens,
                   last |-> now]
  <2>2. b \in [tokens : 0 .. Capacity, last : Instants]
    <3>1. bucket[g][t] \in [tokens : 0 .. Capacity, last : Instants]
      BY <1>k DEF TypeOK
    <3>2. now \in Int /\ bucket[g][t].last \in Int
      BY <1>0, <3>1 DEF TypeOK, Instants
    <3>3. Rate * (now - bucket[g][t].last) \in Int
      BY <1>0, <3>2
    <3>4. tokens \in Int /\ tokens <= Capacity
      BY <1>0, <3>1, <3>3 DEF Refilled, Smaller
    <3>5. tokens \in 0 .. Capacity
      <4>1. bucket[g][t].last <= now
        BY <1>k DEF LastPast
      <4>2. Rate * (now - bucket[g][t].last) >= 0
        BY <1>0, <3>2, <4>1
      <4> QED  BY <1>0, <3>1, <3>3, <3>4, <4>2 DEF Refilled, Smaller
    <3> QED  BY <1>0, <3>5 DEF TypeOK
  <2>3. bucket' = [bucket EXCEPT ![g][t] = b]
    BY <1>4 DEF Spend
  <2>4. bucket' \in [Gates -> [Tenants -> [tokens : 0 .. Capacity, last : Instants]]]
    <3> HIDE DEF b
    <3> QED  BY <1>k, <2>2, <2>3 DEF TypeOK
  <2>5. spent' \in [Gates -> [Tenants -> Nat]]
    BY <1>4, <1>k DEF Spend, TypeOK
  <2>6. TypeOK'
    BY <1>4, <2>1, <2>4, <2>5 DEF Spend, TypeOK
  <2>7. LastPast'
    <3>1. now \in Nat
      BY <1>0 DEF TypeOK, Instants
    <3>2. b.last = now
      OBVIOUS
    <3> HIDE DEF b
    <3> QED  BY <1>4, <1>k, <2>3, <3>1, <3>2 DEF Spend, LastPast, TypeOK
  <2> QED  BY <2>6, <2>7
<1>5. ASSUME NEW th \in Threads, Append(th)
      PROVE  (TypeOK /\ LastPast)'
  <2>1. thread' \in [Threads -> Calls]
        /\ lock' \in [Gates -> [Keys -> Threads \cup {NoThread}]]
    BY <1>5, MoveTypes DEF Append, TypeOK
  <2>2. journal' \in [Keys -> Entries \cup {NoEntry}]
    BY <1>5, <1>k, JournalGrows DEF Append, Journaled, TypeOK
  <2> QED  BY <1>5, <2>1, <2>2 DEF Append, TypeOK, LastPast, limits
<1>6. ASSUME NEW th \in Threads, JournalFails(th)
      PROVE  (TypeOK /\ LastPast)'
  <2>1. thread' \in [Threads -> Calls]
        /\ lock' \in [Gates -> [Keys -> Threads \cup {NoThread}]]
    BY <1>6, MoveTypes DEF JournalFails
  <2>2. journal' \in [Keys -> Entries \cup {NoEntry}]
    BY <1>6, <1>k, JournalGrows DEF JournalFails, Journaled, TypeOK
  <2>3. faults' \in 0 .. MaxFaults
    BY <1>0, <1>6 DEF JournalFails, Fault, TypeOK
  <2> QED  BY <1>6, <2>1, <2>2, <2>3 DEF JournalFails, TypeOK, LastPast, limits
<1>7. ASSUME NEW th \in Threads, NEW a \in {"accepted", "raised"}, Persist(th, a)
      PROVE  (TypeOK /\ LastPast)'
  <2>1. thread' \in [Threads -> Calls]
        /\ lock' \in [Gates -> [Keys -> Threads \cup {NoThread}]]
    BY <1>7, MoveTypes DEF Persist
  <2>2. runs' \in [Keys -> Nat]
    BY <1>7, <1>k DEF Persist, TypeOK
  <2>3. faults' \in 0 .. MaxFaults
    BY <1>0, <1>7 DEF Persist, Fault, TypeOK
  <2> QED  BY <1>7, <2>1, <2>2, <2>3 DEF Persist, TypeOK, LastPast, limits
<1>8. ASSUME NEW g \in Gates, Crash(g)
      PROVE  (TypeOK /\ LastPast)'
  <2>1. NoCall \in Calls
    BY GateAssumption DEF NoRequest, NoCall, Calls
  <2>2. thread' \in [Threads -> Calls]
    BY <1>8, <2>1 DEF Crash, TypeOK
  <2>3. lock' \in [Gates -> [Keys -> Threads \cup {NoThread}]]
    BY <1>8 DEF Crash, TypeOK
  <2>4. FullAt(now) \in [tokens : 0 .. Capacity, last : Instants]
        /\ FullAt(now).last = now
    BY <1>0 DEF FullAt, TypeOK
  <2>5. bucket' \in [Gates -> [Tenants -> [tokens : 0 .. Capacity, last : Instants]]]
    BY <1>8, <2>4 DEF Crash, TypeOK
  <2>6. LastPast'
    BY <1>0, <1>8, <2>4 DEF Crash, TypeOK, LastPast, Instants
  <2>7. spent' \in [Gates -> [Tenants -> Nat]]
        /\ before' \in [Gates -> [Tenants -> [Instants -> Nat]]]
    BY <1>8 DEF Crash, TypeOK
  <2>8. crashes' \in 0 .. MaxCrashes
    BY <1>0, <1>8 DEF Crash, TypeOK
  <2> QED  BY <1>8, <2>2, <2>3, <2>5, <2>6, <2>7, <2>8 DEF Crash, TypeOK
<1>9. CASE Tick
  <2>1. now' \in Instants /\ now' = now + 1
    BY <1>0, <1>9 DEF Tick, TypeOK, Instants
  <2>2. before' \in [Gates -> [Tenants -> [Instants -> Nat]]]
    <3>1. \A g \in Gates, t \in Tenants :
            [before[g][t] EXCEPT ![now + 1] = spent[g][t]] \in [Instants -> Nat]
      <4> TAKE g \in Gates, t \in Tenants
      <4>1. before[g][t] \in [Instants -> Nat] /\ spent[g][t] \in Nat
        BY DEF TypeOK
      <4> QED  BY <4>1
    <3>2. before' = [g \in Gates |-> [t \in Tenants |->
                       [before[g][t] EXCEPT ![now + 1] = spent[g][t]]]]
      BY <1>9 DEF Tick
    <3> QED  BY <3>1, <3>2
  <2>3. TypeOK'
    BY <1>9, <2>1, <2>2 DEF Tick, TypeOK
  <2>4. LastPast'
    <3>1. \A g \in Gates, t \in Tenants : bucket[g][t].last \in Nat
      BY <1>0 DEF TypeOK, Instants
    <3>2. now \in Nat
      BY <1>0 DEF TypeOK, Instants
    <3> QED  BY <1>9, <2>1, <3>1, <3>2 DEF Tick, LastPast
  <2> QED  BY <2>3, <2>4
<1>10. CASE UNCHANGED vars
  BY <1>10 DEF vars, limits, TypeOK, LastPast
<1> QED  BY <1>1, <1>2, <1>3, <1>4, <1>5, <1>6, <1>7, <1>8, <1>9, <1>10 DEF Next

-----------------------------------------------------------------------------
\* The locks, the journal and the answers.
LEMMA GateStep == GInv /\ [Next]_vars => GInv'
<1> SUFFICES ASSUME GInv, [Next]_vars, TypeOK', LastPast'
             PROVE  (LockHeld /\ NoOwnEntry /\ PersistReady
                       /\ PersistedAtMostOnce /\ AcceptedIsJournaled)'
  BY TypeStep DEF GInv
<1> USE DEF GInv
<1>k. ASSUME NEW th \in Threads
      PROVE  Key(th) \in Keys /\ GateOf[th] \in Gates
  BY GateAssumption DEF WriteRequests, TypeOK, Calls, Req, Key
<1>n. NoEntry \notin Entries
  BY GateAssumption
<1>j. \A k \in Keys : journal[k] # NoEntry => journal'[k] = journal[k]
  BY JournalGrows
\* Two threads of one process are not in the critical section of one key.
<1>x. ASSUME NEW th \in Threads, NEW u \in Threads, InCritical(th), InCritical(u),
             GateOf[th] = GateOf[u], Key(th) = Key(u)
      PROVE  th = u
  BY <1>x DEF LockHeld
\* Releasing th's lock does not touch the others in the critical section.
<1>r. ASSUME NEW th \in Threads, NEW u \in Threads, th # u, InCritical(u),
             InCritical(th), NEW a \in {"accepted", "cached", "rejected", "raised"},
             Return(th, a)
      PROVE  lock'[GateOf[u]][Key(u)] = u
  BY <1>r, <1>x, <1>k DEF Return, LockHeld, TypeOK
\* An entry th makes is foreign to whoever else is about to append.
<1>m. ASSUME NEW th \in Threads, At(th, "append"), journal[Key(th)] = NoEntry,
             journal' = journal \/ journal' = Journaled(th),
             NEW u \in Threads, u # th, At(u, "spend") \/ At(u, "append"),
             journal'[Key(u)] # NoEntry
      PROVE  journal'[Key(u)].gate # GateOf[u]
  <2>1. CASE journal[Key(u)] # NoEntry
    BY <1>j, <1>k, <1>m, <2>1 DEF NoOwnEntry
  <2>2. CASE journal[Key(u)] = NoEntry
    <3>1. Key(u) = Key(th) /\ journal'[Key(u)].gate = GateOf[th]
      BY <1>k, <1>m, <2>2 DEF Journaled, TypeOK
    <3>2. GateOf[u] # GateOf[th]
      BY <1>m, <1>x, <3>1 DEF InCritical, At
    <3> QED  BY <3>1, <3>2
  <2> QED  BY <2>1, <2>2
\* Whoever may call persist_fact, or was told WriteAccepted, has an entry.
<1>e. \A u \in Threads :
        /\ At(u, "persist") => journal'[Key(u)] = journal[Key(u)]
        /\ thread[u].answer \in {"accepted", "cached"} =>
             journal'[Key(u)] = journal[Key(u)] /\ journal[Key(u)] # NoEntry
  <2>1. \A u \in Threads : [content |-> Req(u).content, gate |-> GateOf[u]] # NoEntry
    BY <1>n, JournalGrows
  <2> QED  BY <1>j, <1>k, <2>1 DEF PersistReady, AcceptedIsJournaled
<1>1. ASSUME NEW th \in Threads, NEW r \in Requests, Call(th, r)
      PROVE  (LockHeld /\ NoOwnEntry /\ PersistReady
                /\ PersistedAtMostOnce /\ AcceptedIsJournaled)'
  <2>1. \A u \in Threads :
          thread'[u] = IF u = th THEN [pc |-> "lock", req |-> r, answer |-> "none"]
                                 ELSE thread[u]
    BY <1>1 DEF Call, TypeOK
  <2>2. UNCHANGED <<journal, runs, lock>>
    BY <1>1 DEF Call
  <2>3. LockHeld'
    BY <2>1, <2>2 DEF LockHeld, InCritical, Key, Req
  <2>4. NoOwnEntry' /\ PersistReady'
    BY <2>1, <2>2 DEF NoOwnEntry, PersistReady, At, Key, Req
  <2>5. PersistedAtMostOnce' /\ AcceptedIsJournaled'
    BY <2>1, <2>2 DEF PersistedAtMostOnce, AcceptedIsJournaled, Key, Req
  <2> QED  BY <2>3, <2>4, <2>5
<1>2. ASSUME NEW th \in Threads, Acquire(th)
      PROVE  (LockHeld /\ NoOwnEntry /\ PersistReady
                /\ PersistedAtMostOnce /\ AcceptedIsJournaled)'
  <2>1. \A u \in Threads : /\ thread'[u].req = thread[u].req
                           /\ thread'[u].answer = thread[u].answer
                           /\ thread'[u].pc = IF u = th THEN "find" ELSE thread[u].pc
    BY <1>2, ThreadMoves DEF Acquire
  <2>2. LockHeld'
    <3>1. lock' = [lock EXCEPT ![GateOf[th]][Key(th)] = th]
      BY <1>2 DEF Acquire
    <3>2. ASSUME NEW u \in Threads, u # th, InCritical(u)
          PROVE  lock'[GateOf[u]][Key(u)] = u
      <4>1. lock[GateOf[u]][Key(u)] = u
        BY <3>2 DEF LockHeld
      <4>2. lock[GateOf[th]][Key(th)] = NoThread
        BY <1>2 DEF Acquire
      <4>3. u # NoThread
        BY GateAssumption
      <4>4. ~(GateOf[u] = GateOf[th] /\ Key(u) = Key(th))
        BY <4>1, <4>2, <4>3
      <4> QED  BY <1>k, <3>1, <4>1, <4>4 DEF TypeOK
    <3>3. lock'[GateOf[th]][Key(th)] = th
      BY <1>k, <3>1 DEF TypeOK
    <3> QED  BY <2>1, <3>2, <3>3 DEF LockHeld, InCritical, Key, Req
  <2>3. UNCHANGED <<journal, runs>>
    BY <1>2 DEF Acquire
  <2>4. NoOwnEntry' /\ PersistReady'
    BY <2>1, <2>3 DEF NoOwnEntry, PersistReady, At, Key, Req
  <2>5. PersistedAtMostOnce' /\ AcceptedIsJournaled'
    BY <2>1, <2>3 DEF PersistedAtMostOnce, AcceptedIsJournaled, Key, Req
  <2> QED  BY <2>2, <2>4, <2>5
<1>3. ASSUME NEW th \in Threads, Find(th)
      PROVE  (LockHeld /\ NoOwnEntry /\ PersistReady
                /\ PersistedAtMostOnce /\ AcceptedIsJournaled)'
  <2>0. InCritical(th) /\ UNCHANGED <<journal, runs>>
    BY <1>3 DEF Find, At, InCritical
  <2>1. CASE journal[Key(th)] = NoEntry
    <3>1. Goto(th, "spend") /\ UNCHANGED lock
      BY <1>3, <2>1 DEF Find
    <3>2. \A u \in Threads : /\ thread'[u].req = thread[u].req
                             /\ thread'[u].answer = thread[u].answer
                             /\ thread'[u].pc = IF u = th THEN "spend" ELSE thread[u].pc
      BY <3>1, ThreadMoves
    <3>3. LockHeld'
      BY <2>0, <3>1, <3>2 DEF LockHeld, InCritical, Key, Req
    <3> QED  BY <2>0, <2>1, <3>2, <3>3 DEF NoOwnEntry, At, Key, Req,
                PersistReady, PersistedAtMostOnce, AcceptedIsJournaled
  <2>2. CASE journal[Key(th)] # NoEntry
    <3> DEFINE a == IF IsVerbatimReplay(th) THEN "cached" ELSE "rejected"
    <3>1. Return(th, a)
      BY <1>3, <2>2 DEF Find
    <3>2. \A u \in Threads : /\ thread'[u].req = thread[u].req
                             /\ thread'[u].answer = IF u = th THEN a ELSE thread[u].answer
                             /\ thread'[u].pc = IF u = th THEN "idle" ELSE thread[u].pc
      BY <3>1, ThreadMoves
    <3>3. LockHeld'
      BY <1>r, <2>0, <3>1, <3>2 DEF LockHeld, InCritical, Key, Req
    <3>4. AcceptedIsJournaled'
      BY <2>0, <2>2, <3>2 DEF AcceptedIsJournaled, IsVerbatimReplay, Key, Req
    <3> QED  BY <2>0, <3>2, <3>3, <3>4 DEF NoOwnEntry, At, Key, Req,
                PersistReady, PersistedAtMostOnce
  <2> QED  BY <2>1, <2>2
<1>4. ASSUME NEW th \in Threads, Spend(th)
      PROVE  (LockHeld /\ NoOwnEntry /\ PersistReady
                /\ PersistedAtMostOnce /\ AcceptedIsJournaled)'
  <2>0. InCritical(th) /\ At(th, "spend") /\ UNCHANGED <<journal, runs>>
    BY <1>4 DEF Spend, At, InCritical
  <2>1. CASE Goto(th, "append") /\ UNCHANGED lock
    <3>2. \A u \in Threads : /\ thread'[u].req = thread[u].req
                             /\ thread'[u].answer = thread[u].answer
                             /\ thread'[u].pc = IF u = th THEN "append" ELSE thread[u].pc
      BY <2>1, ThreadMoves
    <3>3. LockHeld'
      BY <2>0, <2>1, <3>2 DEF LockHeld, InCritical, Key, Req
    <3> QED  BY <2>0, <3>2, <3>3 DEF NoOwnEntry, At, Key, Req,
                PersistReady, PersistedAtMostOnce, AcceptedIsJournaled
  <2>2. CASE Return(th, "rejected")
    <3>2. \A u \in Threads : /\ thread'[u].req = thread[u].req
                             /\ thread'[u].answer = IF u = th THEN "rejected" ELSE thread[u].answer
                             /\ thread'[u].pc = IF u = th THEN "idle" ELSE thread[u].pc
      BY <2>2, ThreadMoves
    <3>3. LockHeld'
      BY <1>r, <2>0, <2>2, <3>2 DEF LockHeld, InCritical, Key, Req
    <3>4. NoOwnEntry' /\ PersistReady'
      BY <2>0, <3>2 DEF NoOwnEntry, PersistReady, At, Key, Req
    <3>5. PersistedAtMostOnce' /\ AcceptedIsJournaled'
      BY <2>0, <3>2 DEF PersistedAtMostOnce, AcceptedIsJournaled, Key, Req
    <3> QED  BY <3>3, <3>4, <3>5
  <2> QED  BY <1>4, <2>1, <2>2 DEF Spend
<1>5. ASSUME NEW th \in Threads, Append(th)
      PROVE  (LockHeld /\ NoOwnEntry /\ PersistReady
                /\ PersistedAtMostOnce /\ AcceptedIsJournaled)'
  <2>0. InCritical(th) /\ At(th, "append") /\ UNCHANGED runs
    BY <1>5 DEF Append, At, InCritical
  <2>1. CASE journal[Key(th)] = NoEntry
    <3>1. journal' = Journaled(th) /\ Goto(th, "persist") /\ UNCHANGED lock
      BY <1>5, <2>1 DEF Append
    <3>2. \A u \in Threads : /\ thread'[u].req = thread[u].req
                             /\ thread'[u].answer = thread[u].answer
                             /\ thread'[u].pc = IF u = th THEN "persist" ELSE thread[u].pc
      BY <3>1, ThreadMoves
    <3>3. LockHeld'
      BY <2>0, <3>1, <3>2 DEF LockHeld, InCritical, Key, Req
    <3>4. NoOwnEntry'
      BY <1>m, <2>0, <2>1, <3>1, <3>2 DEF NoOwnEntry, At, Key, Req
    <3>5. journal'[Key(th)] = [content |-> Req(th).content, gate |-> GateOf[th]]
      BY <1>k, <3>1 DEF Journaled, TypeOK
    <3>6. runs[Key(th)] = 0
      <4>1. runs[Key(th)] \in Nat
        BY <1>k DEF TypeOK
      <4>2. runs[Key(th)] <= 1 /\ runs[Key(th)] # 1
        BY <1>k, <2>1 DEF PersistedAtMostOnce
      <4> QED  BY <4>1, <4>2
    <3>7. PersistReady'
      BY <1>e, <2>0, <3>2, <3>5, <3>6 DEF PersistReady, At, Key, Req
    <3>8. PersistedAtMostOnce'
      BY <1>j, <2>0 DEF PersistedAtMostOnce
    <3>9. AcceptedIsJournaled'
      BY <1>e, <3>2 DEF AcceptedIsJournaled, Key, Req
    <3> QED  BY <3>3, <3>4, <3>7, <3>8, <3>9
  <2>2. CASE journal[Key(th)] # NoEntry
    <3>1. Return(th, "raised") /\ UNCHANGED journal
      BY <1>5, <2>2 DEF Append
    <3>2. \A u \in Threads : /\ thread'[u].req = thread[u].req
                             /\ thread'[u].answer = IF u = th THEN "raised" ELSE thread[u].answer
                             /\ thread'[u].pc = IF u = th THEN "idle" ELSE thread[u].pc
      BY <3>1, ThreadMoves
    <3>3. LockHeld'
      BY <1>r, <2>0, <3>1, <3>2 DEF LockHeld, InCritical, Key, Req
    <3> QED  BY <2>0, <3>1, <3>2, <3>3 DEF NoOwnEntry, At, Key, Req,
                PersistReady, PersistedAtMostOnce, AcceptedIsJournaled
  <2> QED  BY <2>1, <2>2
<1>6. ASSUME NEW th \in Threads, JournalFails(th)
      PROVE  (LockHeld /\ NoOwnEntry /\ PersistReady
                /\ PersistedAtMostOnce /\ AcceptedIsJournaled)'
  <2>0. /\ InCritical(th) /\ Return(th, "raised") /\ UNCHANGED runs
        /\ \/ journal' = journal
           \/ /\ At(th, "append") /\ journal[Key(th)] = NoEntry
              /\ journal' = journal \/ journal' = Journaled(th)
    BY <1>6 DEF JournalFails, At, InCritical
  <2>1. \A u \in Threads : /\ thread'[u].req = thread[u].req
                           /\ thread'[u].answer = IF u = th THEN "raised" ELSE thread[u].answer
                           /\ thread'[u].pc = IF u = th THEN "idle" ELSE thread[u].pc
    BY <2>0, ThreadMoves
  <2>2. LockHeld'
    BY <1>r, <2>0, <2>1 DEF LockHeld, InCritical, Key, Req
  <2>3. NoOwnEntry'
    BY <1>m, <2>0, <2>1 DEF NoOwnEntry, At, Key, Req
  <2>4. PersistReady' /\ AcceptedIsJournaled'
    BY <1>e, <2>0, <2>1 DEF PersistReady, AcceptedIsJournaled, At, Key, Req
  <2>5. PersistedAtMostOnce'
    BY <1>j, <2>0 DEF PersistedAtMostOnce
  <2> QED  BY <2>2, <2>3, <2>4, <2>5
<1>7. ASSUME NEW th \in Threads, NEW a \in {"accepted", "raised"}, Persist(th, a)
      PROVE  (LockHeld /\ NoOwnEntry /\ PersistReady
                /\ PersistedAtMostOnce /\ AcceptedIsJournaled)'
  <2>0. /\ InCritical(th) /\ At(th, "persist") /\ Return(th, a) /\ UNCHANGED journal
        /\ runs' = [runs EXCEPT ![Key(th)] = @ + 1]
    BY <1>7 DEF Persist, At, InCritical
  <2>1. \A u \in Threads : /\ thread'[u].req = thread[u].req
                           /\ thread'[u].answer = IF u = th THEN a ELSE thread[u].answer
                           /\ thread'[u].pc = IF u = th THEN "idle" ELSE thread[u].pc
    BY <2>0, ThreadMoves
  <2>2. /\ journal[Key(th)] = [content |-> Req(th).content, gate |-> GateOf[th]]
        /\ runs[Key(th)] = 0 /\ journal[Key(th)] # NoEntry
    BY <1>n, <2>0, JournalGrows DEF PersistReady
  <2>3. LockHeld'
    BY <1>r, <2>0, <2>1 DEF LockHeld, InCritical, Key, Req
  <2>4. NoOwnEntry'
    BY <2>0, <2>1 DEF NoOwnEntry, At, Key, Req
  <2>5. ASSUME NEW u \in Threads, u # th, At(u, "persist")
        PROVE  runs'[Key(u)] = runs[Key(u)]
    <3>1. CASE Key(u) = Key(th)
      <4>1. journal[Key(u)].gate = GateOf[u] /\ journal[Key(th)].gate = GateOf[th]
        <5>1. journal[Key(u)] = [content |-> Req(u).content, gate |-> GateOf[u]]
          BY <2>5 DEF PersistReady
        <5> QED  BY <2>2, <5>1
      <4> QED  BY <1>x, <2>0, <2>5, <3>1, <4>1 DEF InCritical, At
    <3>2. CASE Key(u) # Key(th)
      BY <1>k, <2>0, <3>2 DEF TypeOK
    <3> QED  BY <3>1, <3>2
  <2>6. PersistReady'
    BY <2>0, <2>1, <2>5 DEF PersistReady, At, Key, Req
  <2>7. PersistedAtMostOnce'
    BY <1>k, <2>0, <2>2 DEF PersistedAtMostOnce, TypeOK
  <2>8. AcceptedIsJournaled'
    BY <2>0, <2>1, <2>2 DEF AcceptedIsJournaled, Key, Req
  <2> QED  BY <2>3, <2>4, <2>6, <2>7, <2>8
<1>8. ASSUME NEW g \in Gates, Crash(g)
      PROVE  (LockHeld /\ NoOwnEntry /\ PersistReady
                /\ PersistedAtMostOnce /\ AcceptedIsJournaled)'
  <2>1. \A u \in Threads : thread'[u] = IF GateOf[u] = g THEN NoCall ELSE thread[u]
    BY <1>8 DEF Crash
  <2>2. NoCall.pc = "idle" /\ NoCall.answer = "none"
    BY DEF NoCall
  <2>3. \A h \in Gates : h # g => lock'[h] = lock[h]
    BY <1>8 DEF Crash, TypeOK
  <2>4. LockHeld'
    BY <1>k, <2>1, <2>2, <2>3 DEF LockHeld, InCritical, Key, Req
  <2>5. NoOwnEntry' /\ PersistReady' /\ AcceptedIsJournaled'
    BY <1>8, <2>1, <2>2 DEF Crash, NoOwnEntry, PersistReady, AcceptedIsJournaled, At, Key, Req
  <2>6. PersistedAtMostOnce'
    BY <1>8 DEF Crash, PersistedAtMostOnce
  <2> QED  BY <2>4, <2>5, <2>6
<1>9. CASE Tick \/ UNCHANGED vars
  <2>1. UNCHANGED <<journal, runs, lock, thread>>
    BY <1>9 DEF Tick, vars
  <2> QED  BY <2>1 DEF LockHeld, InCritical, NoOwnEntry, PersistReady, At, Key, Req,
              PersistedAtMostOnce, AcceptedIsJournaled
<1> QED  BY <1>1, <1>2, <1>3, <1>4, <1>5, <1>6, <1>7, <1>8, <1>9 DEF Next

-----------------------------------------------------------------------------
\* What an interval refills.
LEMMA RefillGrows ==
  ASSUME NEW d \in Nat
  PROVE  Rate * d \in Nat /\ Rate * (d + 1) = Rate * d + Rate
<1>1. Rate \in Nat
  BY GateAssumption
<1> QED  BY <1>1

\* A bucket never promises less than nothing or more than the burst.
LEMMA PotentialBounds ==
  ASSUME TypeOK, LastPast, NEW g \in Gates, NEW t \in Tenants
  PROVE  /\ Potential(g, t) \in 0 .. Capacity
         /\ bucket[g][t].tokens \in 0 .. Capacity
         /\ bucket[g][t].last \in Nat /\ now \in Nat
         /\ now - bucket[g][t].last \in Nat
<1>1. /\ Capacity \in Nat /\ MaxTime \in Nat
  BY GateAssumption
<1>2. bucket[g][t] \in [tokens : 0 .. Capacity, last : Instants]
  BY DEF TypeOK
<1>3. now \in Nat /\ bucket[g][t].last \in Nat /\ bucket[g][t].last <= now
  BY <1>1, <1>2 DEF TypeOK, Instants, LastPast
<1>4. now - bucket[g][t].last \in Nat
  BY <1>3
<1>5. Rate * (now - bucket[g][t].last) \in Nat
  BY <1>4, RefillGrows
<1>6. Potential(g, t) \in 0 .. Capacity
  BY <1>1, <1>2, <1>5 DEF Potential, Refilled, Smaller
<1> QED  BY <1>2, <1>3, <1>4, <1>6

\* A new bucket is in bounds.
LEMMA InitBucketInv == Init => BucketInv
<1> SUFFICES ASSUME Init, NEW g \in Gates, NEW t \in Tenants, NEW w \in 0 .. now
             PROVE  spent[g][t] - before[g][t][w] + Potential(g, t)
                      <= Capacity + Rate * (now - w)
  BY DEF BucketInv
<1>1. TypeOK /\ LastPast
  BY InitGInv DEF GInv
<1>2. spent[g][t] = 0 /\ before[g][t][w] = 0 /\ now = 0 /\ w = 0
  BY GateAssumption DEF Init, Instants
<1>3. Potential(g, t) \in 0 .. Capacity /\ Capacity \in Nat
  BY <1>1, PotentialBounds, GateAssumption
<1>4. Rate * (now - w) \in Nat
  BY <1>2, RefillGrows
<1> QED  BY <1>2, <1>3, <1>4

\* Spending moves a token from what could be spent to what was, and a tick
\* adds at most Rate to what could be: no step exceeds the bound of a window.
LEMMA BucketStep ==
  TypeOK /\ LastPast /\ BucketInv /\ [Next]_vars => BucketInv'
<1> SUFFICES ASSUME TypeOK, LastPast, BucketInv, [Next]_vars
             PROVE  BucketInv'
  OBVIOUS
<1>0. Capacity \in Nat /\ Rate \in Nat /\ MaxTime \in Nat /\ now \in Nat
  BY GateAssumption DEF TypeOK, Instants
<1>s. ASSUME NEW g \in Gates, NEW t \in Tenants, NEW w \in 0 .. now
      PROVE  spent[g][t] \in Nat /\ before[g][t][w] \in Nat
  BY <1>0 DEF TypeOK, Instants
<1>u. ASSUME UNCHANGED <<limits, now>>
      PROVE  BucketInv'
  BY <1>u DEF BucketInv, Potential, Refilled, Smaller, limits
<1>1. ASSUME NEW th \in Threads, Spend(th)
      PROVE  BucketInv'
  <2>1. GateOf[th] \in Gates /\ TenantOf[Key(th)] \in Tenants
    BY GateAssumption DEF WriteRequests, TypeOK, Calls, Req, Key
  <2> PICK h \in Gates, x \in Tenants : h = GateOf[th] /\ x = TenantOf[Key(th)]
    BY <2>1
  <2> DEFINE tokens == Refilled(bucket[h][x])
             b == [tokens |-> IF tokens >= 1 THEN tokens - 1 ELSE tokens,
                   last |-> now]
  <2>2. tokens \in Nat /\ tokens <= Capacity
    BY <1>0, PotentialBounds DEF Potential
  <2>3. /\ bucket' = [bucket EXCEPT ![h][x] = b]
        /\ spent' = IF tokens >= 1 THEN [spent EXCEPT ![h][x] = @ + 1] ELSE spent
        /\ UNCHANGED <<now, before>>
    BY <1>1 DEF Spend
  <2>4. b.tokens = (IF tokens >= 1 THEN tokens - 1 ELSE tokens) /\ b.last = now
    OBVIOUS
  <2>5. bucket'[h][x] = b
    <3> HIDE DEF b
    <3> QED  BY <2>3 DEF TypeOK
  <2>6. Potential(h, x)' = IF tokens >= 1 THEN tokens - 1 ELSE tokens
    <3>1. Rate * (now - now) = 0
      BY <1>0
    <3> HIDE DEF tokens, b
    <3> QED  BY <1>0, <2>2, <2>3, <2>4, <2>5, <3>1 DEF Potential, Refilled, Smaller
  <2>7. spent'[h][x] = IF tokens >= 1 THEN spent[h][x] + 1 ELSE spent[h][x]
    <3> HIDE DEF tokens
    <3> QED  BY <2>3 DEF TypeOK
  <2>8. ASSUME NEW g \in Gates, NEW t \in Tenants, ~(g = h /\ t = x)
        PROVE  spent'[g][t] = spent[g][t] /\ bucket'[g][t] = bucket[g][t]
    <3> HIDE DEF tokens, b
    <3> QED  BY <2>3, <2>8 DEF TypeOK
  <2> SUFFICES ASSUME NEW g \in Gates, NEW t \in Tenants, NEW w \in 0 .. now
               PROVE  spent'[g][t] - before[g][t][w] + Potential(g, t)'
                        <= Capacity + Rate * (now - w)
    BY <2>3 DEF BucketInv
  <2>9. spent[g][t] - before[g][t][w] + Potential(g, t) <= Capacity + Rate * (now - w)
    BY DEF BucketInv
  <2>10. CASE g = h /\ t = x
    <3>1. Potential(g, t) = tokens
      BY <2>10 DEF Potential
    <3>2. spent'[g][t] + Potential(g, t)' = spent[g][t] + tokens
      <4> HIDE DEF tokens
      <4> QED  BY <1>s, <2>2, <2>6, <2>7, <2>10
    <3>3. /\ spent[g][t] \in Nat /\ spent'[g][t] \in Nat /\ before[g][t][w] \in Nat
          /\ Potential(g, t)' \in Nat
      <4> HIDE DEF tokens
      <4> QED  BY <1>s, <2>2, <2>6, <2>7, <2>10
    <3>4. spent'[g][t] - before[g][t][w] + Potential(g, t)'
            = spent[g][t] - before[g][t][w] + Potential(g, t)
      <4> HIDE DEF tokens
      <4> QED  BY <2>2, <3>1, <3>2, <3>3
    <3> QED  BY <2>9, <3>4
  <2>11. CASE ~(g = h /\ t = x)
    <3>1. spent'[g][t] = spent[g][t] /\ bucket'[g][t] = bucket[g][t] /\ now' = now
      BY <2>3, <2>8, <2>11
    <3>2. Potential(g, t)' = Potential(g, t)
      BY <3>1 DEF Potential, Refilled, Smaller
    <3> QED  BY <2>9, <3>1, <3>2
  <2> QED  BY <2>10, <2>11
<1>2. ASSUME NEW g \in Gates, Crash(g)
      PROVE  BucketInv'
  <2> SUFFICES ASSUME NEW h \in Gates, NEW t \in Tenants, NEW w \in 0 .. now
               PROVE  spent'[h][t] - before'[h][t][w] + Potential(h, t)'
                        <= Capacity + Rate * (now - w)
    BY <1>2 DEF BucketInv, Crash
  <2>1. CASE h = g
    <3>1. spent'[h][t] = 0 /\ before'[h][t][w] = 0
      BY <1>0, <1>2, <2>1 DEF Crash, TypeOK, Instants
    <3>2. Potential(h, t)' = Capacity
      <4>1. bucket'[h][t] = FullAt(now) /\ now' = now
        BY <1>2, <2>1 DEF Crash, TypeOK
      <4>2. Rate * (now - now) = 0
        BY <1>0
      <4> QED  BY <1>0, <4>1, <4>2 DEF Potential, Refilled, Smaller, FullAt
    <3>3. Rate * (now - w) \in Nat
      BY <1>0, RefillGrows
    <3> QED  BY <1>0, <3>1, <3>2, <3>3
  <2>2. CASE h # g
    <3>1. /\ spent'[h][t] = spent[h][t] /\ before'[h][t] = before[h][t]
          /\ bucket'[h][t] = bucket[h][t] /\ now' = now
      BY <1>2, <2>2 DEF Crash, TypeOK
    <3>2. Potential(h, t)' = Potential(h, t)
      BY <3>1 DEF Potential, Refilled, Smaller
    <3> QED  BY <3>1, <3>2 DEF BucketInv
  <2> QED  BY <2>1, <2>2
<1>3. CASE Tick
  <2> SUFFICES ASSUME NEW g \in Gates, NEW t \in Tenants, NEW w \in 0 .. now + 1
               PROVE  spent[g][t] - before'[g][t][w] + Potential(g, t)'
                        <= Capacity + Rate * ((now + 1) - w)
    BY <1>3 DEF BucketInv, Tick
  <2>1. /\ Potential(g, t) \in 0 .. Capacity
        /\ bucket[g][t].tokens \in 0 .. Capacity
        /\ now - bucket[g][t].last \in Nat /\ bucket[g][t].last \in Nat
    BY PotentialBounds
  <2> DEFINE d == now - bucket[g][t].last
             r == Rate * d
  <2>2. r \in Nat /\ Rate * (d + 1) = r + Rate /\ (now + 1) - bucket[g][t].last = d + 1
    BY <1>0, <2>1, RefillGrows
  <2>3. /\ Potential(g, t) = Smaller(Capacity, bucket[g][t].tokens + r)
        /\ Potential(g, t)' = Smaller(Capacity, bucket[g][t].tokens + (r + Rate))
    <3>1. bucket' = bucket /\ now' = now + 1
      BY <1>3 DEF Tick
    <3>2. Potential(g, t)' = Smaller(Capacity, bucket[g][t].tokens
                                       + Rate * ((now + 1) - bucket[g][t].last))
      BY <3>1 DEF Potential, Refilled, Smaller
    <3>3. Rate * ((now + 1) - bucket[g][t].last) = r + Rate
      BY <2>2
    <3> HIDE DEF r, d
    <3>4. Potential(g, t)' = Smaller(Capacity, bucket[g][t].tokens + (r + Rate))
      BY <3>2, <3>3
    <3> QED  BY <3>4 DEF Potential, Refilled, r, d
  <2>4. /\ Potential(g, t)' \in 0 .. Capacity
        /\ Potential(g, t)' <= Potential(g, t) + Rate
    <3> HIDE DEF r, d
    <3> QED  BY <1>0, <2>1, <2>2, <2>3 DEF Smaller
  <2>5. before'[g][t] = [before[g][t] EXCEPT ![now + 1] = spent[g][t]]
    BY <1>3 DEF Tick
  <2>6. before[g][t] \in [Instants -> Nat] /\ spent[g][t] \in Nat /\ now + 1 \in Instants
    BY <1>0, <1>3 DEF TypeOK, Tick, Instants
  <2>7. CASE w = now + 1
    <3>1. before'[g][t][w] = spent[g][t]
      BY <2>5, <2>6, <2>7
    <3>2. Rate * ((now + 1) - w) = 0
      BY <1>0, <2>7
    <3> QED  BY <1>0, <2>4, <2>6, <3>1, <3>2
  <2>8. CASE w # now + 1
    <3>1. w \in 0 .. now /\ w \in Instants
      BY <1>0, <2>6, <2>8 DEF Instants
    <3>2. before'[g][t][w] = before[g][t][w] /\ before[g][t][w] \in Nat
      BY <2>5, <2>6, <2>8, <3>1
    <3>3. spent[g][t] - before[g][t][w] + Potential(g, t) <= Capacity + Rate * (now - w)
      BY <3>1 DEF BucketInv
    <3>4. /\ Rate * (now - w) \in Nat
          /\ Rate * ((now + 1) - w) = Rate * (now - w) + Rate
      <4>1. now - w \in Nat /\ (now + 1) - w = (now - w) + 1
        BY <1>0, <3>1
      <4> QED  BY <4>1, RefillGrows
    <3> QED  BY <1>0, <2>1, <2>4, <2>6, <3>2, <3>3, <3>4
  <2> QED  BY <2>7, <2>8
<1>4. ASSUME NEW th \in Threads
      PROVE  /\ \A r \in Requests : Call(th, r) => UNCHANGED <<limits, now>>
             /\ Acquire(th) \/ Find(th) \/ Append(th) \/ JournalFails(th)
                  => UNCHANGED <<limits, now>>
             /\ \A a \in {"accepted", "raised"} : Persist(th, a) => UNCHANGED <<limits, now>>
  BY DEF Call, Acquire, Find, Append, JournalFails, Persist
<1>5. UNCHANGED vars => UNCHANGED <<limits, now>>
  BY DEF vars, limits
<1> QED  BY <1>u, <1>1, <1>2, <1>3, <1>4, <1>5 DEF Next

-----------------------------------------------------------------------------
\* The inductive invariant holds in every reachable state.
THEOREM GateInvariant == Spec => [](GInv /\ BucketInv)
<1>1. Init => GInv /\ BucketInv
  BY InitGInv, InitBucketInv
<1>2. GInv /\ BucketInv /\ [Next]_vars => (GInv /\ BucketInv)'
  BY GateStep, BucketStep DEF GInv
<1> QED  BY <1>1, <1>2, PTL DEF Spec

\* Every reachable state is well formed: in particular no bucket is overspent
\* by the threads that share it.
THEOREM GateTypeCorrect == Spec => []TypeOK
<1>1. GInv => TypeOK
  BY DEF GInv
<1> QED  BY <1>1, GateInvariant, PTL

\* persist_fact runs at most once for a key, and only for a journaled key,
\* across all processes, retries and crashes.
THEOREM FactsPersistedOnce == Spec => []PersistedAtMostOnce
<1>1. GInv => PersistedAtMostOnce
  BY DEF GInv
<1> QED  BY <1>1, GateInvariant, PTL

\* A caller that is told WriteAccepted finds his own request journaled.
THEOREM AcceptedAnswersOwn == Spec => []AcceptedIsJournaled
<1>1. GInv => AcceptedIsJournaled
  BY DEF GInv
<1> QED  BY <1>1, GateInvariant, PTL

\* An append that meets the constraint meets the entry of another process.
THEOREM ConflictsComeFromOutside == Spec => []ConflictsAreForeign
<1>1. GInv => ConflictsAreForeign
  BY DEF GInv, NoOwnEntry, ConflictsAreForeign
<1> QED  BY <1>1, GateInvariant, PTL

\* In every window of time a gate admits at most the burst and the refill.
THEOREM BurstsAreBounded == Spec => []BurstBounded
<1>1. GInv /\ BucketInv => BurstBounded
  <2> SUFFICES ASSUME GInv, BucketInv, NEW g \in Gates, NEW t \in Tenants,
                      NEW w \in 0 .. now
               PROVE  spent[g][t] - before[g][t][w] <= Capacity + Rate * (now - w)
    BY DEF BurstBounded
  <2>1. Capacity \in Nat /\ MaxTime \in Nat
    BY GateAssumption
  <2>2. Potential(g, t) \in 0 .. Capacity /\ now \in Nat
    BY PotentialBounds DEF GInv
  <2>3. spent[g][t] \in Nat /\ before[g][t][w] \in Nat
    BY <2>1 DEF GInv, TypeOK, Instants
  <2>4. Rate * (now - w) \in Nat
    BY <2>2, RefillGrows
  <2>5. spent[g][t] - before[g][t][w] + Potential(g, t) <= Capacity + Rate * (now - w)
    BY DEF BucketInv
  <2> QED  BY <2>1, <2>2, <2>3, <2>4, <2>5
<1> QED  BY <1>1, GateInvariant, PTL
=============================================================================
