------------------------------ MODULE ApiProofs ------------------------------
(***************************************************************************)
(* For the two parts of the HTTP API that keep state of their own.         *)
(*                                                                         *)
(* CircuitBreaker, for any number of requests, window, baseline and probe  *)
(* count: the state is well formed, a HALF_OPEN breaker is decided by its  *)
(* own probes only, and each of its probe slots is accounted for.  The one *)
(* fact about time the proof needs is TimingAssumption: what was being     *)
(* acquired when the breaker tripped is over before the shortest backoff   *)
(* is.                                                                     *)
(*                                                                         *)
(* MemoryApi, for any calls, tenants, sessions, capacity, TTL and budgets: *)
(* the lists of Zone 1 are in the order of their last accesses, a deletion *)
(* is final, and a client reads what it has written.                       *)
(***************************************************************************)
EXTENDS CircuitBreaker, MemoryApi, FiniteSetTheorems, SequenceTheorems,
        WellFoundedInduction, TLAPS

-----------------------------------------------------------------------------
(***************************************************************************)
(* The circuit breaker.                                                    *)
(***************************************************************************)
ProbeCalls == {c \in Callers : admitted[c].kind = "probe"}

\* What is still being acquired while OPEN was there when the breaker tripped.
LateCallsAge ==
  state = "OPEN" =>
    \A c \in Callers : /\ admitted[c].kind \in {"none", "late"}
                       /\ admitted[c].kind = "late" => admitted[c].age >= sinceTrip

BreakerIInv == BreakerTypeOK /\ LateCallsAge /\ OnlyProbesDecide /\ ProbesAccounted

-----------------------------------------------------------------------------
\* A bounded append keeps the element type and the bound (deque with maxlen).
LEMMA BoundedAppend ==
  ASSUME NEW S, NEW s \in Seq(S), NEW e \in S, NEW max \in Nat,
         Len(s) <= max
  PROVE  /\ Bounded(s, e, max) \in Seq(S)
         /\ Len(Bounded(s, e, max)) <= max
  <1>1. CASE Len(s) < max
    <2>1. Bounded(s, e, max) = Append(s, e)
      BY <1>1 DEF Bounded
    <2>2. Len(Append(s, e)) = Len(s) + 1 /\ Append(s, e) \in Seq(S)
      BY AppendProperties
    <2> QED  BY <1>1, <2>1, <2>2, LenProperties
  <1>2. CASE ~(Len(s) < max) /\ s = <<>>
    BY <1>2 DEF Bounded
  <1>3. CASE ~(Len(s) < max) /\ s # <<>>
    <2>1. Bounded(s, e, max) = Append(Tail(s), e)
      BY <1>3 DEF Bounded
    <2>2. Tail(s) \in Seq(S) /\ Len(Tail(s)) = Len(s) - 1
      BY <1>3, HeadTailProperties
    <2>3. Append(Tail(s), e) \in Seq(S) /\ Len(Append(Tail(s), e)) = Len(Tail(s)) + 1
      BY <2>2, AppendProperties
    <2> QED  BY <2>1, <2>2, <2>3, LenProperties
  <1> QED  BY <1>1, <1>2, <1>3

\* The window and the baseline stay well formed under a push.
LEMMA PushType ==
  ASSUME BreakerTypeOK, NEW o \in Outcomes
  PROVE  /\ RingWith(o) \in Seq(Outcomes) /\ Len(RingWith(o)) <= Window
         /\ BaselineWith(o) \in Seq(Latencies)
         /\ Len(BaselineWith(o)) <= BaselineSize
  <1>1. Window \in Nat \ {0} /\ BaselineSize \in Nat
    BY ConstantsAssumption
  <1>2. RingWith(o) \in Seq(Outcomes) /\ Len(RingWith(o)) <= Window
    BY <1>1, BoundedAppend DEF BreakerTypeOK, RingWith
  <1>3. CASE Len(ring) = Window /\ Head(ring) # Failure
    <2>1. ring # <<>>
      BY <1>1, <1>3, EmptySeq DEF BreakerTypeOK
    <2>2. Head(ring) \in Outcomes
      BY <2>1, HeadTailProperties DEF BreakerTypeOK
    <2>3. Head(ring) \in Latencies
      BY <1>3, <2>2 DEF Outcomes
    <2> QED  BY <1>1, <1>2, <1>3, <2>3, BoundedAppend DEF BreakerTypeOK, BaselineWith
  <1>4. CASE ~(Len(ring) = Window /\ Head(ring) # Failure)
    BY <1>2, <1>4 DEF BreakerTypeOK, BaselineWith
  <1> QED  BY <1>3, <1>4

\* The number of probe calls, when one starts, one ends, or none does.
LEMMA CountProbes ==
  ASSUME BreakerTypeOK, BreakerTypeOK'
  PROVE  /\ Cardinality(ProbeCalls) \in Nat
         /\ \A c \in Callers :
              /\ (ProbeCalls' = ProbeCalls \cup {c} /\ c \notin ProbeCalls) =>
                   Cardinality(ProbeCalls') = Cardinality(ProbeCalls) + 1
              /\ (ProbeCalls' = ProbeCalls \ {c} /\ c \in ProbeCalls) =>
                   Cardinality(ProbeCalls') = Cardinality(ProbeCalls) - 1
  <1>1. IsFiniteSet(Callers)
    BY ConstantsAssumption
  <1>2. IsFiniteSet(ProbeCalls)
    BY <1>1, FS_Subset DEF ProbeCalls
  <1>3. Cardinality(ProbeCalls) \in Nat
    BY <1>2, FS_CardinalityType
  <1>4. ASSUME NEW c \in Callers, ProbeCalls' = ProbeCalls \cup {c}, c \notin ProbeCalls
        PROVE  Cardinality(ProbeCalls') = Cardinality(ProbeCalls) + 1
    BY <1>2, <1>4, FS_AddElement
  <1>5. ASSUME NEW c \in Callers, ProbeCalls' = ProbeCalls \ {c}, c \in ProbeCalls
        PROVE  Cardinality(ProbeCalls') = Cardinality(ProbeCalls) - 1
    BY <1>2, <1>5, FS_RemoveElement
  <1> QED  BY <1>3, <1>4, <1>5

-----------------------------------------------------------------------------
\* The inductive invariant holds in the initial states.
LEMMA BreakerStarts == BreakerInit => BreakerIInv
  <1> SUFFICES ASSUME BreakerInit PROVE BreakerIInv  OBVIOUS
  <1>1. {Window, BaselineSize, MaxBackoff, MaxExponent, AcquireTimeout,
         MaxTimeouts, Probes} \subseteq Nat
    BY ConstantsAssumption
  <1>2. BreakerTypeOK
    <2>1. ring \in Seq(Outcomes) /\ Len(ring) <= Window
      BY <1>1, EmptySeq DEF BreakerInit
    <2>2. baseline \in Seq(Latencies) /\ Len(baseline) <= BaselineSize
      BY <1>1, EmptySeq DEF BreakerInit
    <2>3. admitted \in [Callers -> [kind : Kinds, age : 0 .. AcquireTimeout]]
      BY <1>1 DEF BreakerInit, NoCall, Kinds
    <2> QED  BY <1>1, <2>1, <2>2, <2>3 DEF BreakerTypeOK, BreakerInit, MaxTrips
  <1>3. LateCallsAge /\ OnlyProbesDecide /\ ProbesAccounted
    BY DEF BreakerInit, LateCallsAge, OnlyProbesDecide, ProbesAccounted
  <1> QED  BY <1>2, <1>3 DEF BreakerIInv

\* Each step keeps the state well formed.
LEMMA BreakerTypeStep == BreakerIInv /\ [BreakerNext]_breakerVars => BreakerTypeOK'
  <1> SUFFICES ASSUME BreakerIInv, [BreakerNext]_breakerVars PROVE BreakerTypeOK'  OBVIOUS
  <1> USE DEF BreakerIInv
  <1>0. /\ {Window, Probes} \subseteq Nat \ {0}
        /\ {BaselineSize, MaxBackoff, MaxExponent, AcquireTimeout, MaxTimeouts}
             \subseteq Nat
        /\ MaxTrips \in Nat \ {0}
    BY ConstantsAssumption DEF MaxTrips
  <1>a. ASSUME NEW c \in Callers, NEW k \in Kinds
        PROVE  Admit(c, k) =>
                 admitted' \in [Callers -> [kind : Kinds, age : 0 .. AcquireTimeout]]
    BY <1>0 DEF BreakerTypeOK, Admit
  <1>b. ASSUME NEW c \in Callers
        PROVE  /\ Finish(c) =>
                    admitted' \in [Callers -> [kind : Kinds, age : 0 .. AcquireTimeout]]
               /\ FinishAndLeave(c) =>
                    admitted' \in [Callers -> [kind : Kinds, age : 0 .. AcquireTimeout]]
    <2>1. NoCall \in [kind : Kinds, age : 0 .. AcquireTimeout]
      BY <1>0 DEF NoCall, Kinds
    <2>2. \A d \in Callers : [admitted[d] EXCEPT !.kind = "late"]
                               \in [kind : Kinds, age : 0 .. AcquireTimeout]
      BY DEF BreakerTypeOK, Kinds
    <2>3. Finish(c) => admitted' \in [Callers -> [kind : Kinds, age : 0 .. AcquireTimeout]]
      BY <2>1 DEF BreakerTypeOK, Finish
    <2>4. FinishAndLeave(c) =>
            admitted' \in [Callers -> [kind : Kinds, age : 0 .. AcquireTimeout]]
      BY <2>1, <2>2 DEF FinishAndLeave
    <2> QED  BY <2>3, <2>4
  <1>c. <<>> \in Seq(Outcomes) /\ Len(<<>>) = 0
    BY EmptySeq
  \* A call in HALF_OPEN is one of its probes: there is a success to come.
  <1>d. ASSUME NEW c \in Callers, Acquiring(c), state = "HALF_OPEN"
        PROVE  successes + 1 <= Probes
    <2>1. c \in ProbeCalls
      BY <1>d DEF OnlyProbesDecide, ProbeCalls, Acquiring
    <2>2. IsFiniteSet(ProbeCalls)
      BY ConstantsAssumption, FS_Subset DEF ProbeCalls
    <2>3. Cardinality(ProbeCalls) \in Nat /\ Cardinality(ProbeCalls) # 0
      BY <2>1, <2>2, FS_CardinalityType, FS_EmptySet
    <2>4. attempts = successes + lost + Cardinality(ProbeCalls)
      BY <1>d DEF ProbesAccounted, ProbeCalls
    <2>5. Probes \in Nat /\ attempts \in 0 .. Probes /\ successes \in Nat /\ lost \in Nat
      BY <1>0 DEF BreakerTypeOK
    <2> HIDE DEF BreakerIInv
    <2> QED  BY <2>3, <2>4, <2>5
  <1>1. CASE UNCHANGED breakerVars
    BY <1>1 DEF breakerVars, results, BreakerTypeOK
  <1>2. ASSUME NEW c \in Callers, Allow(c)
        PROVE  BreakerTypeOK'
    <2>1. "closed" \in Kinds /\ "probe" \in Kinds
      BY DEF Kinds
    <2>2. CASE AllowClosed(c)
      <3>1. admitted' \in [Callers -> [kind : Kinds, age : 0 .. AcquireTimeout]]
        BY <1>a, <2>1, <2>2 DEF AllowClosed
      <3> QED BY <2>2, <3>1 DEF AllowClosed, BreakerTypeOK, results
    <2>3. CASE AllowHalfOpens(c)
      <3>1. admitted' \in [Callers -> [kind : Kinds, age : 0 .. AcquireTimeout]]
        BY <1>a, <2>1, <2>3 DEF AllowHalfOpens
      <3>2. attempts' \in 0 .. Probes /\ successes' \in 0 .. Probes /\ lost' \in Nat
        BY <1>0, <2>3 DEF AllowHalfOpens
      <3> QED BY <2>3, <3>1, <3>2 DEF AllowHalfOpens, BreakerTypeOK, results
    <2>4. CASE AllowProbe(c)
      <3>1. admitted' \in [Callers -> [kind : Kinds, age : 0 .. AcquireTimeout]]
        BY <1>a, <2>1, <2>4 DEF AllowProbe
      <3>2. attempts' \in 0 .. Probes
        BY <1>0, <2>4 DEF AllowProbe, BreakerTypeOK
      <3> QED BY <2>4, <3>1, <3>2 DEF AllowProbe, BreakerTypeOK, results
    <2> QED  BY <1>2, <2>2, <2>3, <2>4 DEF Allow
  <1>3. ASSUME NEW c \in Callers, NEW o \in Outcomes, Record(c, o)
        PROVE  BreakerTypeOK'
    <2>1. admitted' \in [Callers -> [kind : Kinds, age : 0 .. AcquireTimeout]]
      BY <1>b, <1>3 DEF Record
    <2>2. /\ ring' \in Seq(Outcomes) /\ Len(ring') <= Window
          /\ baseline' \in Seq(Latencies) /\ Len(baseline') <= BaselineSize
      BY <1>3, PushType DEF Record
    <2> QED  BY <1>3, <2>1, <2>2 DEF Record, BreakerTypeOK
  <1>4. ASSUME NEW c \in Callers, NEW o \in Outcomes, Trip(c, o)
        PROVE  BreakerTypeOK'
    <2>1. Smaller(trips + 1, MaxTrips) \in 0 .. MaxTrips
      BY <1>0 DEF BreakerTypeOK, Smaller
    <2>2. trips' \in 0 .. MaxTrips /\ sinceTrip' \in 0 .. MaxBackoff
      BY <1>0, <1>4, <2>1 DEF Trip
    <2>3. /\ ring' \in Seq(Outcomes) /\ Len(ring') <= Window
          /\ baseline' \in Seq(Latencies) /\ Len(baseline') <= BaselineSize
      BY <1>0, <1>c, <1>4, PushType DEF Trip
    <2>4. admitted' \in [Callers -> [kind : Kinds, age : 0 .. AcquireTimeout]]
      BY <1>b, <1>4 DEF Trip
    <2> QED  BY <1>4, <2>2, <2>3, <2>4 DEF Trip, BreakerTypeOK
  <1>5. ASSUME NEW c \in Callers, NEW o \in Outcomes, CountProbe(c, o)
        PROVE  BreakerTypeOK'
    <2>1. successes' \in 0 .. Probes
      <3>1. successes + 1 < Probes /\ successes' = successes + 1
        BY <1>5 DEF CountProbe
      <3>2. Probes \in Nat /\ successes \in Nat
        BY <1>0 DEF BreakerTypeOK
      <3> HIDE DEF BreakerIInv
      <3> QED BY <3>1, <3>2
    <2>2. admitted' \in [Callers -> [kind : Kinds, age : 0 .. AcquireTimeout]]
      BY <1>b, <1>5 DEF CountProbe
    <2>3. /\ ring' \in Seq(Outcomes) /\ Len(ring') <= Window
          /\ baseline' \in Seq(Latencies) /\ Len(baseline') <= BaselineSize
      BY <1>5, PushType DEF CountProbe
    <2> QED  BY <1>5, <2>1, <2>2, <2>3 DEF CountProbe, BreakerTypeOK
  <1>6. ASSUME NEW c \in Callers, NEW o \in Outcomes, Close(c, o)
        PROVE  BreakerTypeOK'
    <2>1. successes' \in 0 .. Probes
      BY <1>0, <1>d, <1>6 DEF Close, BreakerTypeOK
    <2>2. admitted' \in [Callers -> [kind : Kinds, age : 0 .. AcquireTimeout]]
      BY <1>b, <1>6 DEF Close
    <2>3. /\ ring' \in Seq(Outcomes) /\ Len(ring') <= Window
          /\ baseline' \in Seq(Latencies) /\ Len(baseline') <= BaselineSize
      BY <1>0, <1>c, <1>6, PushType DEF Close
    <2>4. trips' \in 0 .. MaxTrips /\ sinceTrip' \in 0 .. MaxBackoff
      BY <1>0, <1>6 DEF Close
    <2> QED  BY <1>6, <2>1, <2>2, <2>3, <2>4 DEF Close, BreakerTypeOK
  <1>7. ASSUME NEW c \in Callers, PoolTimeout(c)
        PROVE  BreakerTypeOK'
    <2>1. admitted' \in [Callers -> [kind : Kinds, age : 0 .. AcquireTimeout]]
      BY <1>b, <1>7 DEF PoolTimeout
    <2>2. timeouts' \in 0 .. MaxTimeouts /\ lost' \in Nat
      <3>1. /\ timeouts < MaxTimeouts /\ timeouts' = timeouts + 1
            /\ lost' = lost + 1 \/ lost' = lost
        BY <1>7 DEF PoolTimeout
      <3>2. MaxTimeouts \in Nat /\ timeouts \in Nat /\ lost \in Nat
        BY <1>0 DEF BreakerTypeOK
      <3> HIDE DEF BreakerIInv
      <3> QED BY <3>1, <3>2
    <2> QED  BY <1>7, <2>1, <2>2 DEF PoolTimeout, BreakerTypeOK, results
  <1>8. CASE TimePasses
    <2>1. sinceTrip' \in 0 .. MaxBackoff
      BY <1>0, <1>8 DEF TimePasses, BreakerTypeOK, Smaller
    <2>2. ASSUME NEW c \in Callers, Acquiring(c)
          PROVE  [admitted[c] EXCEPT !.age = @ + 1] \in [kind : Kinds, age : 0 .. AcquireTimeout]
      <3>1. admitted[c] \in [kind : Kinds, age : 0 .. AcquireTimeout]
        BY DEF BreakerTypeOK
      <3>2. admitted[c].age < AcquireTimeout
        BY <1>8, <2>2 DEF TimePasses
      <3>3. admitted[c].age + 1 \in 0 .. AcquireTimeout
        BY <1>0, <3>1, <3>2
      <3> QED  BY <3>1, <3>3
    <2>3. NoCall \in [kind : Kinds, age : 0 .. AcquireTimeout]
      BY <1>0 DEF NoCall, Kinds
    <2>4. admitted' \in [Callers -> [kind : Kinds, age : 0 .. AcquireTimeout]]
      BY <1>8, <2>2, <2>3 DEF TimePasses
    <2> QED  BY <1>8, <2>1, <2>4 DEF TimePasses, BreakerTypeOK, results
  <1> QED  BY <1>1, <1>2, <1>3, <1>4, <1>5, <1>6, <1>7, <1>8 DEF BreakerNext, Answer

\* The rest of the invariant, action by action.
LEMMA ProbeStep ==
  BreakerIInv /\ [BreakerNext]_breakerVars => (LateCallsAge /\ OnlyProbesDecide /\ ProbesAccounted)'
  <1> SUFFICES ASSUME BreakerIInv, [BreakerNext]_breakerVars, BreakerTypeOK'
               PROVE  (LateCallsAge /\ OnlyProbesDecide /\ ProbesAccounted)'
    BY BreakerTypeStep
  <1> USE DEF BreakerIInv
  <1>p. ProbesAccounted <=>
          (state = "HALF_OPEN" =>
             attempts = successes + lost + Cardinality(ProbeCalls))
    BY DEF ProbesAccounted, ProbeCalls
  <1>q. ProbesAccounted' <=>
          (state' = "HALF_OPEN" =>
             attempts' = successes' + lost' + Cardinality(ProbeCalls'))
    BY DEF ProbesAccounted, ProbeCalls
  <1>0. AcquireTimeout \in Nat /\ MaxBackoff \in Nat
    BY ConstantsAssumption
  <1>1. CASE UNCHANGED breakerVars
    BY <1>1 DEF breakerVars, LateCallsAge, OnlyProbesDecide, ProbesAccounted
  <1>2. ASSUME NEW c \in Callers, AllowClosed(c)
        PROVE  (LateCallsAge /\ OnlyProbesDecide /\ ProbesAccounted)'
    BY <1>2 DEF AllowClosed, LateCallsAge, OnlyProbesDecide, ProbesAccounted
  <1>3. ASSUME NEW c \in Callers, AllowHalfOpens(c)
        PROVE  (LateCallsAge /\ OnlyProbesDecide /\ ProbesAccounted)'
    \* The backoff outlasts every acquisition, so there is none under way.
    <2>1. trips \in 0 .. MaxExponent + 1
      <3>1. MaxExponent \in Nat
        BY ConstantsAssumption
      <3>2. trips \in 0 .. MaxExponent + 2 /\ trips < MaxExponent + 2
        BY <1>3 DEF AllowHalfOpens, BackoffElapsed, BreakerTypeOK, MaxTrips
      <3> QED  BY <3>1, <3>2
    <2>2. AcquireTimeout < sinceTrip
      BY <1>0, <1>3, <2>1, TimingAssumption
         DEF AllowHalfOpens, BackoffElapsed, BreakerTypeOK
    <2>3. \A d \in Callers : admitted[d].kind = "none"
      BY <1>0, <1>3, <2>2 DEF AllowHalfOpens, LateCallsAge, BreakerTypeOK
    <2>4. admitted' = [admitted EXCEPT ![c] = [kind |-> "probe", age |-> 0]]
      BY <1>3 DEF AllowHalfOpens, Admit
    <2>5. \A d \in Callers : admitted'[d].kind = IF d = c THEN "probe" ELSE "none"
      BY <2>3, <2>4 DEF BreakerTypeOK
    <2>6. ProbeCalls' = {c}
      BY <2>5 DEF ProbeCalls
    <2>7. Cardinality(ProbeCalls') = 1
      BY <2>6, FS_Singleton
    <2> QED  BY <1>3, <1>q, <2>5, <2>7 DEF AllowHalfOpens, LateCallsAge, OnlyProbesDecide
  <1>4. ASSUME NEW c \in Callers, AllowProbe(c)
        PROVE  (LateCallsAge /\ OnlyProbesDecide /\ ProbesAccounted)'
    <2>1. admitted' = [admitted EXCEPT ![c] = [kind |-> "probe", age |-> 0]]
      BY <1>4 DEF AllowProbe, Admit
    <2>2. ProbeCalls' = ProbeCalls \cup {c} /\ c \notin ProbeCalls
      BY <1>4, <2>1 DEF AllowProbe, Acquiring, ProbeCalls, BreakerTypeOK
    <2>3. Cardinality(ProbeCalls') = Cardinality(ProbeCalls) + 1
          /\ Cardinality(ProbeCalls) \in Nat
      BY <2>2, CountProbes
    <2>4. OnlyProbesDecide'
      BY <1>4, <2>1 DEF AllowProbe, OnlyProbesDecide, BreakerTypeOK
    <2> QED  BY <1>4, <1>p, <1>q, <2>3, <2>4 DEF AllowProbe, LateCallsAge, BreakerTypeOK
  <1>5. ASSUME NEW c \in Callers, NEW o \in Outcomes, Record(c, o)
        PROVE  (LateCallsAge /\ OnlyProbesDecide /\ ProbesAccounted)'
    BY <1>5 DEF Record, Finish, NoCall, LateCallsAge, OnlyProbesDecide,
                ProbesAccounted, BreakerTypeOK
  <1>6. ASSUME NEW c \in Callers, NEW o \in Outcomes, Trip(c, o)
        PROVE  (LateCallsAge /\ OnlyProbesDecide /\ ProbesAccounted)'
    <2>1. \A d \in Callers : admitted'[d].kind \in {"none", "late"} /\ admitted'[d].age >= 0
      BY <1>6 DEF Trip, FinishAndLeave, NoCall, BreakerTypeOK
    <2> QED  BY <1>6, <2>1 DEF Trip, LateCallsAge, OnlyProbesDecide, ProbesAccounted
  \* A call that ends in HALF_OPEN is one probe less under way.
  <1>e. ASSUME NEW c \in Callers, Finish(c), Acquiring(c), state = "HALF_OPEN"
        PROVE  /\ Cardinality(ProbeCalls') = Cardinality(ProbeCalls) - 1
               /\ Cardinality(ProbeCalls) \in Nat
               /\ \A d \in Callers : admitted'[d].kind \in {"none", "probe"}
    <2>1. admitted[c].kind = "probe"
      BY <1>e DEF OnlyProbesDecide, Acquiring
    <2>2. \A d \in Callers : admitted'[d] = IF d = c THEN NoCall ELSE admitted[d]
      BY <1>e DEF Finish, BreakerTypeOK
    <2>3. ProbeCalls' = ProbeCalls \ {c} /\ c \in ProbeCalls
      BY <2>1, <2>2 DEF ProbeCalls, NoCall
    <2>4. \A d \in Callers : admitted'[d].kind \in {"none", "probe"}
      BY <1>e, <2>2 DEF NoCall, OnlyProbesDecide
    <2> QED  BY <2>3, <2>4, CountProbes
  <1>7. ASSUME NEW c \in Callers, NEW o \in Outcomes, CountProbe(c, o)
        PROVE  (LateCallsAge /\ OnlyProbesDecide /\ ProbesAccounted)'
    <2>1. Cardinality(ProbeCalls') = Cardinality(ProbeCalls) - 1
          /\ Cardinality(ProbeCalls) \in Nat
          /\ \A d \in Callers : admitted'[d].kind \in {"none", "probe"}
      BY <1>7, <1>e DEF CountProbe
    <2>2. /\ state = "HALF_OPEN" /\ state' = state
          /\ attempts' = attempts /\ successes' = successes + 1 /\ lost' = lost
      BY <1>7 DEF CountProbe
    <2>3. attempts = successes + lost + Cardinality(ProbeCalls)
      BY <1>p, <2>2
    <2>4. attempts \in Nat /\ successes \in Nat /\ lost \in Nat
      BY DEF BreakerTypeOK
    <2> HIDE DEF BreakerIInv
    <2>5. attempts' = successes' + lost' + Cardinality(ProbeCalls')
      BY <2>1, <2>2, <2>3, <2>4
    <2> QED  BY <1>q, <2>1, <2>2, <2>5 DEF LateCallsAge, OnlyProbesDecide
  <1>8. ASSUME NEW c \in Callers, NEW o \in Outcomes, Close(c, o)
        PROVE  (LateCallsAge /\ OnlyProbesDecide /\ ProbesAccounted)'
    BY <1>8 DEF Close, LateCallsAge, OnlyProbesDecide, ProbesAccounted
  <1>9. ASSUME NEW c \in Callers, PoolTimeout(c)
        PROVE  (LateCallsAge /\ OnlyProbesDecide /\ ProbesAccounted)'
    <2>1. CASE state = "HALF_OPEN"
      <3>1. admitted[c].kind = "probe"
        BY <1>9, <2>1 DEF PoolTimeout, OnlyProbesDecide, Acquiring
      <3>2. Cardinality(ProbeCalls') = Cardinality(ProbeCalls) - 1
            /\ Cardinality(ProbeCalls) \in Nat
            /\ \A d \in Callers : admitted'[d].kind \in {"none", "probe"}
        BY <1>9, <1>e, <2>1 DEF PoolTimeout
      <3> QED  BY <1>9, <1>p, <1>q, <2>1, <3>1, <3>2
               DEF PoolTimeout, LateCallsAge, OnlyProbesDecide, BreakerTypeOK
    <2>2. CASE state # "HALF_OPEN"
      BY <1>9, <2>2 DEF PoolTimeout, Finish, NoCall, LateCallsAge,
                        OnlyProbesDecide, ProbesAccounted, BreakerTypeOK
    <2> QED  BY <2>1, <2>2
  <1>10. CASE TimePasses
    <2>1. \A c \in Callers : /\ admitted'[c].kind = admitted[c].kind
                             /\ Acquiring(c) => admitted'[c].age = admitted[c].age + 1
      BY <1>10 DEF TimePasses, Acquiring, NoCall, BreakerTypeOK
    <2>2. ProbeCalls' = ProbeCalls
      BY <2>1 DEF ProbeCalls
    <2>3. state = "OPEN" => sinceTrip' <= sinceTrip + 1
      BY <1>0, <1>10 DEF TimePasses, Smaller, BreakerTypeOK
    <2>4. LateCallsAge'
      BY <1>0, <1>10, <2>1, <2>3 DEF TimePasses, LateCallsAge, Acquiring, BreakerTypeOK
    <2>5. OnlyProbesDecide'
      BY <1>10, <2>1 DEF TimePasses, OnlyProbesDecide
    <2>6. ProbesAccounted'
      BY <1>10, <1>p, <1>q, <2>2 DEF TimePasses
    <2> QED  BY <2>4, <2>5, <2>6
  <1> QED  BY <1>1, <1>2, <1>3, <1>4, <1>5, <1>6, <1>7, <1>8, <1>9, <1>10
           DEF BreakerNext, Allow, Answer

-----------------------------------------------------------------------------
\* The inductive invariant holds in every reachable state.
LEMMA BreakerInductive == BreakerSpec => []BreakerIInv
  <1>1. BreakerIInv /\ [BreakerNext]_breakerVars => BreakerIInv'
    BY BreakerTypeStep, ProbeStep DEF BreakerIInv
  <1> QED  BY <1>1, BreakerStarts, PTL DEF BreakerSpec

\* The breaker's state is well formed: in particular a HALF_OPEN period never
\* lets more than half_open_probe_count requests through.
THEOREM BreakerTypeCorrect == BreakerSpec => []BreakerTypeOK
  <1>1. BreakerIInv => BreakerTypeOK
    BY DEF BreakerIInv
  <1> QED  BY <1>1, BreakerInductive, PTL

\* No outcome of before a trip is counted by the HALF_OPEN period after it,
\* although record_success and record_failure cannot tell calls apart.
THEOREM DecidedByItsProbes == BreakerSpec => []OnlyProbesDecide
  <1>1. BreakerIInv => OnlyProbesDecide
    BY DEF BreakerIInv
  <1> QED  BY <1>1, BreakerInductive, PTL

\* Every admitted probe succeeded, is under way, or was lost to a PoolTimeout.
THEOREM ProbesConserved == BreakerSpec => []ProbesAccounted
  <1>1. BreakerIInv => ProbesAccounted
    BY DEF BreakerIInv
  <1> QED  BY <1>1, BreakerInductive, PTL

-----------------------------------------------------------------------------
(***************************************************************************)
(* Sums and selections are defined by recursion on the position.  Any set  *)
(* of naturals has a least one: what holds at 0 and is handed on from each *)
(* position to the next holds at all of them.                              *)
(***************************************************************************)
LEMMA LeastNumber ==
  ASSUME NEW T \in SUBSET Nat, T # {}
  PROVE  \E m \in T : \A k \in T : m <= k
  <1>1. PICK m \in T : \A k \in T : <<k, m>> \notin OpToRel(<, Nat)
    BY NatLessThanWellFounded, WFMin
  <1>2. \A k \in T : ~ (k < m)
    BY <1>1 DEF OpToRel
  <1> QED BY <1>2

\* Holds: the positions something holds at.
LEMMA UpTo ==
  ASSUME NEW N \in Nat, NEW Holds, 0 \in Holds,
         \A n \in 1..N : n - 1 \in Holds => n \in Holds
  PROVE  0..N \subseteq Holds
  <1> DEFINE bad == (0..N) \ Holds
  <1>1. CASE bad = {}
    BY <1>1
  <1>2. CASE bad # {}
    <2>1. bad \in SUBSET Nat
      OBVIOUS
    <2>2. PICK m \in bad : \A k \in bad : m <= k
      BY <1>2, <2>1, LeastNumber
    <2>3. m \in 1..N /\ m - 1 \in 0..N /\ ~(m <= m - 1)
      BY <2>2
    <2>4. m - 1 \in Holds
      BY <2>2, <2>3
    <2> QED BY <2>2, <2>3, <2>4
  <1> QED BY <1>1, <1>2

\* A recursive definition on 0..N has a solution.
LEMMA Solution ==
  ASSUME NEW V, NEW b \in V, NEW N \in Nat, NEW G \in [1..N -> [V -> V]]
  PROVE  \E f \in [0..N -> V] : f[0] = b /\ \A n \in 1..N : f[n] = G[n][f[n - 1]]
  <1> DEFINE Solves(f, k) ==
               /\ f \in [0..k -> V] /\ f[0] = b
               /\ \A n \in 1..k : f[n] = G[n][f[n - 1]]
             holds == {k \in Nat : \E f : Solves(f, k)}
  <1>1. 0 \in holds
    <2>1. Solves([n \in 0..0 |-> b], 0)
      OBVIOUS
    <2> QED BY <2>1
  <1>2. ASSUME NEW k \in 1..N, k - 1 \in holds PROVE k \in holds
    <2>1. PICK f : Solves(f, k - 1)
      BY <1>2
    <2> DEFINE g == [n \in 0..k |-> IF n = k THEN G[k][f[k - 1]] ELSE f[n]]
    <2>2. f[k - 1] \in V /\ G[k][f[k - 1]] \in V
      BY <2>1
    <2>3. g \in [0..k -> V]
      BY <2>1, <2>2
    <2>4. g[0] = b
      BY <2>1
    <2>5. ASSUME NEW n \in 1..k PROVE g[n] = G[n][g[n - 1]]
      <3>1. n - 1 \in 0..(k - 1) /\ n - 1 # k /\ g[n - 1] = f[n - 1]
        OBVIOUS
      <3>2. CASE n = k
        BY <3>1, <3>2
      <3>3. CASE n # k
        <4>1. n \in 1..(k - 1) /\ g[n] = f[n]
          BY <3>3
        <4> QED BY <2>1, <3>1, <4>1
      <3> QED BY <3>2, <3>3
    <2>6. Solves(g, k)
      BY <2>3, <2>4, <2>5
    <2>7. k \in Nat
      OBVIOUS
    <2> QED BY <2>6, <2>7, Zenon
  <1> HIDE DEF holds
  <1>3. 0..N \subseteq holds
    BY <1>1, <1>2, UpTo
  <1>4. N \in 0..N
    OBVIOUS
  <1> QED BY <1>3, <1>4 DEF holds

-----------------------------------------------------------------------------
(***************************************************************************)
(* What a list of items costs.                                             *)
(***************************************************************************)
\* A list of items the budget may be spent on.
Costed(q) == q \in Seq(Chosen)

\* What the first n items cost together.
Sums(q) == CHOOSE sum : sum = [n \in 0..Len(q) |->
                                IF n = 0 THEN 0 ELSE sum[n - 1] + q[n].tokens]

\* The partial sums: from none to all, each is a natural.
LEMMA SumsDefined ==
  ASSUME NEW q, Costed(q)
  PROVE  /\ TokensOf(q) = Sums(q)[Len(q)]
         /\ \A n \in 0..Len(q) :
              /\ Sums(q)[n] \in Nat
              /\ Sums(q)[n] = IF n = 0 THEN 0 ELSE Sums(q)[n - 1] + q[n].tokens
  <1>1. Len(q) \in Nat /\ \A n \in 1..Len(q) : q[n].tokens \in Nat
    <2>1. Len(q) \in Nat /\ \A n \in 1..Len(q) : q[n] \in Chosen
      BY LenProperties, ElementOfSeq DEF Costed
    <2> QED BY <2>1 DEF Chosen
  <1> DEFINE G == [n \in 1..Len(q) |-> [v \in Nat |-> v + q[n].tokens]]
  <1>2. G \in [1..Len(q) -> [Nat -> Nat]] /\ 0 \in Nat
    BY <1>1
  <1>3. PICK f \in [0..Len(q) -> Nat] :
          f[0] = 0 /\ \A n \in 1..Len(q) : f[n] = G[n][f[n - 1]]
    <2> DEFINE V == Nat
               b == 0
               N == Len(q)
    <2>1. b \in V /\ N \in Nat /\ G \in [1..N -> [V -> V]]
      BY <1>1, <1>2
    <2> HIDE DEF G, V, b, N
    <2>2. \E f \in [0..N -> V] : f[0] = b /\ \A n \in 1..N : f[n] = G[n][f[n - 1]]
      BY <2>1, Solution, SMT
    <2> QED BY <2>2 DEF V, b, N
  <1>4. ASSUME NEW n \in 0..Len(q)
        PROVE  f[n] = IF n = 0 THEN 0 ELSE f[n - 1] + q[n].tokens
    <2>1. n # 0 => n \in 1..Len(q) /\ f[n - 1] \in Nat
      BY <1>1
    <2> QED BY <1>3, <2>1
  <1>5. f = [n \in 0..Len(q) |-> IF n = 0 THEN 0 ELSE f[n - 1] + q[n].tokens]
    BY <1>4
  <1>6. Sums(q) = [n \in 0..Len(q) |->
                    IF n = 0 THEN 0 ELSE Sums(q)[n - 1] + q[n].tokens]
    BY <1>5, Zenon DEF Sums
  <1>7. \A n \in 0..Len(q) :
          Sums(q)[n] = IF n = 0 THEN 0 ELSE Sums(q)[n - 1] + q[n].tokens
    BY <1>6, Zenon
  <1>8. 0..Len(q) \subseteq {n \in 0..Len(q) : Sums(q)[n] \in Nat}
    <2> DEFINE holds == {n \in 0..Len(q) : Sums(q)[n] \in Nat}
    <2>1. 0 \in holds
      BY <1>1, <1>7
    <2>2. ASSUME NEW n \in 1..Len(q), n - 1 \in holds PROVE n \in holds
      <3>1. n \in 0..Len(q) /\ n # 0
        BY <1>1
      <3>2. Sums(q)[n] = Sums(q)[n - 1] + q[n].tokens
        BY <1>7, <3>1, Zenon
      <3>3. Sums(q)[n - 1] \in Nat
        BY <2>2, Zenon
      <3>4. q[n].tokens \in Nat
        BY <1>1, Zenon
      <3>5. Sums(q)[n] \in Nat
        <4> DEFINE a == Sums(q)[n - 1]
                   b == q[n].tokens
        <4>1. a \in Nat /\ b \in Nat /\ Sums(q)[n] = a + b
          BY <3>2, <3>3, <3>4
        <4> HIDE DEF a, b
        <4> QED BY <4>1
      <3> QED BY <3>1, <3>5, Zenon
    <2> HIDE DEF holds
    <2>3. 0..Len(q) \subseteq holds
      BY <1>1, <2>1, <2>2, UpTo
    <2> QED BY <2>3 DEF holds
  <1>9. TokensOf(q) = Sums(q)[Len(q)]
    BY DEF TokensOf, Sums
  <1> QED BY <1>7, <1>8, <1>9

\* One item more costs what that item costs.
LEMMA CostOfAppend ==
  ASSUME NEW q, Costed(q), NEW e \in Chosen
  PROVE  /\ Costed(Append(q, e)) /\ TokensOf(q) \in Nat
         /\ TokensOf(Append(q, e)) = TokensOf(q) + e.tokens
  <1> DEFINE N == Len(q)
             p == Append(q, e)
  <1>1. /\ Costed(p) /\ Len(p) = N + 1 /\ N \in Nat
        /\ \A i \in 1..N : p[i] = q[i]
        /\ p[N + 1] = e
    BY AppendProperties, LenProperties DEF Costed
  <1>2. 0..N \subseteq {n \in 0..N : Sums(p)[n] = Sums(q)[n]}
    <2> DEFINE holds == {n \in 0..N : Sums(p)[n] = Sums(q)[n]}
    <2>1. 0 \in holds
      BY <1>1, SumsDefined
    <2>2. ASSUME NEW n \in 1..N, n - 1 \in holds PROVE n \in holds
      <3>1. /\ Sums(p)[n] = Sums(p)[n - 1] + p[n].tokens
            /\ Sums(q)[n] = Sums(q)[n - 1] + q[n].tokens
        <4>1. n \in 0..Len(p) /\ n \in 0..Len(q) /\ n # 0
          BY <1>1
        <4> HIDE DEF p, N
        <4> QED BY <1>1, <4>1, SumsDefined
      <3> QED BY <1>1, <2>2, <3>1
    <2> HIDE DEF holds
    <2>3. 0..N \subseteq holds
      BY <1>1, <2>1, <2>2, UpTo
    <2> QED BY <2>3 DEF holds
  <1>3. Sums(p)[N + 1] = Sums(p)[N] + e.tokens /\ Sums(p)[N] = Sums(q)[N]
    <2>1. N + 1 \in 0..Len(p) /\ N + 1 # 0 /\ N \in 0..N /\ (N + 1) - 1 = N
      BY <1>1
    <2>2. Sums(p)[N + 1] = Sums(p)[(N + 1) - 1] + p[N + 1].tokens
      <3> HIDE DEF N, p
      <3> QED BY <1>1, <2>1, SumsDefined
    <2> QED BY <1>1, <1>2, <2>1, <2>2
  <1>4. /\ TokensOf(p) = Sums(p)[N + 1]
        /\ TokensOf(q) = Sums(q)[N] /\ Sums(q)[N] \in Nat
    <2>1. N \in 0..N
      BY <1>1
    <2> QED BY <1>1, <2>1, SumsDefined
  <1> QED BY <1>1, <1>3, <1>4

\* Append adds one member.
LEMMA MembersOfAppend ==
  ASSUME NEW S, NEW s \in Seq(S), NEW e \in S
  PROVE  ToSet(Append(s, e)) = ToSet(s) \cup {e}
  <1> DEFINE N == Len(s)
  <1>1. /\ N \in Nat /\ DOMAIN s = 1..N /\ DOMAIN Append(s, e) = 1..(N + 1)
        /\ \A i \in 1..N : Append(s, e)[i] = s[i]
        /\ Append(s, e)[N + 1] = e
    BY AppendProperties, LenProperties
  <1>2. 1..(N + 1) = (1..N) \cup {N + 1} /\ N + 1 \notin 1..N
    BY <1>1
  <1> HIDE DEF N
  <1> QED BY <1>1, <1>2 DEF ToSet

\* The lists selected from the first n items.
Selected(q, budget) ==
  CHOOSE chosen : chosen = [n \in 0..Len(q) |->
    IF n = 0 THEN <<>>
    ELSE IF TokensOf(chosen[n - 1]) + q[n].tokens <= budget
         THEN Append(chosen[n - 1], q[n]) ELSE chosen[n - 1]]

\* The selection goes on item by item, as _greedy_knapsack_fill does.
LEMMA SelectedDefined ==
  ASSUME NEW q, Costed(q), NEW budget \in Nat
  PROVE  /\ Fill(q, budget) = Selected(q, budget)[Len(q)]
         /\ Selected(q, budget)[0] = <<>>
         /\ \A n \in 1..Len(q) :
              Selected(q, budget)[n] =
                IF TokensOf(Selected(q, budget)[n - 1]) + q[n].tokens <= budget
                THEN Append(Selected(q, budget)[n - 1], q[n])
                ELSE Selected(q, budget)[n - 1]
  <1> DEFINE N == Len(q)
             V == Seq(Chosen)
             Go(v, e) == IF TokensOf(v) + e.tokens <= budget THEN Append(v, e) ELSE v
             G == [n \in 1..N |-> [v \in V |-> Go(v, q[n])]]
             b == <<>>
  <1>1. N \in Nat /\ \A n \in 1..N : q[n] \in Chosen
    BY LenProperties, ElementOfSeq DEF Costed
  <1>2. G \in [1..N -> [V -> V]] /\ b \in V
    BY <1>1, AppendProperties, EmptySeq
  <1>3. PICK f \in [0..N -> V] : f[0] = b /\ \A n \in 1..N : f[n] = G[n][f[n - 1]]
    <2> HIDE DEF G, V, b, N
    <2> QED BY <1>1, <1>2, Solution, SMT
  <1>4. ASSUME NEW n \in 1..N PROVE f[n] = Go(f[n - 1], q[n])
    <2>1. f[n - 1] \in V
      BY <1>1
    <2> HIDE DEF V, Go
    <2> QED BY <1>3, <2>1
  <1> DEFINE F(chosen) ==
        [n \in 0..N |->
          IF n = 0 THEN <<>>
          ELSE IF TokensOf(chosen[n - 1]) + q[n].tokens <= budget
               THEN Append(chosen[n - 1], q[n]) ELSE chosen[n - 1]]
  <1>5. f = F(f)
    <2>1. ASSUME NEW n \in 0..N PROVE f[n] = F(f)[n]
      <3>1. n # 0 => n \in 1..N
        BY <1>1
      <3>2. CASE n = 0
        <4>1. f[n] = <<>>
          BY <1>3, <3>2
        <4> HIDE DEF N, V, G, Go
        <4> QED BY <3>2, <4>1
      <3>3. CASE n # 0
        <4>1. f[n] = Go(f[n - 1], q[n])
          BY <1>4, <3>1, <3>3
        <4> HIDE DEF N, V, G
        <4> QED BY <3>3, <4>1
      <3> QED BY <3>2, <3>3
    <2> HIDE DEF V, G
    <2> QED BY <2>1
  <1>6. Selected(q, budget) = F(Selected(q, budget))
    <2> HIDE DEF V, G, Go
    <2> QED BY <1>5, Zenon DEF Selected
  <1> DEFINE sel == Selected(q, budget)
  <1>7. \A n \in 0..N : sel[n] = F(sel)[n] /\ F(sel)[n] =
          IF n = 0 THEN <<>>
          ELSE IF TokensOf(sel[n - 1]) + q[n].tokens <= budget
               THEN Append(sel[n - 1], q[n]) ELSE sel[n - 1]
    <2> HIDE DEF sel, V, G, Go
    <2> QED BY <1>6, Zenon DEF sel
  <1>8. Fill(q, budget) = sel[N]
    BY DEF Fill, Selected
  <1>9. 0 \in 0..N /\ \A n \in 1..N : n \in 0..N /\ n # 0
    BY <1>1
  <1> HIDE DEF sel, N, F, G, V, Go
  <1> QED BY <1>7, <1>8, <1>9 DEF sel, N

\* _greedy_knapsack_fill: what the selection leaves out does not fit in what it
\* leaves of the budget.
THEOREM FillLeavesNothingThatFits ==
  ASSUME NEW q, Costed(q), NEW budget \in Nat
  PROVE  /\ Costed(Fill(q, budget)) /\ TokensOf(Fill(q, budget)) \in Nat
         /\ \A m \in 1..Len(q) : \/ q[m] \in ToSet(Fill(q, budget))
                                 \/ TokensOf(Fill(q, budget)) + q[m].tokens > budget
  <1> DEFINE N == Len(q)
             sel == Selected(q, budget)
             Sound(n) ==
               /\ Costed(sel[n])
               /\ \A m \in 1..n : \/ q[m] \in ToSet(sel[n])
                                  \/ TokensOf(sel[n]) + q[m].tokens > budget
             holds == {n \in 0..N : Sound(n)}
  <1>1. N \in Nat /\ \A n \in 1..N : q[n] \in Chosen /\ q[n].tokens \in Nat
    <2>1. N \in Nat /\ \A n \in 1..N : q[n] \in Chosen
      BY LenProperties, ElementOfSeq DEF Costed
    <2> QED BY <2>1 DEF Chosen
  <1>2. 0 \in holds
    <2>1. sel[0] = <<>>
      BY SelectedDefined
    <2>2. Costed(sel[0])
      BY <2>1, EmptySeq DEF Costed
    <2> QED BY <1>1, <2>2
  <1>3. ASSUME NEW n \in 1..N, n - 1 \in holds PROVE n \in holds
    <2> DEFINE s == sel[n - 1]
               e == q[n]
    <2>1. /\ Costed(s) /\ e \in Chosen /\ e.tokens \in Nat
          /\ \A m \in 1..(n - 1) : \/ q[m] \in ToSet(s)
                                   \/ TokensOf(s) + q[m].tokens > budget
      BY <1>1, <1>3
    <2>2. /\ Costed(Append(s, e)) /\ TokensOf(s) \in Nat
          /\ TokensOf(Append(s, e)) = TokensOf(s) + e.tokens
      BY <2>1, CostOfAppend
    <2>3. ToSet(Append(s, e)) = ToSet(s) \cup {e}
      BY <2>1, MembersOfAppend DEF Costed
    <2>4. sel[n] = IF TokensOf(s) + e.tokens <= budget THEN Append(s, e) ELSE s
      BY SelectedDefined
    <2>5. \A m \in 1..n : m \in 1..(n - 1) \/ m = n
      BY <1>1
    <2> HIDE DEF s, e, sel
    <2>6. CASE TokensOf(s) + e.tokens <= budget
      <3>1. Costed(sel[n])
        BY <2>2, <2>4, <2>6
      <3>2. ASSUME NEW m \in 1..n
            PROVE  \/ q[m] \in ToSet(sel[n])
                   \/ TokensOf(sel[n]) + q[m].tokens > budget
        <4>1. q[m].tokens \in Nat
          BY <1>1
        <4> QED BY <2>1, <2>2, <2>3, <2>4, <2>5, <2>6, <4>1 DEF e
      <3> QED BY <1>1, <3>1, <3>2
    <2>7. CASE ~(TokensOf(s) + e.tokens <= budget)
      <3>1. sel[n] = s /\ Costed(sel[n])
        BY <2>1, <2>4, <2>7
      <3>2. TokensOf(s) + e.tokens > budget
        BY <2>1, <2>2, <2>7
      <3>3. ASSUME NEW m \in 1..n
            PROVE  \/ q[m] \in ToSet(sel[n])
                   \/ TokensOf(sel[n]) + q[m].tokens > budget
        BY <2>1, <2>5, <3>1, <3>2 DEF e
      <3>4. n \in 0..N
        BY <1>1
      <3> QED BY <3>1, <3>3, <3>4
    <2> QED BY <2>6, <2>7
  <1> HIDE DEF holds
  <1>4. 0..N \subseteq holds
    BY <1>1, <1>2, <1>3, UpTo
  <1>5. Sound(N) /\ Fill(q, budget) = sel[N]
    BY <1>1, <1>4, SelectedDefined DEF holds
  <1>6. TokensOf(sel[N]) \in Nat
    <2> DEFINE t == sel[N]
    <2>1. Len(t) \in Nat /\ Len(t) \in 0..Len(t)
      BY <1>5, LenProperties DEF Costed
    <2> HIDE DEF t
    <2> QED BY <1>5, <2>1, SumsDefined DEF t
  <1> QED BY <1>5, <1>6

-----------------------------------------------------------------------------
(***************************************************************************)
(* The entries of a session: ordered by their last accesses, no item twice.*)
(***************************************************************************)
Ordered(q) == \A i, j \in DOMAIN q : i < j => /\ q[i].last <= q[j].last
                                              /\ q[i].item # q[j].item
Queue(q) == q \in Seq(Entries) /\ Ordered(q)

\* What a queue is made of.
LEMMA QueueFacts ==
  ASSUME clock \in Nat, NEW q, Queue(q)
  PROVE  /\ Len(q) \in Nat /\ DOMAIN q = 1..Len(q)
         /\ \A i \in 1..Len(q) : /\ q[i] \in Entries /\ q[i].item \in Names
                                 /\ q[i].tokens \in Nat /\ q[i].last \in 0..clock
  <1>1. /\ Len(q) \in Nat /\ DOMAIN q = 1..Len(q)
        /\ \A i \in 1..Len(q) : q[i] \in Entries
    BY LenProperties, ElementOfSeq DEF Queue
  <1> QED BY <1>1 DEF Entries

\* A stretch of a queue is a queue.
LEMMA Stretch ==
  ASSUME clock \in Nat, NEW q, Queue(q), NEW m \in Nat \ {0}, NEW n \in Int, n <= Len(q)
  PROVE  LET s == SubSeq(q, m, n)
         IN  /\ Queue(s)
             /\ Len(s) = IF m <= n THEN n - m + 1 ELSE 0
             /\ \A i \in 1..Len(s) : m + i - 1 \in m..n /\ s[i] = q[m + i - 1]
             /\ ToSet(s) = {q[i] : i \in m..n}
  <1> DEFINE s == SubSeq(q, m, n)
  <1>1. /\ Len(q) \in Nat /\ DOMAIN q = 1..Len(q)
        /\ \A i \in 1..Len(q) : q[i] \in Entries
    BY QueueFacts
  <1>2. \A i \in m..n : i \in 1..Len(q)
    BY <1>1
  <1>3. /\ s \in Seq(Entries)
        /\ Len(s) = IF m <= n THEN n - m + 1 ELSE 0
        /\ \A i \in 1..n - m + 1 : s[i] = q[m + i - 1]
    BY <1>1, <1>2, SubSeqProperties
  <1>4. Len(s) \in Nat /\ DOMAIN s = 1..Len(s)
    BY <1>3, LenProperties
  <1> HIDE DEF s
  <1>5. \A i \in 1..Len(s) : m + i - 1 \in m..n /\ i \in 1..n - m + 1
    BY <1>3, <1>4
  <1>6. \A i \in 1..Len(s) : s[i] = q[m + i - 1]
    BY <1>3, <1>5
  <1>7. Ordered(s)
    <2> SUFFICES ASSUME NEW i \in 1..Len(s), NEW j \in 1..Len(s), i < j
                 PROVE  s[i].last <= s[j].last /\ s[i].item # s[j].item
      BY <1>4 DEF Ordered
    <2>1. /\ m + i - 1 \in DOMAIN q /\ m + j - 1 \in DOMAIN q
          /\ m + i - 1 < m + j - 1
      BY <1>1, <1>2, <1>5
    <2> QED BY <1>6, <2>1 DEF Queue, Ordered
  <1>8. ToSet(s) = {q[i] : i \in m..n}
    <2>1. ASSUME NEW i \in m..n PROVE i - m + 1 \in 1..Len(s) /\ s[i - m + 1] = q[i]
      BY <1>3, <1>4
    <2>2. \A i \in DOMAIN s : s[i] \in {q[k] : k \in m..n}
      BY <1>4, <1>5, <1>6
    <2>3. \A k \in m..n : q[k] \in ToSet(s)
      BY <1>4, <2>1 DEF ToSet
    <2>4. ToSet(s) \subseteq {q[k] : k \in m..n}
      BY <2>2 DEF ToSet
    <2> QED BY <2>3, <2>4
  <1> QED BY <1>3, <1>5, <1>6, <1>7, <1>8 DEF s, Queue

\* Expiry stops at the first entry that is not idle: by the order, all that
\* stay are not idle.
LEMMA LiveIsFresh ==
  ASSUME clock \in Nat, NEW q, Queue(q)
  PROVE  /\ Queue(Live(q)) /\ Len(Live(q)) <= Len(q)
         /\ ToSet(Live(q)) \subseteq ToSet(q)
         /\ \A e \in ToSet(Live(q)) : clock - e.last < TTL
  <1> DEFINE fresh == {i \in DOMAIN q : clock - q[i].last < TTL}
  <1>1. /\ Len(q) \in Nat /\ DOMAIN q = 1..Len(q)
        /\ \A i \in 1..Len(q) : q[i].last \in 0..clock
    BY QueueFacts
  <1>2. CASE fresh = {}
    <2>1. Live(q) = <<>>
      BY <1>2 DEF Live
    <2>2. <<>> \in Seq(Entries) /\ Len(<<>>) = 0 /\ DOMAIN <<>> = 1..0
      BY EmptySeq, LenProperties
    <2> QED BY <1>1, <2>1, <2>2 DEF Queue, Ordered, ToSet
  <1>3. CASE fresh # {}
    <2> DEFINE m == Min(fresh)
    <2>1. fresh \in SUBSET Nat
      BY <1>1
    <2>2. m \in fresh /\ \A i \in fresh : m <= i
      <3>1. \E k \in fresh : \A i \in fresh : k <= i
        BY <1>3, <2>1, LeastNumber
      <3> QED BY <3>1 DEF Min
    <2> HIDE DEF m
    <2>3. Live(q) = SubSeq(q, m, Len(q))
      BY <1>3 DEF Live, m
    <2>4. m \in Nat \ {0} /\ m <= Len(q)
      BY <1>1, <2>2
    <2>5. /\ Queue(Live(q)) /\ Len(Live(q)) = Len(q) - m + 1
          /\ ToSet(Live(q)) = {q[i] : i \in m..Len(q)}
      <3>1. Len(q) \in Int /\ Len(q) <= Len(q)
        BY <1>1
      <3>2. /\ Queue(SubSeq(q, m, Len(q)))
            /\ Len(SubSeq(q, m, Len(q))) = IF m <= Len(q) THEN Len(q) - m + 1 ELSE 0
            /\ ToSet(SubSeq(q, m, Len(q))) = {q[i] : i \in m..Len(q)}
        BY <2>4, <3>1, Stretch
      <3> QED BY <2>3, <2>4, <3>2
    <2>6. \A i \in m..Len(q) : i \in DOMAIN q /\ clock - q[i].last < TTL
      <3> SUFFICES ASSUME NEW i \in m..Len(q)
                   PROVE  i \in DOMAIN q /\ clock - q[i].last < TTL
        OBVIOUS
      <3>1. i \in DOMAIN q /\ m \in DOMAIN q
        BY <1>1, <2>4
      <3>2. q[m].last <= q[i].last
        BY <1>1, <3>1 DEF Queue, Ordered
      <3>3. TTL \in Nat /\ clock - q[m].last < TTL
        BY <2>2, ApiAssumption
      <3> QED BY <1>1, <3>1, <3>2, <3>3
    <2>7. ToSet(Live(q)) \subseteq ToSet(q)
      BY <2>5, <2>6 DEF ToSet
    <2>8. Len(Live(q)) <= Len(q)
      BY <1>1, <2>4, <2>5
    <2> QED BY <2>5, <2>6, <2>7, <2>8
  <1> QED BY <1>2, <1>3

\* An item that is taken out was in once, and the rest stays in order.
LEMMA WithoutItem ==
  ASSUME clock \in Nat, NEW q, Queue(q), NEW n
  PROVE  /\ Queue(Without(q, n)) /\ Len(Without(q, n)) <= Len(q)
         /\ ToSet(Without(q, n)) \subseteq ToSet(q)
         /\ \A e \in ToSet(Without(q, n)) : e.item # n
  <1>1. Len(q) \in Nat /\ DOMAIN q = 1..Len(q)
    BY QueueFacts
  <1>2. CASE \A i \in DOMAIN q : q[i].item # n
    <2>1. Without(q, n) = q
      BY <1>2 DEF Without
    <2> QED BY <1>1, <1>2, <2>1 DEF ToSet
  <1>3. CASE \E i \in DOMAIN q : q[i].item = n
    <2> DEFINE k == CHOOSE i \in DOMAIN q : q[i].item = n
               a == SubSeq(q, 1, k - 1)
               b == SubSeq(q, k + 1, Len(q))
    <2>1. k \in 1..Len(q) /\ q[k].item = n
      BY <1>1, <1>3
    <2>2. Without(q, n) = a \o b
      BY <1>3 DEF Without, RemoveAt
    <2> HIDE DEF k
    <2>3. /\ Queue(a) /\ Len(a) = k - 1
          /\ \A i \in 1..Len(a) : a[i] = q[i]
      <3>1. 1 \in Nat \ {0} /\ k - 1 \in Int /\ k - 1 <= Len(q)
        BY <1>1, <2>1
      <3>2. /\ Queue(a) /\ Len(a) = IF 1 <= k - 1 THEN (k - 1) - 1 + 1 ELSE 0
            /\ \A i \in 1..Len(a) : a[i] = q[1 + i - 1]
        BY <3>1, Stretch
      <3>3. Len(a) = k - 1 /\ \A i \in 1..Len(a) : 1 + i - 1 = i
        BY <2>1, <3>2
      <3> HIDE DEF a
      <3> QED BY <3>2, <3>3
    <2>4. /\ Queue(b) /\ Len(b) = Len(q) - k
          /\ \A i \in 1..Len(b) : b[i] = q[k + i]
      <3>1. k + 1 \in Nat \ {0} /\ Len(q) \in Int /\ Len(q) <= Len(q)
        BY <1>1, <2>1
      <3>2. /\ Queue(b) /\ Len(b) = IF k + 1 <= Len(q) THEN Len(q) - (k + 1) + 1 ELSE 0
            /\ \A i \in 1..Len(b) : b[i] = q[(k + 1) + i - 1]
        BY <3>1, Stretch
      <3>3. Len(b) = Len(q) - k
        <4>1. Len(b) = IF k + 1 <= Len(q) THEN Len(q) - (k + 1) + 1 ELSE 0
          BY <3>2
        <4>2. k \in Nat /\ Len(q) \in Nat /\ k <= Len(q)
          BY <1>1, <2>1
        <4>3. (IF k + 1 <= Len(q) THEN Len(q) - (k + 1) + 1 ELSE 0) = Len(q) - k
          BY <4>2
        <4> HIDE DEF b
        <4> QED BY <4>1, <4>3
      <3>4. \A i \in 1..Len(b) : (k + 1) + i - 1 = k + i
        BY <2>1
      <3> HIDE DEF b
      <3> QED BY <3>2, <3>3, <3>4
    <2> HIDE DEF a, b
    <2> DEFINE c == a \o b
               at(i) == IF i < k THEN i ELSE i + 1
    <2>5. /\ c \in Seq(Entries) /\ Len(c) = Len(q) - 1
          /\ \A i \in 1..Len(c) : c[i] = IF i <= Len(a) THEN a[i] ELSE b[i - Len(a)]
      <3>1. a \in Seq(Entries) /\ b \in Seq(Entries)
        BY <2>3, <2>4 DEF Queue
      <3>2. /\ c \in Seq(Entries) /\ Len(c) = Len(a) + Len(b)
            /\ \A i \in 1..Len(a) + Len(b) : c[i] = IF i <= Len(a) THEN a[i]
                                                   ELSE b[i - Len(a)]
        BY <3>1, ConcatProperties
      <3>3. Len(a) + Len(b) = Len(q) - 1
        BY <1>1, <2>1, <2>3, <2>4
      <3> QED BY <3>2, <3>3
    <2>6. Len(c) \in Nat /\ DOMAIN c = 1..Len(c)
      BY <2>5, LenProperties
    <2> HIDE DEF c
    <2>7. ASSUME NEW i \in 1..Len(c)
          PROVE  at(i) \in DOMAIN q /\ at(i) # k /\ c[i] = q[at(i)]
      <3>1. CASE i < k
        <4>1. at(i) = i /\ i \in 1..Len(a) /\ i \in DOMAIN q
          BY <1>1, <2>1, <2>3, <2>5, <3>1
        <4>2. c[i] = a[i] /\ a[i] = q[i]
          BY <2>3, <2>5, <4>1
        <4> QED BY <2>1, <3>1, <4>1, <4>2
      <3>2. CASE ~(i < k)
        <4>1. i - (k - 1) \in 1..Len(b) /\ k + (i - (k - 1)) = i + 1
          BY <1>1, <2>1, <2>4, <2>5, <3>2
        <4>2. c[i] = b[i - (k - 1)]
          BY <2>1, <2>3, <2>5, <3>2
        <4> QED BY <1>1, <2>1, <2>4, <2>5, <3>2, <4>1, <4>2
      <3> QED BY <3>1, <3>2
    <2>8. Ordered(c)
      <3> SUFFICES ASSUME NEW i \in 1..Len(c), NEW j \in 1..Len(c), i < j
                   PROVE  c[i].last <= c[j].last /\ c[i].item # c[j].item
        BY <2>6 DEF Ordered
      <3>1. at(i) < at(j)
        BY <2>1
      <3> HIDE DEF at
      <3> QED BY <2>7, <3>1 DEF Queue, Ordered
    <2>9. ASSUME NEW e \in ToSet(c) PROVE e \in ToSet(q) /\ e.item # n
      <3>1. PICK i \in 1..Len(c) : e = c[i]
        BY <2>6 DEF ToSet
      <3>2. at(i) \in DOMAIN q /\ at(i) # k /\ e = q[at(i)]
        BY <2>7, <3>1
      <3> HIDE DEF at
      <3>3. k \in DOMAIN q /\ (at(i) < k \/ k < at(i))
        BY <1>1, <2>1, <3>2
      <3>4. q[at(i)].item # q[k].item
        BY <3>2, <3>3 DEF Queue, Ordered
      <3> QED BY <2>1, <3>2, <3>4 DEF ToSet
    <2> QED BY <1>1, <2>2, <2>5, <2>8, <2>9 DEF c, Queue
  <1> QED BY <1>2, <1>3

\* What put leaves: the item is in, as the youngest, and the rest was there.
LEMMA PutItem ==
  ASSUME clock \in Nat, NEW q, Queue(q), Len(q) <= Capacity,
         NEW n \in Names, NEW tokens \in Nat
  PROVE  /\ Queue(Put(q, n, tokens)) /\ Len(Put(q, n, tokens)) <= Capacity
         /\ Entry(n, tokens) \in ToSet(Put(q, n, tokens))
         /\ ToSet(Put(q, n, tokens)) \subseteq ToSet(q) \cup {Entry(n, tokens)}
  <1> DEFINE e == Entry(n, tokens)
             r == Without(Live(q), n)
             a == Append(r, e)
             L == Len(r)
  <1>1. Capacity \in Nat \ {0}
    BY ApiAssumption
  <1>2. /\ Queue(r) /\ L <= Capacity /\ ToSet(r) \subseteq ToSet(q)
        /\ \A x \in ToSet(r) : x.item # n
    <2>1. /\ Queue(Live(q)) /\ Len(Live(q)) <= Len(q)
          /\ ToSet(Live(q)) \subseteq ToSet(q)
      BY LiveIsFresh
    <2>2. /\ Queue(r) /\ L <= Len(Live(q))
          /\ ToSet(r) \subseteq ToSet(Live(q))
          /\ \A x \in ToSet(r) : x.item # n
      BY <2>1, WithoutItem
    <2>3. Len(q) \in Nat /\ Len(Live(q)) \in Nat /\ L \in Nat
      BY <2>1, <2>2, QueueFacts
    <2> HIDE DEF r
    <2> QED BY <1>1, <2>1, <2>2, <2>3
  <1> HIDE DEF r
  <1>3. /\ L \in Nat /\ DOMAIN r = 1..L
        /\ \A i \in 1..L : r[i].last \in 0..clock
    BY <1>2, QueueFacts
  <1>4. e \in Entries /\ e.item = n /\ e.last = clock
    BY DEF Entry, Entries
  <1> HIDE DEF e
  <1>5. /\ a \in Seq(Entries) /\ Len(a) = L + 1 /\ DOMAIN a = 1..L + 1
        /\ \A i \in 1..L : a[i] = r[i]
        /\ a[L + 1] = e
        /\ ToSet(a) = ToSet(r) \cup {e}
    BY <1>2, <1>4, AppendProperties, LenProperties, MembersOfAppend DEF Queue
  <1> HIDE DEF a
  <1>6. Queue(a)
    <2> SUFFICES ASSUME NEW i \in 1..L + 1, NEW j \in 1..L + 1, i < j
                 PROVE  a[i].last <= a[j].last /\ a[i].item # a[j].item
      BY <1>5 DEF Queue, Ordered
    <2>1. i \in 1..L /\ a[i] = r[i] /\ i \in DOMAIN r
      BY <1>3, <1>5
    <2>2. CASE j \in 1..L
      BY <1>2, <1>3, <1>5, <2>1, <2>2 DEF Queue, Ordered
    <2>3. CASE j = L + 1
      <3>1. r[i] \in ToSet(r) /\ r[i].last \in 0..clock
        BY <1>3, <2>1 DEF ToSet
      <3> QED BY <1>2, <1>4, <1>5, <2>1, <2>3, <3>1
    <2> QED BY <1>3, <2>2, <2>3
  <1>7. CASE Len(a) > Capacity
    <2> DEFINE m == Len(a) - Capacity + 1
    <2>1. m \in Nat \ {0} /\ Len(a) \in Int /\ Len(a) <= Len(a) /\ L + 1 \in m..Len(a)
      BY <1>1, <1>3, <1>5, <1>7
    <2>2. Put(q, n, tokens) = SubSeq(a, m, Len(a))
      BY <1>7 DEF Put, Youngest, a, r, e
    <2> HIDE DEF m
    <2>3. /\ Queue(SubSeq(a, m, Len(a)))
          /\ Len(SubSeq(a, m, Len(a))) = IF m <= Len(a) THEN Len(a) - m + 1 ELSE 0
          /\ ToSet(SubSeq(a, m, Len(a))) = {a[i] : i \in m..Len(a)}
      BY <1>6, <2>1, Stretch
    <2>4. Len(Put(q, n, tokens)) = Capacity
      BY <1>1, <1>3, <1>5, <1>7, <2>2, <2>3 DEF m
    <2>5. e \in ToSet(Put(q, n, tokens))
      BY <1>5, <2>1, <2>2, <2>3
    <2>6. ToSet(Put(q, n, tokens)) \subseteq ToSet(a)
      BY <1>5, <2>1, <2>2, <2>3 DEF ToSet
    <2>7. ToSet(a) \subseteq ToSet(q) \cup {e}
      BY <1>2, <1>5
    <2>8. Capacity <= Capacity
      BY <1>1
    <2> QED BY <2>2, <2>3, <2>4, <2>5, <2>6, <2>7, <2>8 DEF e
  <1>8. CASE ~(Len(a) > Capacity)
    <2>1. Put(q, n, tokens) = a
      BY <1>8 DEF Put, Youngest, a, r, e
    <2> QED BY <1>1, <1>2, <1>3, <1>5, <1>6, <1>8, <2>1 DEF e
  <1> QED BY <1>7, <1>8

-----------------------------------------------------------------------------
(***************************************************************************)
(* What an assembly takes of the entries it found.                         *)
(***************************************************************************)
\* A list has finitely many members.
LEMMA MembersAreFinite ==
  ASSUME NEW S, NEW s \in Seq(S)
  PROVE  IsFiniteSet(ToSet(s)) /\ ToSet(s) \subseteq S
  <1>1. Len(s) \in Nat /\ DOMAIN s = 1..Len(s) /\ \A i \in 1..Len(s) : s[i] \in S
    BY LenProperties, ElementOfSeq
  <1>2. s \in [1..Len(s) -> ToSet(s)]
    BY <1>1, SeqDef DEF ToSet
  <1>3. s \in Surjection(1..Len(s), ToSet(s))
    BY <1>1, <1>2 DEF Surjection, ToSet
  <1>4. IsFiniteSet(1..Len(s))
    BY <1>1, FS_Interval
  <1>5. IsFiniteSet(ToSet(s))
    BY <1>3, <1>4, FS_Surjection
  <1> QED BY <1>1, <1>5 DEF ToSet

\* Everything is taken, or as many entries as were asked for.
LEMMA CandidatesFacts ==
  ASSUME NEW found, IsFiniteSet(found), NEW max \in Nat,
         NEW q \in Candidates(found, max)
  PROVE  /\ q \in Seq(found)
         /\ Len(q) = max \/ \A f \in found : \E i \in 1..Len(q) : q[i] = f
  <1>1. PICK p \in SetToSeqs(found) :
          q = SubSeq(p, 1, IF Len(p) < max THEN Len(p) ELSE max)
    BY DEF Candidates
  <1> DEFINE N == Cardinality(found)
             m == IF Len(p) < max THEN Len(p) ELSE max
  <1>2. /\ N \in Nat /\ p \in [1..N -> found]
        /\ \A i, j \in 1..N : i # j => p[i] # p[j]
    BY <1>1, FS_CardinalityType DEF SetToSeqs
  <1>3. p \in Seq(found) /\ Len(p) = N
    <2>1. p \in Seq(found)
      BY <1>2, SeqDef
    <2> QED BY <1>2, <2>1, LenProperties
  <1>4. \A f \in found : \E i \in 1..N : p[i] = f
    <2>1. p \in Injection(1..N, found)
      BY <1>2 DEF Injection, IsInjective
    <2>2. Cardinality(1..N) = N
      <3>1. 1 \in Int /\ N \in Int
        BY <1>2
      <3>2. Cardinality(1..N) = IF 1 > N THEN 0 ELSE N - 1 + 1
        BY <3>1, FS_Interval
      <3> HIDE DEF N
      <3> QED BY <1>2, <3>2
    <2> HIDE DEF N
    <2>3. p \in Surjection(1..N, found)
      BY <2>1, <2>2, FS_Injection DEF N
    <2> QED BY <2>3 DEF Surjection
  <1>5. /\ q \in Seq(found) /\ Len(q) = m
        /\ \A i \in 1..m : q[i] = p[i]
    <2>1. m \in Nat /\ m <= N
      BY <1>2, <1>3
    <2>2. \A i \in 1..m : p[i] \in found
      BY <1>2, <2>1
    <2>3. q = SubSeq(p, 1, m)
      BY <1>1
    <2> HIDE DEF m
    <2>4. /\ SubSeq(p, 1, m) \in Seq(found)
          /\ Len(SubSeq(p, 1, m)) = IF 1 <= m THEN m - 1 + 1 ELSE 0
          /\ \A i \in 1..m - 1 + 1 : SubSeq(p, 1, m)[i] = p[1 + i - 1]
      <3>1. 1 \in Nat \ {0} /\ m \in Int
        BY <2>1
      <3> QED BY <1>3, <2>1, <2>2, <3>1, SubSeqProperties
    <2>5. \A i \in 1..m : i \in 1..m - 1 + 1 /\ 1 + i - 1 = i
      BY <2>1
    <2> QED BY <2>1, <2>3, <2>4, <2>5
  <1>6. CASE Len(p) < max
    BY <1>3, <1>4, <1>5, <1>6
  <1>7. CASE ~(Len(p) < max)
    BY <1>5, <1>7
  <1> QED BY <1>5, <1>6, <1>7

-----------------------------------------------------------------------------
(***************************************************************************)
(* The invariant of MemoryApi.                                             *)
(***************************************************************************)
\* The call is a writeMemory.
IsWrite(c) == Req(c).op = "write"
\* Where Zone 1 holds what the call writes.
KeyOf(c) == <<Req(c).tenant, Req(c).session, ItemOf(c)>>
\* Some call wrote the item, with a text of this length.
Written(e) ==
  \E d \in Calls : IsWrite(d) /\ ItemOf(d) = e.item /\ Tokens[d] = e.tokens

\* A session that holds an entry was opened, and a call wrote the entry.
HoldsWrites ==
  \A k \in SessionKeys : \A e \in ToSet(zone1[k]) : k \in opened /\ Written(e)
\* The object under the name of a call is that call's own.
RegistersItself ==
  \A k \in DOMAIN registry : k[2] \in Calls => registry[k] = k[2]
\* An item whose deletion was answered has an object, which is marked if the
\* item is named after its write.
StaysMarked ==
  \A g \in gone : /\ g.key \in DOMAIN registry
                  /\ g.key[2] \in Calls => g.key[2] \in dead
\* An object of the item k that nothing will put into the registry again.
Retired(o, k) ==
  /\ At(o, "accepted") /\ registry[k] # o
  /\ \A c \in Calls : At(c, "put_back") /\ <<Req(c).tenant, Req(c).item>> = k
                       => o \notin call[c].obj
\* What a deletion has buried is marked or retired.
Buried == \A g \in gone : \A o \in g.buried :
            o \in Calls /\ (o \in dead \/ Retired(o, g.key))

\* What an assembly has found is the tenant's, fresh and written, and what it
\* should find is found or still ahead.
Reads(c) ==
  /\ Req(c) \in Assemblies
  /\ IsFiniteSet(call[c].found)
  /\ \A f \in call[c].found : /\ f.from[1] = Req(c).tenant
                              /\ f.read - f.entry.last < TTL
                              /\ Written(f.entry)
  /\ \A k \in call[c].unread : k[1] = Req(c).tenant
  /\ \A k \in kept[c] :
       \/ <<k[1], k[2]>> \in call[c].unread /\ k \in Held(zone1)
       \/ \E f \in call[c].found : f.entry.item = k[3]

\* ReadYourWrites, for one assembly that has ended.
Chose(c) ==
  \A k \in kept[c] :
    \/ \E i \in ToSet(call[c].result.items) : i.item = k[3] /\ i.zone = "working"
    \/ call[c].result.working = Req(c).max
    \/ \E d \in Calls :
         /\ IsWrite(d) /\ ItemOf(d) = k[3]
         /\ Tokens[d] > Req(c).budget - TokensOf(call[c].result.items)

\* What is known of a call at each point of its handler.
CallInv(c) ==
  /\ At(c, "idle") => Req(c) = NoRequest
  /\ At(c, "mirror") \/ At(c, "register") => Req(c) \in Writes
  /\ At(c, "put_back") =>
       ~IsWrite(c) /\ (Req(c).item \in Calls => call[c].obj \subseteq {Req(c).item})
  /\ (At(c, "register") \/ At(c, "accepted")) /\ IsWrite(c) =>
       KeyOf(c) \in Held(zone1) \cup evicted
  /\ At(c, "working") => Reads(c)
  /\ At(c, "assembled") => Chose(c)

\* The inductive invariant.
IInv == /\ TypeOK
        /\ HoldsWrites
        /\ RegistersItself
        /\ StaysMarked
        /\ \A c \in Calls : CallInv(c)

-----------------------------------------------------------------------------
(***************************************************************************)
(* Steps, seen from what the invariant is about.                           *)
(***************************************************************************)
\* The operation tells the kinds of requests apart.
LEMMA RequestKinds ==
  ASSUME NEW r \in {NoRequest} \cup Writes \cup ItemRequests \cup Assemblies
  PROVE  /\ r.op = "write" => r \in Writes
         /\ r.op \in {"get", "update", "delete"} => r \in ItemRequests
         /\ r.op = "assemble" => r \in Assemblies
  <1>1. NoRequest.op = "none"
    BY DEF NoRequest
  <1>2. r \in Writes => r.op = "write"
    BY DEF Writes
  <1>3. r \in ItemRequests => r.op \in {"get", "update", "delete"}
    BY DEF ItemRequests
  <1>4. r \in Assemblies => r.op = "assemble"
    BY DEF Assemblies
  <1> QED BY <1>1, <1>2, <1>3, <1>4

\* What a write names.
LEMMA WriteNames ==
  ASSUME TypeOK, NEW c \in Calls, IsWrite(c)
  PROVE  /\ Req(c) \in Writes /\ SessionOf(c) \in SessionKeys /\ ItemOf(c) \in Names
         /\ KeyOf(c) \in Tenants \X Sessions \X Names
         /\ ItemOf(c) \in Calls => ItemOf(c) = c
  <1>1. Req(c) \in Writes
    <2>1. Req(c) \in {NoRequest} \cup Writes \cup ItemRequests \cup Assemblies
      BY DEF TypeOK, Records, Req
    <2> QED BY <2>1, RequestKinds DEF IsWrite
  <1>2. Req(c).tenant \in Tenants /\ Req(c).session \in Sessions /\ Req(c).hash \in Hashes
    BY <1>1 DEF Writes
  <1>3. Req(c).hash \notin Calls
    BY <1>2, ApiAssumption
  <1> QED BY <1>1, <1>2, <1>3 DEF SessionOf, SessionKeys, ItemOf, Names, KeyOf

\* Each session of Zone 1 is a queue within the capacity.
LEMMA SessionsAreQueues ==
  ASSUME TypeOK, NEW k \in SessionKeys
  PROVE  clock \in Nat /\ Queue(zone1[k]) /\ Len(zone1[k]) <= Capacity
  <1>1. clock \in Nat
    BY ApiAssumption DEF TypeOK
  <1>2. zone1[k] \in Seq(Entries) /\ Len(zone1[k]) <= Capacity
    BY DEF TypeOK, LeastRecentFirst
  <1>3. Ordered(zone1[k])
    BY DEF TypeOK, LeastRecentFirst, Ordered
  <1> QED BY <1>1, <1>2, <1>3 DEF Queue

\* A call's request does not change once it is served.
RequestsKept == \A d \in Calls : At(d, "idle") \/ call'[d].req = call[d].req

\* Hence what was written stays written.
LEMMA WritesKept ==
  ASSUME IInv, RequestsKept
  PROVE  /\ \A d \in Calls : IsWrite(d) => /\ ~At(d, "idle") /\ IsWrite(d)'
                                           /\ ItemOf(d)' = ItemOf(d)
                                           /\ KeyOf(d)' = KeyOf(d)
         /\ \A e : Written(e) => Written(e)'
  <1>1. ASSUME NEW d \in Calls, IsWrite(d)
        PROVE  ~At(d, "idle") /\ IsWrite(d)' /\ ItemOf(d)' = ItemOf(d) /\ KeyOf(d)' = KeyOf(d)
    <2>1. NoRequest.op # "write"
      BY DEF NoRequest
    <2>2. ~At(d, "idle")
      BY <1>1, <2>1 DEF IInv, CallInv, IsWrite
    <2>3. call'[d].req = call[d].req
      BY <2>2 DEF RequestsKept
    <2> QED BY <1>1, <2>2, <2>3 DEF IsWrite, ItemOf, KeyOf, Req
  <1>2. ASSUME NEW e, Written(e) PROVE Written(e)'
    <2>1. PICK d \in Calls : IsWrite(d) /\ ItemOf(d) = e.item /\ Tokens[d] = e.tokens
      BY <1>2 DEF Written
    <2> QED BY <1>1, <2>1 DEF Written
  <1> QED BY <1>1, <1>2

\* A call that does not move keeps its part of the invariant, if Zone 1 drops
\* nothing unremembered.
Remembers == Held(zone1) \cup evicted \subseteq (Held(zone1) \cup evicted)'
LosesNothing(c) ==
  kept'[c] \subseteq kept[c] /\ kept'[c] \cap Held(zone1) \subseteq Held(zone1)'

LEMMA QuietCall ==
  ASSUME IInv, RequestsKept, Remembers,
         NEW c \in Calls, call'[c] = call[c], LosesNothing(c)
  PROVE  CallInv(c)'
  <1>1. CallInv(c)
    BY DEF IInv
  <1>2. /\ Req(c)' = Req(c) /\ \A pc : At(c, pc)' <=> At(c, pc)
        /\ IsWrite(c)' <=> IsWrite(c)
    BY DEF Req, At, IsWrite
  <1>3. ASSUME (At(c, "register") \/ At(c, "accepted")) /\ IsWrite(c)
        PROVE  KeyOf(c)' \in (Held(zone1) \cup evicted)'
    <2>1. KeyOf(c) \in Held(zone1) \cup evicted
      BY <1>1, <1>3 DEF CallInv
    <2>2. KeyOf(c)' = KeyOf(c)
      BY <1>3, WritesKept
    <2> QED BY <2>1, <2>2 DEF Remembers
  <1>4. ASSUME At(c, "working") PROVE Reads(c)'
    <2>1. Reads(c)
      BY <1>1, <1>4 DEF CallInv
    <2>2. \A f \in call[c].found : Written(f.entry)'
      BY <2>1, WritesKept DEF Reads
    <2>3. \A k \in kept'[c] : k \in Held(zone1) => k \in Held(zone1)'
      BY DEF LosesNothing
    <2>4. \A k \in kept'[c] : k \in kept[c]
      BY DEF LosesNothing
    <2> QED BY <1>2, <2>1, <2>2, <2>3, <2>4 DEF Reads
  <1>5. ASSUME At(c, "assembled") PROVE Chose(c)'
    <2>1. Chose(c)
      BY <1>1, <1>5 DEF CallInv
    <2>2. \A d \in Calls : IsWrite(d) => IsWrite(d)' /\ ItemOf(d)' = ItemOf(d)
      BY WritesKept
    <2>3. \A k \in kept'[c] : k \in kept[c]
      BY DEF LosesNothing
    <2> QED BY <1>2, <2>1, <2>2, <2>3 DEF Chose
  <1> QED BY <1>1, <1>2, <1>3, <1>4, <1>5 DEF CallInv

\* The type invariant, by what a step leaves alone together.
MemoryTyped == /\ LeastRecentFirst
               /\ clock \in 0..MaxClock
               /\ zone1 \in [SessionKeys -> Seq(Entries)]
               /\ opened \subseteq SessionKeys
               /\ kept \in [Calls -> SUBSET (Tenants \X Sessions \X Names)]
               /\ evicted \subseteq Tenants \X Sessions \X Names
ItemsTyped == /\ procedures \subseteq Tenants \X Hashes
              /\ episodes \subseteq Tenants \X Sessions \X Calls
              /\ DOMAIN registry \subseteq Tenants \X Names
              /\ registry \in [DOMAIN registry -> Calls]
              /\ dead \subseteq Calls
              /\ gone \subseteq [key : Tenants \X Names, buried : SUBSET Calls]
CallsTyped == call \in [Calls -> Records]

\* The type invariant is its parts.
LEMMA Parts == TypeOK <=> MemoryTyped /\ ItemsTyped /\ CallsTyped
  BY DEF TypeOK, MemoryTyped, ItemsTyped, CallsTyped

\* The parts make the invariant.
LEMMA Combine ==
  ASSUME MemoryTyped', ItemsTyped', CallsTyped', HoldsWrites', RegistersItself',
         StaysMarked', \A c \in Calls : CallInv(c)'
  PROVE  IInv'
  <1>1. TypeOK'
    BY DEF TypeOK, MemoryTyped, ItemsTyped, CallsTyped
  <1> QED BY <1>1 DEF IInv

\* A step that leaves Zone 1 alone.
LEMMA MemoryUnchanged ==
  ASSUME IInv, RequestsKept, UNCHANGED <<clock, zone1, opened, kept, evicted>>
  PROVE  /\ MemoryTyped' /\ HoldsWrites'
         /\ Remembers /\ \A c \in Calls : LosesNothing(c)
  <1>1. MemoryTyped'
    BY Parts DEF IInv, MemoryTyped, LeastRecentFirst, Entries
  <1>2. HoldsWrites'
    <2>1. \A e : Written(e) => Written(e)'
      BY WritesKept
    <2> QED BY <2>1 DEF IInv, HoldsWrites
  <1> QED BY <1>1, <1>2 DEF Remembers, LosesNothing, Held

\* A step that leaves the registry and the other zones alone.
LEMMA ItemsUnchanged ==
  ASSUME IInv, UNCHANGED <<zones, items, gone>>
  PROVE  ItemsTyped' /\ RegistersItself' /\ StaysMarked'
  BY Parts DEF IInv, zones, items, ItemsTyped, RegistersItself, StaysMarked

\* A session's list changes: what it loses is remembered as dropped.
LEMMA SessionChanges ==
  ASSUME IInv, RequestsKept, clock' = clock, opened \subseteq opened',
         opened' \subseteq SessionKeys,
         NEW k \in SessionKeys, NEW q, Queue(q), Len(q) <= Capacity,
         \A e \in ToSet(q) : k \in opened' /\ Written(e)',
         Zone1Becomes(k, q)
  PROVE  /\ MemoryTyped' /\ HoldsWrites' /\ gone' = gone
         /\ Remembers /\ \A c \in Calls : LosesNothing(c)
         /\ \A j \in SessionKeys : zone1'[j] = IF j = k THEN q ELSE zone1[j]
  <1>1. MemoryTyped /\ HoldsWrites
    BY Parts DEF IInv
  <1>2. \A j \in SessionKeys : zone1'[j] = IF j = k THEN q ELSE zone1[j]
    BY <1>1 DEF Zone1Becomes, MemoryTyped
  <1>3. zone1' \in [SessionKeys -> Seq(Entries)]
    BY <1>1 DEF Zone1Becomes, MemoryTyped, Queue
  <1>4. LeastRecentFirst'
    <2> SUFFICES ASSUME NEW j \in SessionKeys
                 PROVE  Len(zone1'[j]) <= Capacity /\ Ordered(zone1'[j])
      BY DEF LeastRecentFirst, Ordered
    <2>1. CASE j = k
      BY <1>2, <2>1 DEF Queue
    <2>2. CASE j # k
      BY <1>1, <1>2, <2>2 DEF MemoryTyped, LeastRecentFirst, Ordered
    <2> QED BY <2>1, <2>2
  <1>5. /\ \A c \in Calls : kept'[c] = kept[c] \ (Held(zone1) \ Held(zone1'))
        /\ kept' = [c \in Calls |-> kept[c] \ (Held(zone1) \ Held(zone1'))]
        /\ evicted' = (evicted \cup (Held(zone1) \ Held(zone1'))) \ Held(zone1')
        /\ gone' = gone
    BY DEF Zone1Becomes
  <1>6. Remembers /\ \A c \in Calls : LosesNothing(c)
    <2>1. Held(zone1)' = Held(zone1')
      BY DEF Held
    <2> QED BY <1>5, <2>1 DEF Remembers, LosesNothing
  <1>7. /\ kept' \in [Calls -> SUBSET (Tenants \X Sessions \X Names)]
        /\ evicted' \subseteq Tenants \X Sessions \X Names
    <2>1. \A c \in Calls : kept[c] \subseteq Tenants \X Sessions \X Names
      BY <1>1 DEF MemoryTyped
    <2>2. Held(zone1) \subseteq Tenants \X Sessions \X Names
      BY DEF Held
    <2> QED BY <1>1, <1>5, <2>1, <2>2 DEF MemoryTyped
  <1>8. MemoryTyped'
    <2>1. zone1' \in [SessionKeys -> Seq(Entries)]'
      BY <1>3 DEF Entries
    <2> QED BY <1>1, <1>4, <1>7, <2>1 DEF MemoryTyped
  <1>9. HoldsWrites'
    <2> SUFFICES ASSUME NEW j \in SessionKeys, NEW e \in ToSet(zone1'[j])
                 PROVE  j \in opened' /\ Written(e)'
      BY DEF HoldsWrites
    <2>1. CASE j = k
      BY <1>2, <2>1
    <2>2. CASE j # k
      <3>1. e \in ToSet(zone1[j])
        BY <1>2, <2>2
      <3>2. j \in opened /\ Written(e)
        BY <1>1, <3>1 DEF HoldsWrites
      <3> QED BY <3>2, WritesKept
    <2> QED BY <2>1, <2>2
  <1> QED BY <1>2, <1>5, <1>6, <1>8, <1>9

\* One call moves.
LEMMA CallMoves ==
  ASSUME IInv, clock' = clock, opened \subseteq opened',
         NEW c \in Calls, NEW rec, rec \in Records',
         At(c, "idle") \/ rec.req = Req(c),
         call' = [call EXCEPT ![c] = rec]
  PROVE  /\ CallsTyped' /\ RequestsKept /\ call'[c] = rec
         /\ \A d \in Calls \ {c} : call'[d] = call[d]
  <1>1. CallsTyped
    BY Parts DEF IInv
  <1>2. call'[c] = rec /\ \A d \in Calls \ {c} : call'[d] = call[d]
    BY <1>1 DEF CallsTyped
  <1>3. Records \subseteq Records'
    <2>1. Entries' = Entries
      BY DEF Entries
    <2> QED BY <2>1 DEF Records
  <1>4. CallsTyped'
    BY <1>1, <1>3 DEF CallsTyped
  <1>5. RequestsKept
    BY <1>2 DEF RequestsKept, Req
  <1> QED BY <1>2, <1>4, <1>5

\* The record of a call that begins is well formed.
LEMMA IdleTyped ==
  ASSUME NEW c \in Calls, NEW r \in Requests[c], NEW pc \in Pcs
  PROVE  /\ r \in Writes \cup ItemRequests \cup Assemblies
         /\ [Idle EXCEPT !.pc = pc, !.req = r] \in Records'
  <1>1. r \in Writes \cup ItemRequests \cup Assemblies
    BY ApiAssumption
  <1>2. <<>> \in Results
    BY DEF Results
  <1> QED BY <1>1, <1>2 DEF Idle, Records

\* A request begins, and leaves Zone 1 alone.
LEMMA Begins ==
  ASSUME IInv, NEW c \in Calls, NEW r \in Requests[c],
         NEW pc \in {"mirror", "refused", "found", "not_found", "accepted"},
         pc = "mirror" => r.op = "write", pc = "accepted" => r.op # "write",
         Begin(c, r, pc), UNCHANGED <<clock, zone1, opened, kept, evicted>>
  PROVE  MemoryTyped' /\ CallsTyped' /\ HoldsWrites' /\ \A d \in Calls : CallInv(d)'
  <1> DEFINE rec == [Idle EXCEPT !.pc = pc, !.req = r]
  <1>1. rec \in Records' /\ r \in Writes \cup ItemRequests \cup Assemblies
    BY IdleTyped DEF Pcs
  <1>2. rec.req = r /\ rec.pc = pc /\ At(c, "idle") /\ call' = [call EXCEPT ![c] = rec]
    BY DEF Begin, Idle
  <1> HIDE DEF rec
  <1>3. /\ CallsTyped' /\ RequestsKept /\ call'[c] = rec
        /\ \A d \in Calls \ {c} : call'[d] = call[d]
    BY <1>1, <1>2, CallMoves
  <1>4. /\ MemoryTyped' /\ HoldsWrites'
        /\ Remembers /\ \A d \in Calls : LosesNothing(d)
    BY <1>3, MemoryUnchanged
  <1>5. CallInv(c)'
    <2>1. Req(c)' = r /\ \A x : At(c, x)' <=> x = pc
      BY <1>2, <1>3 DEF Req, At
    <2>2. pc = "mirror" => r \in Writes
      BY <1>1, RequestKinds
    <2>3. pc = "accepted" => ~IsWrite(c)'
      BY <2>1 DEF IsWrite
    <2> QED BY <2>1, <2>2, <2>3 DEF CallInv
  <1>6. \A d \in Calls \ {c} : CallInv(d)'
    BY <1>3, <1>4, QuietCall
  <1> QED BY <1>3, <1>4, <1>5, <1>6

-----------------------------------------------------------------------------
(***************************************************************************)
(* The steps.                                                              *)
(***************************************************************************)
\* The invariant holds in the initial state.
LEMMA InitIInv == Init => IInv
  <1> SUFFICES ASSUME Init PROVE IInv
    OBVIOUS
  <1>1. 0 \in 0..MaxClock
    BY ApiAssumption
  <1>2. MemoryTyped
    <2>1. \A k \in SessionKeys : zone1[k] = <<>> /\ Len(zone1[k]) = 0 /\ DOMAIN zone1[k] = {}
      BY EmptySeq DEF Init
    <2>2. LeastRecentFirst
      BY <2>1, ApiAssumption DEF LeastRecentFirst
    <2>3. zone1 \in [SessionKeys -> Seq(Entries)]
      BY <2>1 DEF Init
    <2> QED BY <1>1, <2>2, <2>3 DEF Init, MemoryTyped
  <1>3. ItemsTyped /\ RegistersItself /\ StaysMarked
    BY DEF Init, ItemsTyped, RegistersItself, StaysMarked
  <1>4. \A c \in Calls : call[c] = Idle
    BY DEF Init
  <1>5. CallsTyped
    <2>1. <<>> \in Results /\ "idle" \in Pcs
      BY DEF Results, Pcs
    <2>2. Idle \in Records
      BY <2>1 DEF Idle, Records
    <2> QED BY <2>2 DEF Init, CallsTyped
  <1>6. HoldsWrites
    BY DEF Init, HoldsWrites, ToSet
  <1>7. \A c \in Calls : CallInv(c)
    BY <1>4 DEF Idle, CallInv, At, Req
  <1> QED BY <1>2, <1>3, <1>5, <1>6, <1>7, Parts DEF IInv

\* writeMemory into the procedural and the episodic zone, up to the mirror.
LEMMA WriteZoneStep ==
  ASSUME IInv, NEW c \in Calls, NEW r \in Requests[c],
         WriteProcedural(c, r) \/ AppendEpisode(c, r) \/ EpisodeFails(c, r)
  PROVE  IInv'
  <1>1. r \in Writes
    <2>1. r.op = "write" /\ r \in Writes \cup ItemRequests \cup Assemblies
      BY ApiAssumption DEF WriteProcedural, AppendEpisode, EpisodeFails
    <2> QED BY <2>1, RequestKinds
  <1>2. r.tenant \in Tenants /\ r.session \in Sessions /\ r.hash \in Hashes
    BY <1>1 DEF Writes
  <1>3. PICK pc \in {"mirror", "refused"} : Begin(c, r, pc)
    BY DEF WriteProcedural, AppendEpisode, EpisodeFails
  <1>4. r.op = "write" /\ UNCHANGED <<clock, zone1, opened, items, history>>
    BY DEF WriteProcedural, AppendEpisode, EpisodeFails
  <1>5. MemoryTyped' /\ CallsTyped' /\ HoldsWrites' /\ \A d \in Calls : CallInv(d)'
    BY <1>3, <1>4, Begins DEF history
  <1>6. /\ procedures' \subseteq procedures \cup {<<r.tenant, r.hash>>}
        /\ episodes' \subseteq episodes \cup {<<r.tenant, r.session, c>>}
    BY DEF WriteProcedural, AppendEpisode, EpisodeFails, zones
  <1>7. ItemsTyped' /\ RegistersItself' /\ StaysMarked'
    BY <1>2, <1>4, <1>6, Parts
       DEF IInv, ItemsTyped, items, history, RegistersItself, StaysMarked
  <1> QED BY <1>5, <1>7, Combine

\* The reads of one item, and the requests for one that is not there.
LEMMA ReadStep ==
  ASSUME IInv, NEW c \in Calls, NEW r \in Requests[c],
         Read(c, r) \/ NotFound(c, r)
  PROVE  IInv'
  <1>1. PICK pc \in {"found", "not_found"} : Begin(c, r, pc)
    BY DEF Read, NotFound
  <1>2. UNCHANGED <<clock, zone1, opened, zones, items, history>>
    BY DEF Read, NotFound
  <1>3. MemoryTyped' /\ CallsTyped' /\ HoldsWrites' /\ \A d \in Calls : CallInv(d)'
    BY <1>1, <1>2, Begins DEF history
  <1>4. ItemsTyped' /\ RegistersItself' /\ StaysMarked'
    BY <1>2, ItemsUnchanged DEF history
  <1> QED BY <1>3, <1>4, Combine

\* The object that a deletion marks is the one under the item's own name.
LEMMA DeleteStep ==
  ASSUME IInv, NEW c \in Calls, NEW r \in Requests[c], Delete(c, r)
  PROVE  IInv'
  <1> DEFINE k == <<r.tenant, r.item>>
             under == (Objects(k) \ InHand(k)) \cup {registry[k]}
  <1>1. /\ Begin(c, r, "accepted") /\ r.op = "delete"
        /\ UNCHANGED <<clock, zone1, opened, zones, registry, kept, evicted>>
        /\ Visible(k) /\ dead' = dead \cup {registry[k]}
        /\ gone' = gone \cup {[key |-> k, buried |-> under]}
    BY DEF Delete
  <1>2. MemoryTyped' /\ CallsTyped' /\ HoldsWrites' /\ \A d \in Calls : CallInv(d)'
    BY <1>1, Begins
  <1>3. ItemsTyped /\ RegistersItself /\ StaysMarked
    BY Parts DEF IInv
  <1>4. k \in DOMAIN registry /\ k \in Tenants \X Names /\ registry[k] \in Calls
    BY <1>1, <1>3 DEF Visible, ItemsTyped
  <1>5. ItemsTyped'
    <2>1. under \in SUBSET Calls
      BY <1>4 DEF Objects
    <2> HIDE DEF k, under
    <2>2. [key |-> k, buried |-> under] \in [key : Tenants \X Names, buried : SUBSET Calls]
      BY <1>4, <2>1
    <2> QED BY <1>1, <1>3, <1>4, <2>2 DEF ItemsTyped, zones
  <1>6. RegistersItself'
    BY <1>1, <1>3 DEF RegistersItself
  <1>7. StaysMarked'
    <2> HIDE DEF k, under
    <2>1. k[2] \in Calls => registry[k] = k[2]
      BY <1>3, <1>4 DEF RegistersItself
    <2> QED BY <1>1, <1>3, <1>4, <2>1 DEF StaysMarked
  <1> QED BY <1>2, <1>5, <1>6, <1>7, Combine

\* updateItem holds the object under the item's name.
LEMMA LookUpStep ==
  ASSUME IInv, NEW c \in Calls, NEW r \in Requests[c], LookUp(c, r)
  PROVE  IInv'
  <1> DEFINE k == <<r.tenant, r.item>>
             rec == [Idle EXCEPT !.pc = "put_back", !.req = r, !.obj = {registry[k]}]
  <1>1. /\ At(c, "idle") /\ Visible(k) /\ call' = [call EXCEPT ![c] = rec]
        /\ UNCHANGED <<clock, zone1, opened, zones, items, history>>
    BY DEF LookUp
  <1>2. ItemsTyped /\ RegistersItself
    BY Parts DEF IInv
  <1>3. k \in DOMAIN registry /\ registry[k] \in Calls
    BY <1>1, <1>2 DEF Visible, ItemsTyped
  <1>4. r.item \in Calls => registry[k] = r.item
    BY <1>2, <1>3 DEF RegistersItself
  <1>5. rec \in Records'
    <2>1. r \in Writes \cup ItemRequests \cup Assemblies /\ <<>> \in Results
      BY ApiAssumption DEF Results
    <2> QED BY <1>3, <2>1 DEF Idle, Records, Pcs
  <1>6. rec.req = r /\ rec.pc = "put_back" /\ rec.obj = {registry[k]}
    BY DEF Idle
  <1> HIDE DEF rec
  <1>7. /\ CallsTyped' /\ RequestsKept /\ call'[c] = rec
        /\ \A d \in Calls \ {c} : call'[d] = call[d]
    BY <1>1, <1>5, CallMoves
  <1>8. /\ MemoryTyped' /\ HoldsWrites'
        /\ Remembers /\ \A d \in Calls : LosesNothing(d)
    BY <1>1, <1>7, MemoryUnchanged DEF history
  <1>9. CallInv(c)'
    <2>1. r.op = "update"
      BY DEF LookUp
    <2> QED BY <1>4, <1>6, <1>7, <2>1 DEF CallInv, At, Req, IsWrite
  <1>10. \A d \in Calls \ {c} : CallInv(d)'
    BY <1>7, <1>8, QuietCall
  <1>11. ItemsTyped' /\ RegistersItself' /\ StaysMarked'
    BY <1>1, ItemsUnchanged DEF history
  <1> QED BY <1>7, <1>8, <1>9, <1>10, <1>11, Combine

\* A call that goes on, with Zone 1 as it is.
LEMMA Goes ==
  ASSUME IInv, NEW c \in Calls, NEW pc \in {"register", "accepted"}, Goto(c, pc),
         clock' = clock, opened \subseteq opened'
  PROVE  /\ CallsTyped' /\ RequestsKept /\ call'[c] = [call[c] EXCEPT !.pc = pc]
         /\ \A d \in Calls \ {c} : call'[d] = call[d]
         /\ Req(c)' = Req(c) /\ \A x : At(c, x)' <=> x = pc
  <1> DEFINE rec == [call[c] EXCEPT !.pc = pc]
  <1>1. call' = [call EXCEPT ![c] = rec]
    BY DEF Goto
  <1>2. call[c] \in Records /\ Entries' = Entries
    BY Parts DEF IInv, CallsTyped, Entries
  <1>3. rec \in Records' /\ rec.req = Req(c) /\ rec.pc = pc
    <2>1. rec \in Records
      BY <1>2 DEF Records, Pcs
    <2>2. Records \subseteq Records'
      BY <1>2 DEF Records
    <2>3. rec.req = Req(c) /\ rec.pc = pc
      BY <1>2 DEF Records, Req
    <2> QED BY <2>1, <2>2, <2>3
  <1> HIDE DEF rec
  <1>4. /\ CallsTyped' /\ RequestsKept /\ call'[c] = rec
        /\ \A d \in Calls \ {c} : call'[d] = call[d]
    BY <1>1, <1>3, CallMoves
  <1> QED BY <1>3, <1>4 DEF rec, Req, At

\* ItemRegistry.put registers the write under the name it has given the item.
LEMMA RegisterStep ==
  ASSUME IInv, NEW c \in Calls, Register(c)
  PROVE  IInv'
  <1> DEFINE k == <<Req(c).tenant, ItemOf(c)>>
  <1>1. /\ At(c, "register") /\ Goto(c, "accepted")
        /\ registry' = [j \in DOMAIN registry \cup {k} |-> IF j = k THEN c ELSE registry[j]]
        /\ UNCHANGED <<clock, zone1, opened, zones, dead, history>>
    BY DEF Register
  <1>2. /\ CallsTyped' /\ RequestsKept /\ Req(c)' = Req(c)
        /\ \A d \in Calls \ {c} : call'[d] = call[d]
        /\ \A x : At(c, x)' <=> x = "accepted"
    BY <1>1, Goes
  <1>3. /\ MemoryTyped' /\ HoldsWrites'
        /\ Remembers /\ \A d \in Calls : LosesNothing(d)
    BY <1>1, <1>2, MemoryUnchanged DEF history
  <1>4. Req(c) \in Writes /\ IsWrite(c)
    <2>1. Req(c) \in Writes
      BY <1>1 DEF IInv, CallInv
    <2> QED BY <2>1 DEF Writes, IsWrite
  <1>5. k \in Tenants \X Names /\ (k[2] \in Calls => k[2] = c)
    <2>1. Req(c).tenant \in Tenants
      BY <1>4 DEF Writes
    <2> QED BY <1>4, <2>1, WriteNames DEF IInv
  <1>6. CallInv(c)'
    <2>1. KeyOf(c) \in Held(zone1) \cup evicted
      BY <1>1, <1>4 DEF IInv, CallInv
    <2>2. KeyOf(c)' = KeyOf(c)
      BY <1>2, <1>4, WritesKept
    <2>3. KeyOf(c)' \in (Held(zone1) \cup evicted)'
      BY <1>3, <2>1, <2>2 DEF Remembers
    <2> QED BY <1>2, <2>3 DEF CallInv
  <1>7. \A d \in Calls \ {c} : CallInv(d)'
    BY <1>2, <1>3, QuietCall
  <1>8. ItemsTyped /\ RegistersItself /\ StaysMarked
    BY Parts DEF IInv
  <1> HIDE DEF k
  <1>9. ItemsTyped'
    BY <1>1, <1>5, <1>8 DEF ItemsTyped, zones, history
  <1>10. RegistersItself' /\ StaysMarked'
    BY <1>1, <1>5, <1>8 DEF RegistersItself, StaysMarked, history
  <1> QED BY <1>2, <1>3, <1>6, <1>7, <1>9, <1>10, Combine

\* What updateItem puts back is the object itself, deleted or not.
LEMMA PutBackStep ==
  ASSUME IInv, NEW c \in Calls, PutBack(c)
  PROVE  IInv'
  <1> DEFINE k == <<Req(c).tenant, Req(c).item>>
  <1>1. PICK o \in call[c].obj : registry' = [registry EXCEPT ![k] = o]
    BY DEF PutBack
  <1>2. /\ At(c, "put_back") /\ Goto(c, "accepted")
        /\ UNCHANGED <<clock, zone1, opened, zones, dead, history>>
    BY DEF PutBack
  <1>3. /\ CallsTyped' /\ RequestsKept /\ Req(c)' = Req(c)
        /\ \A d \in Calls \ {c} : call'[d] = call[d]
        /\ \A x : At(c, x)' <=> x = "accepted"
    BY <1>2, Goes
  <1>4. /\ MemoryTyped' /\ HoldsWrites'
        /\ Remembers /\ \A d \in Calls : LosesNothing(d)
    BY <1>2, <1>3, MemoryUnchanged DEF history
  <1>5. CallInv(c)'
    <2>1. ~IsWrite(c)
      BY <1>2 DEF IInv, CallInv
    <2> QED BY <1>3, <2>1 DEF CallInv, IsWrite
  <1>6. \A d \in Calls \ {c} : CallInv(d)'
    BY <1>3, <1>4, QuietCall
  <1>7. ItemsTyped /\ RegistersItself /\ StaysMarked /\ CallsTyped
    BY Parts DEF IInv
  <1>8. o \in Calls /\ (k[2] \in Calls => o = k[2])
    <2>1. call[c].obj \subseteq Calls
      BY <1>7 DEF CallsTyped, Records
    <2>2. Req(c).item \in Calls => call[c].obj \subseteq {Req(c).item}
      BY <1>2 DEF IInv, CallInv
    <2> QED BY <1>1, <2>1, <2>2
  <1> HIDE DEF k
  <1>9. ItemsTyped'
    BY <1>1, <1>2, <1>7, <1>8 DEF ItemsTyped, zones, history
  <1>10. RegistersItself' /\ StaysMarked'
    BY <1>1, <1>2, <1>7, <1>8 DEF ItemsTyped, RegistersItself, StaysMarked, history
  <1> QED BY <1>3, <1>4, <1>5, <1>6, <1>9, <1>10, Combine

\* What has been read, and what is in the lists, stays of the past.
LEMMA TickStep ==
  ASSUME IInv, Tick
  PROVE  IInv'
  <1>1. /\ clock' = clock + 1 /\ clock' \in 0..MaxClock
        /\ UNCHANGED <<zone1, opened, zones, items, call, history>>
    BY ApiAssumption DEF Tick, IInv, TypeOK
  <1>2. MemoryTyped /\ ItemsTyped /\ CallsTyped /\ clock \in Nat
    BY Parts, ApiAssumption DEF IInv, MemoryTyped
  <1>3. Entries \subseteq Entries' /\ 0..clock \subseteq 0..clock'
    BY <1>1, <1>2 DEF Entries
  <1>4. MemoryTyped'
    <2>1. \A k \in SessionKeys : zone1[k] \in Seq(Entries')
      BY <1>2, <1>3, SeqMonotonic DEF MemoryTyped
    <2>2. zone1' \in [SessionKeys -> Seq(Entries)]'
      BY <1>1, <1>2, <2>1 DEF MemoryTyped
    <2> QED BY <1>1, <1>2, <2>2 DEF MemoryTyped, LeastRecentFirst, history
  <1>5. CallsTyped'
    <2>1. Records \subseteq Records'
      BY <1>1, <1>3 DEF Records
    <2> QED BY <1>1, <1>2, <2>1 DEF CallsTyped
  <1>6. RequestsKept
    BY <1>1 DEF RequestsKept
  <1>7. HoldsWrites'
    <2>1. \A e : Written(e) => Written(e)'
      BY <1>6, WritesKept
    <2> QED BY <1>1, <2>1 DEF IInv, HoldsWrites
  <1>8. Remembers /\ \A c \in Calls : LosesNothing(c) /\ call'[c] = call[c]
    BY <1>1 DEF history, Remembers, LosesNothing, Held
  <1>9. \A c \in Calls : CallInv(c)'
    BY <1>6, <1>8, QuietCall
  <1>10. ItemsTyped' /\ RegistersItself' /\ StaysMarked'
    BY <1>1, ItemsUnchanged DEF history
  <1> QED BY <1>4, <1>5, <1>7, <1>9, <1>10, Combine

\* A list that expires, or in which an entry becomes the youngest.
LEMMA TouchStep ==
  ASSUME IInv, NEW k \in SessionKeys, NEW q, Queue(q), Len(q) <= Capacity,
         \A e \in ToSet(q) : k \in opened /\ Written(e), Zone1Becomes(k, q),
         UNCHANGED <<clock, opened, zones, items, call>>
  PROVE  IInv'
  <1>1. RequestsKept
    BY DEF RequestsKept
  <1>2. \A e \in ToSet(q) : k \in opened' /\ Written(e)'
    BY <1>1, WritesKept
  <1>3. opened \subseteq opened' /\ opened' \subseteq SessionKeys
    BY Parts DEF IInv, MemoryTyped
  <1>4. /\ MemoryTyped' /\ HoldsWrites' /\ gone' = gone
        /\ Remembers /\ \A c \in Calls : LosesNothing(c)
    BY <1>1, <1>2, <1>3, SessionChanges
  <1>5. CallsTyped'
    BY Parts DEF IInv, CallsTyped, Records, Entries
  <1>6. \A c \in Calls : CallInv(c)'
    BY <1>1, <1>4, QuietCall
  <1>7. ItemsTyped' /\ RegistersItself' /\ StaysMarked'
    BY <1>4, ItemsUnchanged
  <1> QED BY <1>4, <1>5, <1>6, <1>7, Combine

\* evict_expired.
LEMMA EvictExpiredStep ==
  ASSUME IInv, NEW k \in SessionKeys, EvictExpired(k)
  PROVE  IInv'
  <1> DEFINE q == Live(zone1[k])
  <1>1. clock \in Nat /\ Queue(zone1[k]) /\ Len(zone1[k]) <= Capacity
    BY SessionsAreQueues DEF IInv
  <1>2. /\ Queue(q) /\ Len(q) <= Len(zone1[k]) /\ ToSet(q) \subseteq ToSet(zone1[k])
    BY <1>1, LiveIsFresh
  <1>3. Len(q) <= Capacity
    <2>1. Len(q) \in Nat /\ Len(zone1[k]) \in Nat /\ Capacity \in Nat
      BY <1>1, <1>2, QueueFacts, ApiAssumption
    <2> QED BY <1>1, <1>2, <2>1
  <1>4. \A e \in ToSet(q) : k \in opened /\ Written(e)
    BY <1>2 DEF IInv, HoldsWrites
  <1>5. Zone1Becomes(k, q) /\ UNCHANGED <<clock, opened, zones, items, call>>
    BY DEF EvictExpired
  <1> HIDE DEF q
  <1> QED BY <1>2, <1>3, <1>4, <1>5, TouchStep

\* get: the entry becomes the youngest.
LEMMA GetStep ==
  ASSUME IInv, NEW k \in SessionKeys, NEW n \in Names, Get(k, n)
  PROVE  IInv'
  <1>1. PICK e \in ToSet(Live(zone1[k])) :
          e.item = n /\ Zone1Becomes(k, Put(zone1[k], n, e.tokens))
    BY DEF Get
  <1> DEFINE q == Put(zone1[k], n, e.tokens)
  <1>2. clock \in Nat /\ Queue(zone1[k]) /\ Len(zone1[k]) <= Capacity
    BY SessionsAreQueues DEF IInv
  <1>3. e \in ToSet(zone1[k]) /\ k \in opened /\ Written(e)
    BY <1>1, <1>2, LiveIsFresh DEF IInv, HoldsWrites
  <1>4. e.tokens \in Nat
    <2>1. e \in Entries
      BY <1>2, <1>3, MembersAreFinite DEF Queue
    <2> QED BY <2>1 DEF Entries
  <1>5. /\ Queue(q) /\ Len(q) <= Capacity
        /\ ToSet(q) \subseteq ToSet(zone1[k]) \cup {Entry(n, e.tokens)}
    BY <1>2, <1>4, PutItem
  <1>6. Written(Entry(n, e.tokens))
    BY <1>1, <1>3 DEF Written, Entry
  <1>7. \A x \in ToSet(q) : k \in opened /\ Written(x)
    BY <1>3, <1>5, <1>6 DEF IInv, HoldsWrites
  <1>8. Zone1Becomes(k, q) /\ UNCHANGED <<clock, opened, zones, items, call>>
    BY <1>1 DEF Get
  <1> HIDE DEF q
  <1> QED BY <1>5, <1>7, <1>8, TouchStep

\* What a write puts into Zone 1 is held.
LEMMA PutInHolds ==
  ASSUME IInv, RequestsKept, clock' = clock,
         NEW k \in SessionKeys, NEW n \in Names, NEW tokens \in Nat,
         Written(Entry(n, tokens))', PutIn(k, n, tokens)
  PROVE  /\ MemoryTyped' /\ HoldsWrites' /\ gone' = gone
         /\ Remembers /\ \A c \in Calls : LosesNothing(c)
         /\ <<k[1], k[2], n>> \in Held(zone1)'
  <1> DEFINE q == Put(zone1[k], n, tokens)
             e == Entry(n, tokens)
  <1>1. /\ clock \in Nat /\ Queue(zone1[k]) /\ Len(zone1[k]) <= Capacity
        /\ opened \subseteq SessionKeys
    BY SessionsAreQueues, Parts DEF IInv, MemoryTyped
  <1>2. /\ Queue(q) /\ Len(q) <= Capacity
        /\ e \in ToSet(q) /\ ToSet(q) \subseteq ToSet(zone1[k]) \cup {e}
    BY <1>1, PutItem
  <1>3. opened' = opened \cup {k} /\ Zone1Becomes(k, q)
    BY DEF PutIn
  <1>4. e' = e /\ Written(e)' /\ e.item = n
    BY DEF Entry
  <1> HIDE DEF e, q
  <1>5. \A x \in ToSet(q) : k \in opened' /\ Written(x)'
    <2>1. \A x \in ToSet(zone1[k]) : Written(x)'
      BY WritesKept DEF IInv, HoldsWrites
    <2>2. \A x : x = e => Written(x)'
      BY <1>4 DEF Written
    <2> QED BY <1>2, <1>3, <2>1, <2>2
  <1>6. /\ MemoryTyped' /\ HoldsWrites' /\ gone' = gone
        /\ Remembers /\ \A c \in Calls : LosesNothing(c)
        /\ zone1'[k] = q
    BY <1>1, <1>2, <1>3, <1>5, SessionChanges
  <1>7. <<k[1], k[2], n>> \in Held(zone1)'
    <2>1. k[1] \in Tenants /\ k[2] \in Sessions /\ k = <<k[1], k[2]>>
      BY DEF SessionKeys
    <2>2. <<k[1], k[2], n>> \in Held(zone1') <=>
            \E x \in ToSet(zone1'[<<k[1], k[2]>>]) : x.item = n
      BY <2>1 DEF Held
    <2> QED BY <1>2, <1>4, <1>6, <2>1, <2>2 DEF Held
  <1> QED BY <1>6, <1>7

\* A write into the working memory.
LEMMA WriteWorkingStep ==
  ASSUME IInv, NEW c \in Calls, NEW r \in Requests[c], WriteWorking(c, r)
  PROVE  IInv'
  <1> DEFINE rec == [Idle EXCEPT !.pc = "register", !.req = r]
             k == <<r.tenant, r.session>>
  <1>1. /\ r.op = "write" /\ r.zone = "working" /\ At(c, "idle")
        /\ call' = [call EXCEPT ![c] = rec] /\ PutIn(k, c, Tokens[c])
        /\ UNCHANGED <<clock, zones, items>>
    BY DEF WriteWorking, Begin
  <1>2. rec \in Records' /\ r \in Writes
    <2>1. rec \in Records' /\ r \in Writes \cup ItemRequests \cup Assemblies
      BY IdleTyped DEF Pcs
    <2> QED BY <1>1, <2>1, RequestKinds
  <1>3. k \in SessionKeys /\ c \in Names /\ Tokens[c] \in Nat
    BY <1>2, ApiAssumption DEF Writes, SessionKeys, Names
  <1>4. rec.req = r /\ rec.pc = "register"
    BY DEF Idle
  <1>5. opened \subseteq opened'
    BY <1>1 DEF PutIn
  <1> HIDE DEF rec
  <1>6. /\ CallsTyped' /\ RequestsKept /\ call'[c] = rec
        /\ \A d \in Calls \ {c} : call'[d] = call[d]
    BY <1>1, <1>2, <1>5, CallMoves
  <1>7. Req(c)' = r /\ IsWrite(c)' /\ ItemOf(c)' = c /\ \A x : At(c, x)' <=> x = "register"
    BY <1>1, <1>4, <1>6 DEF Req, At, IsWrite, ItemOf
  <1>8. Written(Entry(c, Tokens[c]))'
    BY <1>7 DEF Written, Entry
  <1>9. /\ MemoryTyped' /\ HoldsWrites' /\ gone' = gone
        /\ Remembers /\ \A d \in Calls : LosesNothing(d)
        /\ <<k[1], k[2], c>> \in Held(zone1)'
    BY <1>1, <1>3, <1>6, <1>8, PutInHolds
  <1>10. CallInv(c)'
    <2>1. KeyOf(c)' = <<k[1], k[2], c>>
      BY <1>7 DEF KeyOf
    <2> QED BY <1>2, <1>7, <1>9, <2>1 DEF CallInv
  <1>11. \A d \in Calls \ {c} : CallInv(d)'
    BY <1>6, <1>9, QuietCall
  <1>12. ItemsTyped' /\ RegistersItself' /\ StaysMarked'
    BY <1>1, <1>9, ItemsUnchanged
  <1> QED BY <1>6, <1>9, <1>10, <1>11, <1>12, Combine

\* The mirror of a write elsewhere holds it under the name of its item.
LEMMA MirrorStep ==
  ASSUME IInv, NEW c \in Calls, Mirror(c)
  PROVE  IInv'
  <1>1. /\ At(c, "mirror") /\ Goto(c, "register")
        /\ PutIn(SessionOf(c), ItemOf(c), Tokens[c])
        /\ UNCHANGED <<clock, zones, items>> /\ opened \subseteq opened'
    BY DEF Mirror, PutIn
  <1>2. Req(c) \in Writes /\ IsWrite(c)
    <2>1. Req(c) \in Writes
      BY <1>1 DEF IInv, CallInv
    <2> QED BY <2>1 DEF Writes, IsWrite
  <1>3. PICK k \in SessionKeys, n \in Names : k = SessionOf(c) /\ n = ItemOf(c)
    BY <1>2, WriteNames DEF IInv
  <1>4. /\ CallsTyped' /\ RequestsKept /\ Req(c)' = Req(c)
        /\ \A d \in Calls \ {c} : call'[d] = call[d]
        /\ \A x : At(c, x)' <=> x = "register"
    BY <1>1, Goes
  <1>5. IsWrite(c)' /\ ItemOf(c)' = n /\ KeyOf(c)' = KeyOf(c)
    BY <1>2, <1>3, <1>4, WritesKept
  <1>6. KeyOf(c) = <<k[1], k[2], n>>
    BY <1>3 DEF KeyOf, SessionOf
  <1>7. Written(Entry(n, Tokens[c]))'
    BY <1>5 DEF Written, Entry
  <1>8. /\ MemoryTyped' /\ HoldsWrites' /\ gone' = gone
        /\ Remembers /\ \A d \in Calls : LosesNothing(d)
        /\ <<k[1], k[2], n>> \in Held(zone1)'
    <2>1. Tokens[c] \in Nat /\ PutIn(k, n, Tokens[c]) /\ clock' = clock
      BY <1>1, <1>3, ApiAssumption
    <2> QED BY <1>4, <1>7, <2>1, PutInHolds
  <1>9. CallInv(c)'
    BY <1>2, <1>4, <1>5, <1>6, <1>8 DEF CallInv
  <1>10. \A d \in Calls \ {c} : CallInv(d)'
    BY <1>4, <1>8, QuietCall
  <1>11. ItemsTyped' /\ RegistersItself' /\ StaysMarked'
    BY <1>1, <1>8, ItemsUnchanged
  <1> QED BY <1>4, <1>8, <1>9, <1>10, <1>11, Combine

\* What was accepted of a tenant, and not dropped, is in the sessions the
\* assembly is about to read.
LEMMA AssembleStep ==
  ASSUME IInv, NEW c \in Calls, NEW r \in Requests[c], Assemble(c, r)
  PROVE  IInv'
  <1> DEFINE rec == [Idle EXCEPT !.pc = "working", !.req = r, !.unread = Unread(r)]
             new == IF "working" \in r.zones THEN Remembered(r.tenant) ELSE {}
  <1>1. /\ r.op = "assemble" /\ At(c, "idle") /\ call' = [call EXCEPT ![c] = rec]
        /\ kept' = [kept EXCEPT ![c] = new]
        /\ UNCHANGED <<clock, zone1, opened, zones, items, evicted, gone>>
    BY DEF Assemble
  <1>2. MemoryTyped /\ HoldsWrites /\ \A d \in Calls : CallInv(d)
    BY Parts DEF IInv
  <1>3. rec \in Records' /\ r \in Assemblies
    <2>1. r \in Writes \cup ItemRequests \cup Assemblies /\ <<>> \in Results
      BY ApiAssumption DEF Results
    <2>2. Unread(r) \subseteq opened'
      BY <1>1 DEF Unread
    <2> QED BY <1>1, <2>1, <2>2, RequestKinds DEF Idle, Records, Pcs
  <1>4. /\ rec.req = r /\ rec.pc = "working" /\ rec.unread = Unread(r)
        /\ rec.found = {}
    BY DEF Idle
  <1> HIDE DEF rec
  <1>5. /\ CallsTyped' /\ RequestsKept /\ call'[c] = rec
        /\ \A d \in Calls \ {c} : call'[d] = call[d]
    BY <1>1, <1>3, CallMoves
  <1>6. ASSUME NEW k \in new
        PROVE  /\ k \in Tenants \X Sessions \X Names
               /\ <<k[1], k[2]>> \in Unread(r) /\ k \in Held(zone1)
    <2>1. PICK d \in Calls : /\ At(d, "accepted") /\ IsWrite(d) /\ Req(d).tenant = r.tenant
                             /\ k = KeyOf(d) /\ k \notin evicted
      BY <1>6 DEF Remembered, IsWrite, KeyOf, SessionOf
    <2>2. k \in Tenants \X Sessions \X Names /\ k[1] = r.tenant
      BY <2>1, WriteNames DEF IInv, KeyOf
    <2>3. k \in Held(zone1)
      BY <1>2, <2>1 DEF CallInv
    <2>4. <<k[1], k[2]>> \in opened
      <3>1. <<k[1], k[2]>> \in SessionKeys
        BY <2>2 DEF SessionKeys
      <3>2. \E e \in ToSet(zone1[<<k[1], k[2]>>]) : e.item = k[3]
        BY <2>3 DEF Held
      <3> QED BY <1>2, <3>1, <3>2 DEF HoldsWrites
    <2>5. "working" \in r.zones
      BY <1>6
    <2> QED BY <2>2, <2>3, <2>4, <2>5 DEF Unread
  <1> HIDE DEF new
  <1>7. MemoryTyped'
    <2>1. kept' \in [Calls -> SUBSET (Tenants \X Sessions \X Names)]
      BY <1>1, <1>2, <1>6 DEF MemoryTyped
    <2> QED BY <1>1, <1>2, <2>1 DEF MemoryTyped, LeastRecentFirst, Entries
  <1>8. HoldsWrites'
    <2>1. \A e : Written(e) => Written(e)'
      BY <1>5, WritesKept
    <2> QED BY <1>1, <1>2, <2>1 DEF HoldsWrites
  <1>9. CallInv(c)'
    <2>1. Req(c)' = r /\ \A x : At(c, x)' <=> x = "working"
      BY <1>4, <1>5 DEF Req, At
    <2>2. Reads(c)'
      <3>1. IsFiniteSet({})
        BY FS_EmptySet
      <3>2. kept'[c] = new /\ Held(zone1)' = Held(zone1)
        BY <1>1, <1>2 DEF MemoryTyped, Held
      <3>3. \A k \in Unread(r) : k[1] = r.tenant
        BY DEF Unread
      <3> QED BY <1>3, <1>4, <1>5, <1>6, <2>1, <3>1, <3>2, <3>3 DEF Reads
    <2> QED BY <2>1, <2>2 DEF CallInv
  <1>10. Remembers /\ \A d \in Calls \ {c} : LosesNothing(d)
    BY <1>1, <1>2 DEF Remembers, LosesNothing, Held, MemoryTyped
  <1>11. \A d \in Calls \ {c} : CallInv(d)'
    BY <1>5, <1>10, QuietCall
  <1>12. ItemsTyped' /\ RegistersItself' /\ StaysMarked'
    BY <1>1, ItemsUnchanged
  <1> QED BY <1>5, <1>7, <1>8, <1>9, <1>11, <1>12, Combine

\* What is read of a session is all that is still in it.
LEMMA ReadSessionStep ==
  ASSUME IInv, NEW c \in Calls, NEW k \in SessionKeys, ReadSession(c, k)
  PROVE  IInv'
  <1> DEFINE q == Live(zone1[k])
             read == {[entry |-> e, from |-> k, read |-> clock] : e \in ToSet(q)}
             rec == [call[c] EXCEPT !.unread = @ \ {k}, !.found = @ \cup read]
  <1>1. /\ At(c, "working") /\ k \in call[c].unread /\ Zone1Becomes(k, q)
        /\ call' = [call EXCEPT ![c] = rec]
        /\ UNCHANGED <<clock, opened, zones, items>>
    BY DEF ReadSession
  <1>2. CallsTyped /\ HoldsWrites /\ Reads(c) /\ opened \subseteq SessionKeys
    BY <1>1, Parts DEF IInv, CallInv, MemoryTyped
  <1>3. clock \in Nat /\ Queue(zone1[k]) /\ Len(zone1[k]) <= Capacity
    BY SessionsAreQueues DEF IInv
  <1>4. /\ Queue(q) /\ Len(q) <= Capacity /\ ToSet(q) \subseteq ToSet(zone1[k])
        /\ \A e \in ToSet(q) : clock - e.last < TTL
    <2>1. /\ Queue(q) /\ Len(q) <= Len(zone1[k]) /\ ToSet(q) \subseteq ToSet(zone1[k])
          /\ \A e \in ToSet(q) : clock - e.last < TTL
      BY <1>3, LiveIsFresh
    <2>2. Len(q) \in Nat /\ Len(zone1[k]) \in Nat /\ Capacity \in Nat
      BY <1>3, <2>1, QueueFacts, ApiAssumption
    <2> QED BY <1>3, <2>1, <2>2
  <1>5. IsFiniteSet(ToSet(q)) /\ ToSet(q) \subseteq Entries
    BY <1>4, MembersAreFinite DEF Queue
  <1>6. \A e \in ToSet(q) : k \in opened /\ Written(e)
    BY <1>2, <1>4 DEF HoldsWrites
  <1> HIDE DEF q
  <1>7. IsFiniteSet(read)
    <2> DEFINE f == [e \in ToSet(q) |-> [entry |-> e, from |-> k, read |-> clock]]
    <2>1. f \in Surjection(ToSet(q), read)
      BY DEF Surjection
    <2> HIDE DEF f, read
    <2> QED BY <1>5, <2>1, FS_Surjection
  <1>8. call[c] \in Records
    BY <1>2 DEF CallsTyped
  <1>9. /\ rec.req = Req(c) /\ rec.pc = "working"
        /\ rec.unread = call[c].unread \ {k} /\ rec.found = call[c].found \cup read
    BY <1>1, <1>8 DEF Records, Req, At
  <1>10. rec \in Records'
    <2>1. read \subseteq [entry : Entries, from : SessionKeys, read : 0..clock]
      BY <1>3, <1>5
    <2>2. rec \in Records
      <3> HIDE DEF read
      <3> QED BY <1>8, <2>1 DEF Records
    <2>3. Records' = Records
      BY <1>1 DEF Records, Entries
    <2> QED BY <2>2, <2>3
  <1> HIDE DEF rec
  <1>11. /\ CallsTyped' /\ RequestsKept /\ call'[c] = rec
         /\ \A d \in Calls \ {c} : call'[d] = call[d]
    BY <1>1, <1>9, <1>10, CallMoves
  <1>12. /\ MemoryTyped' /\ HoldsWrites' /\ gone' = gone
         /\ Remembers /\ \A d \in Calls : LosesNothing(d)
         /\ \A j \in SessionKeys : zone1'[j] = IF j = k THEN q ELSE zone1[j]
    <2>1. \A e \in ToSet(q) : k \in opened' /\ Written(e)'
      BY <1>1, <1>6, <1>11, WritesKept
    <2>2. clock' = clock /\ opened \subseteq opened' /\ opened' \subseteq SessionKeys
      BY <1>1, <1>2
    <2> QED BY <1>1, <1>4, <1>11, <2>1, <2>2, SessionChanges
  <1>13. Req(c)' = Req(c) /\ \A x : At(c, x)' <=> x = "working"
    BY <1>9, <1>11 DEF Req, At
  <1>14. ASSUME NEW x \in kept'[c]
         PROVE  \/ <<x[1], x[2]>> \in rec.unread /\ x \in Held(zone1)'
                \/ \E f \in rec.found : f.entry.item = x[3]
    <2>1. x \in kept[c] /\ (x \in Held(zone1) => x \in Held(zone1)')
      BY <1>12 DEF LosesNothing
    <2>2. CASE \E f \in call[c].found : f.entry.item = x[3]
      BY <1>9, <2>2
    <2>3. CASE <<x[1], x[2]>> \in call[c].unread /\ x \in Held(zone1)'
      <3>1. CASE <<x[1], x[2]>> = k
        <4>1. PICK e \in ToSet(q) : e.item = x[3]
          BY <1>12, <2>3, <3>1 DEF Held
        <4>2. [entry |-> e, from |-> k, read |-> clock] \in rec.found
          BY <1>9, <4>1
        <4> QED BY <4>1, <4>2
      <3>2. CASE <<x[1], x[2]>> # k
        BY <1>9, <2>3, <3>2
      <3> QED BY <3>1, <3>2
    <2> QED BY <1>2, <2>1, <2>2, <2>3 DEF Reads
  <1>15. ASSUME NEW f \in rec.found
         PROVE  f.from[1] = Req(c).tenant /\ f.read - f.entry.last < TTL /\ Written(f.entry)'
    <2>1. CASE f \in call[c].found
      BY <1>2, <1>11, <2>1, WritesKept DEF Reads
    <2>2. CASE f \in read
      <3>1. PICK e \in ToSet(q) : f = [entry |-> e, from |-> k, read |-> clock]
        BY <2>2
      <3>2. f.from = k /\ f.read = clock /\ f.entry = e
        BY <3>1
      <3>3. k[1] = Req(c).tenant
        BY <1>1, <1>2 DEF Reads
      <3>4. Written(e)'
        BY <1>6, <1>11, WritesKept
      <3> QED BY <1>4, <3>1, <3>2, <3>3, <3>4
    <2> QED BY <1>9, <2>1, <2>2
  <1>16. Reads(c)'
    <2>1. IsFiniteSet(rec.found)
      <3>1. IsFiniteSet(call[c].found)
        BY <1>2 DEF Reads
      <3> HIDE DEF read
      <3>2. IsFiniteSet(call[c].found \cup read)
        BY <1>7, <3>1, FS_Union
      <3> QED BY <1>9, <3>2
    <2>2. \A j \in rec.unread : j[1] = Req(c).tenant
      BY <1>2, <1>9 DEF Reads
    <2> QED BY <1>2, <1>11, <1>13, <1>14, <1>15, <2>1, <2>2 DEF Reads
  <1>17. CallInv(c)'
    BY <1>13, <1>16 DEF CallInv
  <1>18. \A d \in Calls \ {c} : CallInv(d)'
    BY <1>11, <1>12, QuietCall
  <1>19. ItemsTyped' /\ RegistersItself' /\ StaysMarked'
    BY <1>1, <1>12, ItemsUnchanged
  <1> QED BY <1>11, <1>12, <1>17, <1>18, <1>19, Combine

\* The list the budget is filled from: the candidates of Zone 1, in order, and
\* the procedure of the task.
WorkingOf(q) == [i \in DOMAIN q |-> [item |-> q[i].entry.item, zone |-> "working",
                                     tokens |-> q[i].entry.tokens]]

\* That list is well formed, and the candidates are in it.
LEMMA BudgetIsFilledFrom ==
  ASSUME TypeOK, NEW c \in Calls, Req(c) \in Assemblies,
         NEW q \in Seq([entry : Entries, from : SessionKeys, read : 0..clock])
  PROVE  /\ Costed(WorkingOf(q) \o Procedure(Req(c))) /\ DOMAIN q = 1..Len(q)
         /\ \A i \in 1..Len(q) :
              /\ i \in 1..Len(WorkingOf(q) \o Procedure(Req(c)))
              /\ (WorkingOf(q) \o Procedure(Req(c)))[i]
                   = [item |-> q[i].entry.item, zone |-> "working",
                      tokens |-> q[i].entry.tokens]
  <1> DEFINE w == WorkingOf(q)
             p == Procedure(Req(c))
             N == Len(q)
  <1>1. /\ N \in Nat /\ DOMAIN q = 1..N
        /\ \A i \in 1..N : q[i] \in [entry : Entries, from : SessionKeys, read : 0..clock]
    BY LenProperties, ElementOfSeq
  <1>2. \A i \in 1..N : q[i].entry.item \in Names /\ q[i].entry.tokens \in Nat
    BY <1>1 DEF Entries
  <1>3. w \in Seq(Chosen) /\ Len(w) = N
    <2>1. w \in [1..N -> Chosen]
      BY <1>1, <1>2 DEF WorkingOf, Chosen, Registered
    <2>2. w \in Seq(Chosen)
      BY <1>1, <2>1, SeqDef
    <2>3. DOMAIN w = 1..Len(w) /\ Len(w) \in Nat /\ DOMAIN w = 1..N
      BY <2>1, <2>2, LenProperties
    <2> HIDE DEF w, N
    <2>4. (N # 0 => N \in 1..N) /\ (Len(w) # 0 => Len(w) \in 1..Len(w))
      BY <1>1, <2>3
    <2>5. N <= Len(w) /\ Len(w) <= N
      BY <1>1, <2>3, <2>4
    <2>6. N \in Nat /\ Len(w) \in Nat
      BY <1>1, <2>3
    <2>7. Len(w) = N
      BY <2>5, <2>6
    <2> QED BY <2>2, <2>7
  <1>4. \A i \in 1..N : w[i] = [item |-> q[i].entry.item, zone |-> "working",
                                tokens |-> q[i].entry.tokens]
    BY <1>1 DEF WorkingOf
  <1>5. p \in Seq(Chosen)
    <2>1. Req(c).hash \in Names
      BY DEF Assemblies, Names
    <2>2. [item |-> Req(c).hash, zone |-> "procedural", tokens |-> 1] \in Chosen
      BY <2>1 DEF Chosen, Registered
    <2> QED BY <2>2, EmptySeq DEF Procedure
  <1> HIDE DEF w, p
  <1>6. /\ w \o p \in Seq(Chosen) /\ Len(w \o p) = Len(w) + Len(p) /\ Len(p) \in Nat
        /\ \A i \in 1..Len(w) + Len(p) : (w \o p)[i] = IF i <= Len(w) THEN w[i]
                                                      ELSE p[i - Len(w)]
    BY <1>3, <1>5, ConcatProperties, LenProperties
  <1>7. ASSUME NEW i \in 1..N
        PROVE  i \in 1..Len(w \o p) /\ (w \o p)[i] = w[i]
    BY <1>1, <1>3, <1>6
  <1> QED BY <1>1, <1>4, <1>6, <1>7 DEF w, p, Costed

\* Every entry kept was found; it was taken, or max_items were; and what was
\* taken is chosen unless it does not fit.
LEMMA BuildStep ==
  ASSUME IInv, NEW c \in Calls, Build(c)
  PROVE  IInv'
  <1> DEFINE found == call[c].found
             max == Req(c).max
             budget == Req(c).budget
  <1>1. /\ At(c, "working") /\ call[c].unread = {}
        /\ UNCHANGED <<clock, zone1, opened, zones, items, history>>
    BY DEF Build
  <1> DEFINE list(q) == WorkingOf(q) \o Procedure(Req(c))
             result(q) == [items |-> Fill(list(q), budget), working |-> Len(q),
                           degraded |-> ~(Req(c).zones \subseteq Registered)]
             rec(q) == [Idle EXCEPT !.pc = "assembled", !.req = Req(c),
                                    !.result = result(q)]
  <1>2. PICK q \in Candidates(found, max) : call' = [call EXCEPT ![c] = rec(q)]
    BY DEF Build, WorkingOf
  <1>3. CallsTyped /\ Reads(c) /\ TypeOK
    BY <1>1, Parts DEF IInv, CallInv
  <1>4. Req(c) \in Assemblies /\ max \in Nat /\ budget \in Nat
    BY <1>3 DEF Reads, Assemblies
  <1>5. /\ found \subseteq [entry : Entries, from : SessionKeys, read : 0..clock]
        /\ IsFiniteSet(found)
    BY <1>3 DEF CallsTyped, Records, Reads
  <1>6. /\ q \in Seq(found)
        /\ Len(q) = max \/ \A f \in found : \E i \in 1..Len(q) : q[i] = f
    BY <1>2, <1>4, <1>5, CandidatesFacts
  <1>7. /\ Costed(list(q)) /\ Len(q) \in Nat
        /\ \A i \in 1..Len(q) :
             /\ i \in 1..Len(list(q))
             /\ list(q)[i] = [item |-> q[i].entry.item, zone |-> "working",
                              tokens |-> q[i].entry.tokens]
    <2>1. q \in Seq([entry : Entries, from : SessionKeys, read : 0..clock])
      BY <1>5, <1>6, SeqMonotonic
    <2>2. Len(q) \in Nat
      BY <2>1, LenProperties
    <2> QED BY <1>3, <1>4, <2>1, <2>2, BudgetIsFilledFrom
  <1> HIDE DEF list
  <1> DEFINE chosen == Fill(list(q), budget)
  <1>8. /\ Costed(chosen) /\ TokensOf(chosen) \in Nat
        /\ \A m \in 1..Len(list(q)) : \/ list(q)[m] \in ToSet(chosen)
                                      \/ TokensOf(chosen) + list(q)[m].tokens > budget
    BY <1>4, <1>7, FillLeavesNothingThatFits
  <1>9. rec(q) \in Records' /\ rec(q).req = Req(c) /\ rec(q).pc = "assembled"
        /\ rec(q).result = result(q)
    <2>1. result(q) \in Results
      BY <1>7, <1>8 DEF Results, Costed
    <2> HIDE DEF result
    <2>2. rec(q) \in Records'
      BY <1>4, <2>1 DEF Idle, Records, Pcs
    <2> QED BY <2>2 DEF Idle
  <1>10. result(q).items = chosen /\ result(q).working = Len(q)
    OBVIOUS
  <1> HIDE DEF chosen, result, rec
  <1>11. /\ CallsTyped' /\ RequestsKept /\ call'[c] = rec(q)
         /\ \A d \in Calls \ {c} : call'[d] = call[d]
    <2>1. clock' = clock /\ opened \subseteq opened'
      BY <1>1
    <2> QED BY <1>2, <1>9, <2>1, CallMoves
  <1>12. /\ MemoryTyped' /\ HoldsWrites'
         /\ Remembers /\ \A d \in Calls : LosesNothing(d)
    BY <1>1, <1>11, MemoryUnchanged DEF history
  <1>13. Req(c)' = Req(c) /\ \A x : At(c, x)' <=> x = "assembled"
    BY <1>9, <1>11 DEF Req, At
  <1>14. ASSUME NEW k \in kept[c]
         PROVE  \/ \E i \in ToSet(chosen) : i.item = k[3] /\ i.zone = "working"
                \/ Len(q) = max
                \/ \E d \in Calls : /\ IsWrite(d)' /\ ItemOf(d)' = k[3]
                                    /\ Tokens[d] > budget - TokensOf(chosen)
    <2> SUFFICES ASSUME Len(q) # max
                 PROVE  \/ \E i \in ToSet(chosen) : i.item = k[3] /\ i.zone = "working"
                        \/ \E d \in Calls : /\ IsWrite(d)' /\ ItemOf(d)' = k[3]
                                            /\ Tokens[d] > budget - TokensOf(chosen)
      OBVIOUS
    <2>1. PICK f \in found : f.entry.item = k[3]
      BY <1>1, <1>3 DEF Reads
    <2>2. PICK i \in 1..Len(q) : q[i] = f
      BY <1>6, <2>1
    <2>3. /\ i \in 1..Len(list(q)) /\ list(q)[i].item = k[3]
          /\ list(q)[i].zone = "working" /\ list(q)[i].tokens = f.entry.tokens
      <3>1. /\ i \in 1..Len(list(q))
            /\ list(q)[i] = [item |-> f.entry.item, zone |-> "working",
                             tokens |-> f.entry.tokens]
        BY <1>7, <2>2
      <3> QED BY <2>1, <3>1
    <2>4. CASE list(q)[i] \in ToSet(chosen)
      BY <2>3, <2>4
    <2>5. CASE TokensOf(chosen) + f.entry.tokens > budget
      <3>1. PICK d \in Calls : IsWrite(d) /\ ItemOf(d) = k[3] /\ Tokens[d] = f.entry.tokens
        BY <1>3, <2>1 DEF Reads, Written
      <3>2. IsWrite(d)' /\ ItemOf(d)' = k[3]
        BY <1>11, <3>1, WritesKept
      <3>3. Tokens[d] \in Nat
        BY ApiAssumption
      <3>4. Tokens[d] > budget - TokensOf(chosen)
        BY <1>4, <1>8, <2>5, <3>1, <3>3
      <3> QED BY <3>2, <3>4
    <2> QED BY <1>8, <2>3, <2>4, <2>5
  <1>15. CallInv(c)'
    <2>1. kept'[c] = kept[c]
      BY <1>1 DEF history
    <2>2. call'[c].result.items = chosen /\ call'[c].result.working = Len(q)
      BY <1>9, <1>10, <1>11
    <2>3. Chose(c)'
      BY <1>13, <1>14, <2>1, <2>2 DEF Chose
    <2> QED BY <1>13, <2>3 DEF CallInv
  <1>16. \A d \in Calls \ {c} : CallInv(d)'
    BY <1>11, <1>12, QuietCall
  <1>17. ItemsTyped' /\ RegistersItself' /\ StaysMarked'
    BY <1>1, ItemsUnchanged DEF history
  <1> QED BY <1>11, <1>12, <1>15, <1>16, <1>17, Combine

-----------------------------------------------------------------------------
\* The invariant holds in every reachable state.
LEMMA Inductive == Spec => []IInv
  <1>1. ASSUME IInv, [Next]_vars PROVE IInv'
    <2>1. ASSUME NEW c \in Calls, NEW r \in Requests[c],
                 \/ WriteWorking(c, r) \/ WriteProcedural(c, r)
                 \/ AppendEpisode(c, r) \/ EpisodeFails(c, r)
                 \/ Read(c, r) \/ LookUp(c, r) \/ Delete(c, r) \/ NotFound(c, r)
                 \/ Assemble(c, r)
          PROVE  IInv'
      BY <1>1, <2>1, WriteWorkingStep, WriteZoneStep, ReadStep, LookUpStep,
         DeleteStep, AssembleStep
    <2>2. ASSUME NEW c \in Calls, Mirror(c) \/ Register(c) \/ PutBack(c) \/ Build(c)
          PROVE  IInv'
      BY <1>1, <2>2, MirrorStep, RegisterStep, PutBackStep, BuildStep
    <2>3. CASE UNCHANGED vars
      <3>1. RequestsKept /\ UNCHANGED <<clock, zone1, opened, zones, items, call, history>>
        BY <2>3 DEF vars, RequestsKept
      <3>2. /\ MemoryTyped' /\ HoldsWrites'
            /\ Remembers /\ \A d \in Calls : LosesNothing(d)
        BY <1>1, <3>1, MemoryUnchanged DEF history
      <3>3. CallsTyped'
        BY <1>1, <3>1, Parts DEF IInv, CallsTyped, Records, Entries
      <3>4. \A c \in Calls : CallInv(c)'
        BY <1>1, <3>1, <3>2, QuietCall
      <3>5. ItemsTyped' /\ RegistersItself' /\ StaysMarked'
        BY <1>1, <3>1, ItemsUnchanged DEF history
      <3> QED BY <3>2, <3>3, <3>4, <3>5, Combine
    <2> QED BY <1>1, <2>1, <2>2, <2>3, TickStep, EvictExpiredStep, GetStep,
               ReadSessionStep DEF Next
  <1> QED BY <1>1, InitIInv, PTL DEF Spec

\* The state is well formed; in particular no session of Zone 1 exceeds the
\* capacity or holds an item twice, and its entries are in the order of their
\* last accesses, which the eviction loop relies on.
THEOREM ApiTypeCorrect == Spec => []TypeOK
  <1>1. IInv => TypeOK
    BY DEF IInv
  <1> QED BY <1>1, Inductive, PTL

-----------------------------------------------------------------------------
(***************************************************************************)
(* What a deletion buries stays buried.                                    *)
(***************************************************************************)
\* A step that neither registers, marks nor looks up anything.  No call that
\* was answered ever moves again.
LEMMA BuriedQuiet ==
  ASSUME Buried, UNCHANGED <<registry, dead, gone>>,
         \A d \in Calls : \/ call'[d] = call[d]
                          \/ ~At(d, "accepted") /\ call'[d].pc # "put_back"
  PROVE  Buried'
  <1> SUFFICES ASSUME NEW g \in gone, NEW o \in g.buried, o \in Calls,
                      Retired(o, g.key)
               PROVE  Retired(o, g.key)'
    BY DEF Buried
  <1>1. At(o, "accepted")' /\ registry'[g.key] # o
    BY DEF Retired, At
  <1>2. ASSUME NEW c \in Calls, At(c, "put_back")',
               <<Req(c).tenant, Req(c).item>>' = g.key
        PROVE  o \notin call'[c].obj
    <2>1. call'[c] = call[c]
      BY <1>2 DEF At
    <2> QED BY <1>2, <2>1 DEF Retired, At, Req
  <1> QED BY <1>1, <1>2 DEF Retired, Req, At

\* Steps of a request, or of Zone 1, that do not touch the registry.
LEMMA BuriedElsewhere ==
  ASSUME IInv, Buried,
         \/ Tick \/ UNCHANGED vars
         \/ \E k \in SessionKeys : EvictExpired(k) \/ \E n \in Names : Get(k, n)
         \/ \E c \in Calls : Mirror(c) \/ Build(c)
         \/ \E c \in Calls, k \in SessionKeys : ReadSession(c, k)
         \/ \E c \in Calls : \E r \in Requests[c] :
              \/ WriteWorking(c, r) \/ WriteProcedural(c, r)
              \/ AppendEpisode(c, r) \/ EpisodeFails(c, r)
              \/ Read(c, r) \/ NotFound(c, r) \/ Assemble(c, r)
  PROVE  Buried'
  <1>0. \A c \in Calls : call[c] \in Records /\ DOMAIN call = Calls
    BY Parts DEF IInv, CallsTyped
  <1>1. CASE \/ Tick \/ UNCHANGED vars
             \/ \E k \in SessionKeys : EvictExpired(k) \/ \E n \in Names : Get(k, n)
    <2>1. UNCHANGED <<registry, dead, gone, call>>
      BY <1>1 DEF Tick, vars, EvictExpired, Get, Zone1Becomes, items, history
    <2> QED BY <2>1, BuriedQuiet
  <1>2. ASSUME NEW c \in Calls, NEW rec, ~At(c, "accepted"), rec.pc # "put_back",
               call' = [call EXCEPT ![c] = rec], UNCHANGED <<registry, dead, gone>>
        PROVE  Buried'
    <2>1. \A d \in Calls : (d = c /\ call'[d] = rec) \/ call'[d] = call[d]
      BY <1>0, <1>2
    <2> QED BY <1>2, <2>1, BuriedQuiet
  <1>3. ASSUME NEW c \in Calls, Mirror(c)
        PROVE  Buried'
    <2> DEFINE rec == [call[c] EXCEPT !.pc = "register"]
    <2>1. /\ ~At(c, "accepted") /\ call' = [call EXCEPT ![c] = rec]
          /\ UNCHANGED <<registry, dead, gone>>
      BY <1>3 DEF Mirror, Goto, PutIn, Zone1Becomes, At, items
    <2>2. rec.pc = "register"
      BY <1>0 DEF Records
    <2> HIDE DEF rec
    <2> QED BY <1>2, <2>1, <2>2
  <1>4. ASSUME NEW c \in Calls, Build(c)
        PROVE  Buried'
    <2>1. /\ ~At(c, "accepted") /\ UNCHANGED <<registry, dead, gone>>
      BY <1>4 DEF Build, At, items, history
    <2>2. PICK result :
            call' = [call EXCEPT ![c] = [Idle EXCEPT !.pc = "assembled",
                                           !.req = Req(c), !.result = result]]
      BY <1>4 DEF Build
    <2> DEFINE rec == [Idle EXCEPT !.pc = "assembled", !.req = Req(c),
                         !.result = result]
    <2>3. rec.pc = "assembled"
      BY DEF Idle
    <2> HIDE DEF rec
    <2> QED BY <1>2, <2>1, <2>2, <2>3 DEF rec
  <1>5. ASSUME NEW c \in Calls, NEW k \in SessionKeys, ReadSession(c, k)
        PROVE  Buried'
    <2>1. /\ At(c, "working") /\ UNCHANGED <<registry, dead, gone>>
      BY <1>5 DEF ReadSession, Zone1Becomes, items
    <2>2. PICK found :
            call' = [call EXCEPT ![c].unread = @ \ {k}, ![c].found = @ \cup found]
      BY <1>5 DEF ReadSession
    <2>3. /\ \A d \in Calls \ {c} : call'[d] = call[d]
          /\ call'[c].pc = call[c].pc
      BY <1>0, <2>2 DEF Records
    <2> QED BY <2>1, <2>3, BuriedQuiet DEF At
  <1>6. ASSUME NEW c \in Calls, NEW r \in Requests[c],
               \/ WriteWorking(c, r) \/ WriteProcedural(c, r)
               \/ AppendEpisode(c, r) \/ EpisodeFails(c, r)
               \/ Read(c, r) \/ NotFound(c, r)
        PROVE  Buried'
    <2>1. UNCHANGED <<registry, dead, gone>>
      BY <1>6 DEF WriteWorking, WriteProcedural, AppendEpisode, EpisodeFails,
                  Read, NotFound, PutIn, Zone1Becomes, items, history
    <2>2. PICK pc \in Pcs \ {"put_back"} : Begin(c, r, pc)
      BY <1>6 DEF WriteWorking, WriteProcedural, AppendEpisode, EpisodeFails,
                  Read, NotFound, Pcs
    <2> DEFINE rec == [Idle EXCEPT !.pc = pc, !.req = r]
    <2>3. /\ ~At(c, "accepted") /\ call' = [call EXCEPT ![c] = rec]
          /\ rec.pc = pc
      BY <2>2 DEF Begin, At, Idle
    <2> HIDE DEF rec
    <2> QED BY <1>2, <2>1, <2>3
  <1>7. ASSUME NEW c \in Calls, NEW r \in Requests[c], Assemble(c, r)
        PROVE  Buried'
    <2> DEFINE rec == [Idle EXCEPT !.pc = "working", !.req = r,
                                   !.unread = Unread(r)]
    <2>1. /\ ~At(c, "accepted") /\ call' = [call EXCEPT ![c] = rec]
          /\ UNCHANGED <<registry, dead, gone>>
      BY <1>7 DEF Assemble, At, items
    <2>2. rec.pc = "working"
      BY DEF Idle
    <2> HIDE DEF rec
    <2> QED BY <1>2, <2>1, <2>2
  <1> QED BY <1>1, <1>3, <1>4, <1>5, <1>6, <1>7

\* updateItem takes in hand the object that is registered, writeMemory
\* registers one that no deletion has seen, and what updateItem puts back it
\* has in hand: none of them is retired.
LEMMA BuriedAtRegistry ==
  ASSUME IInv, Buried, NEW c \in Calls,
         \/ \E r \in Requests[c] : LookUp(c, r)
         \/ Register(c) \/ PutBack(c)
  PROVE  Buried'
  <1>0. /\ CallsTyped /\ ItemsTyped
        /\ \A d \in Calls : call[d] \in Records /\ DOMAIN call = Calls
    BY Parts DEF IInv, CallsTyped
  <1>1. UNCHANGED <<dead, gone>> /\ ~At(c, "accepted")
    BY DEF LookUp, Register, PutBack, items, history, At
  <1>2. \A d \in Calls \ {c} : call'[d] = call[d]
    BY <1>0 DEF LookUp, Register, PutBack, Goto
  <1> SUFFICES ASSUME NEW g \in gone, NEW o \in g.buried, o \in Calls,
                      Retired(o, g.key)
               PROVE  Retired(o, g.key)'
    BY <1>1 DEF Buried
  <1>3. o # c /\ At(o, "accepted")'
    BY <1>1, <1>2 DEF Retired, At
  <1>4. ASSUME NEW d \in Calls \ {c}, At(d, "put_back")',
               <<Req(d).tenant, Req(d).item>>' = g.key
        PROVE  o \notin call'[d].obj
    BY <1>2, <1>4 DEF Retired, At, Req
  <1>5. ASSUME NEW r \in Requests[c], LookUp(c, r)
        PROVE  Retired(o, g.key)'
    <2> DEFINE k == <<r.tenant, r.item>>
               rec == [Idle EXCEPT !.pc = "put_back", !.req = r,
                                   !.obj = {registry[k]}]
    <2>1. call'[c] = rec /\ UNCHANGED registry
      BY <1>0, <1>5 DEF LookUp, items
    <2>2. rec.req = r /\ rec.obj = {registry[k]}
      BY DEF Idle
    <2> HIDE DEF rec
    <2>3. <<Req(c).tenant, Req(c).item>>' = k /\ call'[c].obj = {registry[k]}
      BY <2>1, <2>2 DEF Req
    <2>4. registry'[g.key] # o
      BY <2>1 DEF Retired
    <2> HIDE DEF k
    <2>5. ASSUME <<Req(c).tenant, Req(c).item>>' = g.key
          PROVE  o \notin call'[c].obj
      BY <2>1, <2>3, <2>4, <2>5
    <2> QED BY <1>3, <1>4, <2>4, <2>5 DEF Retired
  <1>6. CASE Register(c) \/ PutBack(c)
    <2>1. call'[c].pc = "accepted"
      BY <1>0, <1>6 DEF Register, PutBack, Goto, Records
    <2>2. registry'[g.key] # o
      <3>1. CASE Register(c)
        <4>1. \/ registry'[g.key] = c
              \/ registry'[g.key] = registry[g.key]
          <5>1. g.key \in DOMAIN registry
            BY DEF IInv, StaysMarked
          <5> QED BY <3>1, <5>1 DEF Register
        <4> QED BY <1>3, <4>1 DEF Retired
      <3>2. CASE PutBack(c)
        <4> DEFINE k == <<Req(c).tenant, Req(c).item>>
        <4>1. PICK p \in call[c].obj : registry' = [registry EXCEPT ![k] = p]
          BY <3>2 DEF PutBack
        <4>2. k = g.key => p # o
          BY <3>2, <4>1 DEF PutBack, Retired
        <4> HIDE DEF k
        <4>3. g.key \in DOMAIN registry /\ registry[g.key] # o
          BY DEF IInv, StaysMarked, Retired
        <4> QED BY <4>1, <4>2, <4>3
      <3> QED BY <1>6, <3>1, <3>2
    <2> QED BY <1>3, <1>4, <2>1, <2>2 DEF Retired, At
  <1> QED BY <1>5, <1>6

\* What a deletion buries was registered, is registered no more, or is marked,
\* and is in no update's hand.
LEMMA BuriedByDelete ==
  ASSUME IInv, Buried, NEW c \in Calls, NEW r \in Requests[c], Delete(c, r)
  PROVE  Buried'
  <1> DEFINE k == <<r.tenant, r.item>>
             under == (Objects(k) \ InHand(k)) \cup {registry[k]}
             rec == [Idle EXCEPT !.pc = "accepted", !.req = r]
  <1>0. /\ ItemsTyped /\ DOMAIN call = Calls
    BY Parts DEF IInv, CallsTyped
  <1>1. /\ UNCHANGED registry /\ At(c, "idle") /\ Visible(k)
        /\ call' = [call EXCEPT ![c] = rec]
        /\ dead' = dead \cup {registry[k]}
        /\ gone' = gone \cup {[key |-> k, buried |-> under]}
    BY DEF Delete, Begin
  <1>2. rec.pc = "accepted"
    BY DEF Idle
  <1> HIDE DEF rec
  <1>3. \A d \in Calls : d = c \/ call'[d] = call[d]
    BY <1>0, <1>1
  <1>4. call'[c].pc = "accepted" /\ ~At(c, "accepted")
    BY <1>0, <1>1, <1>2 DEF At
  <1>5. ASSUME NEW o \in Calls, NEW j, Retired(o, j)
        PROVE  Retired(o, j)'
    <2>1. At(o, "accepted")' /\ registry'[j] # o
      BY <1>1, <1>3, <1>4, <1>5 DEF Retired, At
    <2>2. ASSUME NEW d \in Calls, At(d, "put_back")',
                 <<Req(d).tenant, Req(d).item>>' = j
          PROVE  o \notin call'[d].obj
      <3>1. call'[d] = call[d]
        BY <1>3, <1>4, <2>2 DEF At
      <3> QED BY <1>5, <2>2, <3>1 DEF Retired, At, Req
    <2> QED BY <2>1, <2>2 DEF Retired, Req, At
  <1>6. registry[k] \in Calls
    BY <1>0, <1>1 DEF Visible, ItemsTyped
  <1>7. ASSUME NEW o \in under
        PROVE  o \in Calls /\ (o \in dead' \/ Retired(o, k)')
    <2>1. CASE o = registry[k]
      BY <1>1, <1>6, <2>1
    <2>2. CASE o # registry[k]
      <3>1. o \in Calls /\ Retired(o, k)
        BY <1>7, <2>2 DEF Objects, InHand, Retired
      <3> HIDE DEF k
      <3> QED BY <1>5, <3>1
    <2> QED BY <2>1, <2>2
  <1> HIDE DEF under, k
  <1> SUFFICES ASSUME NEW g \in gone', NEW o \in g.buried
               PROVE  o \in Calls /\ (o \in dead' \/ Retired(o, g.key)')
    BY DEF Buried
  <1>8. CASE g \in gone
    BY <1>1, <1>5, <1>8 DEF Buried
  <1>9. CASE g = [key |-> k, buried |-> under]
    BY <1>7, <1>9
  <1> QED BY <1>1, <1>8, <1>9

\* Every step keeps it.
LEMMA BuriedStep == IInv /\ Buried /\ [Next]_vars => Buried'
  BY BuriedElsewhere, BuriedAtRegistry, BuriedByDelete DEF Next

\* No read, update or late put_back brings a deleted item back that is named
\* after its write: the registry only ever maps its name to the object that the
\* deletion marks.  And none brings back, under any name, what a deletion has
\* buried: only writes answered later, and updates then under way that held an
\* object other than the marked one, can make a procedural item found again.
THEOREM DeletionIsFinal == Spec => []DeletedStaysDeleted
  <1>1. ASSUME IInv, Buried PROVE DeletedStaysDeleted
    <2> SUFFICES ASSUME NEW g \in gone, Visible(g.key)
                 PROVE  g.key[2] \in Hashes /\ registry[g.key] \notin g.buried
      BY DEF DeletedStaysDeleted
    <2>1. /\ g.key \in DOMAIN registry /\ registry[g.key] \notin dead
          /\ g.key[2] \in Calls => g.key[2] \in dead
          /\ g.key \in Tenants \X Names
      BY <1>1, Parts DEF IInv, StaysMarked, ItemsTyped, Visible
    <2>2. g.key[2] \notin Calls
      BY <1>1, <2>1 DEF IInv, RegistersItself
    <2>3. g.key[2] \in Hashes
      BY <2>1, <2>2 DEF Names
    <2>4. registry[g.key] \notin g.buried
      BY <1>1, <2>1 DEF Buried, Retired
    <2> QED BY <2>3, <2>4
  <1>2. Init => Buried
    BY DEF Init, Buried
  <1>3. IInv /\ Buried => DeletedStaysDeleted
    BY <1>1
  <1> QED BY <1>2, <1>3, BuriedStep, Inductive, PTL DEF Spec

\* An item whose write was answered before an assembly began, and which Zone 1
\* has not dropped, is in the result unless max_items came before it or it does
\* not fit; and Zone 1 gives an assembly no other tenant's entries, nor idle
\* ones.
THEOREM WritersReadTheirWrites == Spec => []ReadYourWrites
  <1>1. ASSUME IInv PROVE ReadYourWrites
    <2> SUFFICES ASSUME NEW c \in Calls
                 PROVE  /\ At(c, "working") => \A f \in call[c].found :
                             f.from[1] = Req(c).tenant /\ f.read - f.entry.last < TTL
                        /\ At(c, "assembled") => Chose(c)
      BY DEF ReadYourWrites, Chose, IsWrite
    <2>1. CallInv(c)
      BY <1>1 DEF IInv
    <2> QED BY <2>1 DEF CallInv, Reads
  <1> QED BY <1>1, Inductive, PTL
=============================================================================
