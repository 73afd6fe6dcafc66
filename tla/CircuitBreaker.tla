--------------------------- MODULE CircuitBreaker ---------------------------
(***************************************************************************)
(* The circuit breaker of the Postgres pool                                *)
(* (infrastructure/circuit_breaker.py) and the request dependency that     *)
(* drives it (get_pooled_connection in api/composition.py).  Every method  *)
(* of the breaker runs under its lock, so it is one step; between allow    *)
(* and the record of the outcome a request waits for the pool, at most     *)
(* AcquireTimeout, and the breaker changes state under it.                 *)
(*                                                                         *)
(* Time is kept as ages: of every acquisition, and of the last trip.       *)
(***************************************************************************)
EXTENDS Naturals, Sequences, FiniteSets

CONSTANTS Callers,        \* requests in progress at once
          Window,         \* window_size
          FailurePercent, \* failure_rate_threshold
          SlowPercent,    \* slow_call_rate_threshold
          SlowMultiplier, \* slow_call_multiplier
          BaselineSize,   \* latency_baseline_size
          MinSamples,     \* _MIN_BASELINE_SAMPLES
          Latencies,      \* the latencies a connect may take
          Probes,         \* half_open_probe_count
          BaseBackoff, MaxBackoff,
          MaxExponent,    \* the largest e for which float(2**e) is a float
          AcquireTimeout, \* POOL_ACQUIRE_TIMEOUT_SECONDS
          MaxTimeouts     \* bound: PoolTimeouts

VARIABLES state,     \* _state
          ring,      \* _ring: a latency, or Failure
          baseline,  \* _latency_baseline
          trips,     \* _trip_count, up to where the backoff overflows
          sinceTrip, \* age of _opened_at, up to MaxBackoff
          attempts,  \* _half_open_attempts
          successes, \* _half_open_successes
          lost,      \* history: probes of this HALF_OPEN without an outcome
          admitted,  \* admitted[c]: what request c is doing
          timeouts   \* PoolTimeouts so far

breakerVars == <<state, ring, baseline, trips, sinceTrip, attempts,
                 successes, lost, admitted, timeouts>>
results == <<ring, baseline>>

Failure == 0
Outcomes == Latencies \cup {Failure}
MaxTrips == MaxExponent + 2

Smaller(a, b) == IF a <= b THEN a ELSE b

\* _current_backoff_seconds_locked, for a trip count it does not overflow at.
Backoff(n) ==
  Smaller(BaseBackoff * 2 ^ (IF n = 0 THEN 0 ELSE n - 1), MaxBackoff)

ASSUME ConstantsAssumption ==
  /\ IsFiniteSet(Callers)
  /\ {Window, Probes} \subseteq Nat \ {0}
  /\ {FailurePercent, SlowPercent, SlowMultiplier, BaselineSize, MinSamples,
      BaseBackoff, MaxBackoff, MaxExponent, AcquireTimeout, MaxTimeouts}
       \subseteq Nat
  /\ Latencies \subseteq Nat \ {0}

\* An acquisition ends, or times out, within the shortest backoff.
ASSUME TimingAssumption ==
  \A n \in 0 .. MaxExponent + 1 : Backoff(n) \in Nat
                                  /\ AcquireTimeout < Backoff(n)

\* The kind is history.  "closed" and "probe": admitted in the present CLOSED
\* or HALF_OPEN period; "late": the breaker has changed state since.
Kinds == {"none", "closed", "probe", "late"}
NoCall == [kind |-> "none", age |-> 0]
Acquiring(c) == admitted[c].kind # "none"

BreakerInit ==
  /\ state = "CLOSED"
  /\ ring = <<>> /\ baseline = <<>>
  /\ trips = 0 /\ sinceTrip = 0
  /\ attempts = 0 /\ successes = 0 /\ lost = 0
  /\ admitted = [c \in Callers |-> NoCall]
  /\ timeouts = 0

-----------------------------------------------------------------------------
(***************************************************************************)
(* allow, at the start of request c.  A refusal changes nothing.           *)
(***************************************************************************)
Admit(c, kind) == admitted' = [admitted EXCEPT ![c] = [kind |-> kind, age |-> 0]]

AllowClosed(c) ==
  /\ ~Acquiring(c) /\ state = "CLOSED"
  /\ Admit(c, "closed")
  /\ UNCHANGED <<state, results, trips, sinceTrip, attempts, successes,
                 lost, timeouts>>

\* Mutant: the backoff is not waited for.
BackoffIgnored == trips < MaxTrips

\* float(2**exponent) raises OverflowError once the exponent is too large.
BackoffElapsed == trips < MaxTrips /\ sinceTrip >= Backoff(trips)

\* Mutant: the request that half-opens is not counted as a probe.
AllowHalfOpensUncounted(c) ==
  /\ ~Acquiring(c) /\ state = "OPEN" /\ BackoffElapsed
  /\ state' = "HALF_OPEN"
  /\ attempts' = 0 /\ successes' = 0 /\ lost' = 0
  /\ Admit(c, "probe")
  /\ UNCHANGED <<results, trips, sinceTrip, timeouts>>

\* Mutant: the attempts of the previous HALF_OPEN are kept.
AllowHalfOpensKeepsAttempts(c) ==
  /\ ~Acquiring(c) /\ state = "OPEN" /\ BackoffElapsed
  /\ state' = "HALF_OPEN"
  /\ attempts' = IF attempts = 0 THEN 1 ELSE attempts
  /\ successes' = 0 /\ lost' = 0
  /\ Admit(c, "probe")
  /\ UNCHANGED <<results, trips, sinceTrip, timeouts>>

\* The request that finds the backoff elapsed is the first probe.
AllowHalfOpens(c) ==
  /\ ~Acquiring(c) /\ state = "OPEN" /\ BackoffElapsed
  /\ state' = "HALF_OPEN"
  /\ attempts' = 1 /\ successes' = 0 /\ lost' = 0
  /\ Admit(c, "probe")
  /\ UNCHANGED <<results, trips, sinceTrip, timeouts>>

\* Mutant: off by one.
AllowOneMoreProbe(c) ==
  /\ ~Acquiring(c) /\ state = "HALF_OPEN" /\ attempts <= Probes
  /\ attempts' = attempts + 1
  /\ Admit(c, "probe")
  /\ UNCHANGED <<state, results, trips, sinceTrip, successes, lost, timeouts>>

AllowProbe(c) ==
  /\ ~Acquiring(c) /\ state = "HALF_OPEN" /\ attempts < Probes
  /\ attempts' = attempts + 1
  /\ Admit(c, "probe")
  /\ UNCHANGED <<state, results, trips, sinceTrip, successes, lost, timeouts>>

(***************************************************************************)
(* The window and the baseline.                                            *)
(***************************************************************************)
\* deque.append with maxlen.
Bounded(s, e, max) == IF Len(s) < max THEN Append(s, e)
                      ELSE IF s = <<>> THEN s ELSE Append(Tail(s), e)

\* _push_to_ring_locked: a success that leaves a full window is a sample.
RingWith(o) == Bounded(ring, o, Window)
BaselineWith(o) ==
  IF Len(ring) = Window /\ Head(ring) # Failure
    THEN Bounded(baseline, Head(ring), BaselineSize)
    ELSE baseline

\* _p99_latency_locked: the ceil(0.99 n)-th smallest of the n samples.
P99(samples) ==
  LET rank == Len(samples) - Len(samples) \div 100
      UpTo(v) == Cardinality({k \in DOMAIN samples : samples[k] <= v})
  IN  CHOOSE v \in Latencies :
        /\ rank <= UpTo(v)
        /\ \A w \in Latencies : rank <= UpTo(w) => v <= w

\* _evaluate_locked, once the outcome o is in the window.
TripsOn(o) ==
  LET window == RingWith(o)
      samples == BaselineWith(o)
      Share(S) == 100 * Cardinality(S)
  IN  /\ Len(window) = Window
      /\ \/ Share({k \in DOMAIN window : window[k] = Failure})
              >= FailurePercent * Window
         \/ /\ Len(samples) >= MinSamples
            /\ Share({k \in DOMAIN window :
                        window[k] > SlowMultiplier * P99(samples)})
                 >= SlowPercent * Window

(***************************************************************************)
(* record_success and record_failure with the outcome o of request c, at   *)
(* the end of its acquisition.  The breaker does not know in which of its  *)
(* states it let the request in.                                           *)
(***************************************************************************)
Finish(c) == admitted' = [admitted EXCEPT ![c] = NoCall]

\* The record of c changes the state: the other calls are late from now on.
FinishAndLeave(c) ==
  admitted' = [d \in Callers |->
                 IF d = c \/ ~Acquiring(d) THEN NoCall
                                           ELSE [admitted[d] EXCEPT !.kind = "late"]]

\* CLOSED, or OPEN and the call is late: the window moves on.
Record(c, o) ==
  /\ Acquiring(c) /\ state # "HALF_OPEN" /\ ~TripsOn(o)
  /\ ring' = RingWith(o) /\ baseline' = BaselineWith(o)
  /\ Finish(c)
  /\ UNCHANGED <<state, trips, sinceTrip, attempts, successes, lost, timeouts>>

\* _trip_locked: by the window, or by a failure while HALF_OPEN.
Trip(c, o) ==
  /\ Acquiring(c)
  /\ IF state = "HALF_OPEN" THEN o = Failure ELSE TripsOn(o)
  /\ state' = "OPEN"
  /\ trips' = Smaller(trips + 1, MaxTrips) /\ sinceTrip' = 0
  /\ ring' = <<>> /\ baseline' = BaselineWith(o)
  /\ FinishAndLeave(c)
  /\ UNCHANGED <<attempts, successes, lost, timeouts>>

\* A success while HALF_OPEN that is not the last one needed.
CountProbe(c, o) ==
  /\ Acquiring(c) /\ state = "HALF_OPEN" /\ o # Failure
  /\ successes + 1 < Probes /\ successes' = successes + 1
  /\ ring' = RingWith(o) /\ baseline' = BaselineWith(o)
  /\ Finish(c)
  /\ UNCHANGED <<state, trips, sinceTrip, attempts, lost, timeouts>>

\* _close_locked: the last one.
Close(c, o) ==
  /\ Acquiring(c) /\ state = "HALF_OPEN" /\ o # Failure
  /\ successes + 1 >= Probes /\ successes' = successes + 1
  /\ state' = "CLOSED"
  /\ trips' = 0 /\ sinceTrip' = 0
  /\ ring' = <<>> /\ baseline' = BaselineWith(o)
  /\ FinishAndLeave(c)
  /\ UNCHANGED <<attempts, lost, timeouts>>

\* PoolTimeout, the pool's answer after AcquireTimeout, is not recorded.
PoolTimeout(c) ==
  /\ Acquiring(c) /\ admitted[c].age = AcquireTimeout
  /\ timeouts < MaxTimeouts /\ timeouts' = timeouts + 1
  /\ lost' = IF admitted[c].kind = "probe" THEN lost + 1 ELSE lost
  /\ Finish(c)
  /\ UNCHANGED <<state, results, trips, sinceTrip, attempts, successes>>

\* One unit of time: no acquisition lasts longer than AcquireTimeout.
TimePasses ==
  /\ \A c \in Callers : Acquiring(c) => admitted[c].age < AcquireTimeout
  /\ admitted' = [c \in Callers |->
                    IF Acquiring(c) THEN [admitted[c] EXCEPT !.age = @ + 1] ELSE NoCall]
  /\ sinceTrip' = IF state = "OPEN" THEN Smaller(sinceTrip + 1, MaxBackoff)
                                    ELSE sinceTrip
  /\ UNCHANGED <<state, results, trips, attempts, successes, lost, timeouts>>

Allow(c) == AllowClosed(c) \/ AllowHalfOpens(c) \/ AllowProbe(c)

Answer(c) == \E o \in Outcomes : \/ Record(c, o) \/ Trip(c, o)
                                 \/ CountProbe(c, o) \/ Close(c, o)

BreakerNext == \/ \E c \in Callers : Allow(c) \/ Answer(c) \/ PoolTimeout(c)
               \/ TimePasses

BreakerSpec == BreakerInit /\ [][BreakerNext]_breakerVars

\* Requests keep arriving and every acquisition ends; time passes.
FairSpec == /\ BreakerSpec
            /\ WF_breakerVars(TimePasses)
            /\ \A c \in Callers : /\ WF_breakerVars(Allow(c))
                                  /\ WF_breakerVars(Answer(c) \/ PoolTimeout(c))

-----------------------------------------------------------------------------
(***************************************************************************)
(* Properties.                                                             *)
(***************************************************************************)

\* The state is well formed; no more than Probes requests are let through in
\* a HALF_OPEN period, and no more successes counted.
BreakerTypeOK ==
  /\ state \in {"CLOSED", "OPEN", "HALF_OPEN"}
  /\ ring \in Seq(Outcomes) /\ Len(ring) <= Window
  /\ baseline \in Seq(Latencies) /\ Len(baseline) <= BaselineSize
  /\ trips \in 0 .. MaxTrips /\ sinceTrip \in 0 .. MaxBackoff
  /\ attempts \in 0 .. Probes /\ successes \in 0 .. Probes /\ lost \in Nat
  /\ admitted \in [Callers -> [kind : Kinds, age : 0 .. AcquireTimeout]]
  /\ timeouts \in 0 .. MaxTimeouts

\* Only the breaker's own probes decide about it: whatever is still being
\* acquired while it is HALF_OPEN was let in by this HALF_OPEN, so no outcome
\* of before the trip closes or re-opens it, though the breaker cannot tell.
OnlyProbesDecide ==
  state = "HALF_OPEN" => \A c \in Callers : admitted[c].kind \in {"none", "probe"}

\* Every probe slot is accounted for: it succeeded, is under way, or was lost
\* to a PoolTimeout.  So the breaker closes only after all Probes succeeded.
ProbesAccounted ==
  state = "HALF_OPEN" =>
    attempts = successes + lost
                 + Cardinality({c \in Callers : admitted[c].kind = "probe"})

\* No state lasts for ever under requests that keep coming: an OPEN breaker
\* lets a probe through unless its backoff overflows, and a HALF_OPEN one
\* closes or re-opens unless it lost a probe to a PoolTimeout.
BreakerMovesOn ==
  /\ state = "OPEN" ~> (state = "HALF_OPEN" \/ trips = MaxTrips)
  /\ state = "HALF_OPEN" ~> (state # "HALF_OPEN" \/ lost > 0)

\* A HALF_OPEN breaker closes or re-opens.
HalfOpenEnds == state = "HALF_OPEN" ~> state # "HALF_OPEN"
=============================================================================
