------------------------------- MODULE Metrics -------------------------------
(***************************************************************************)
(* MetricsRegistry (metrics.rs): counters that request threads bump one by *)
(* one, and a snapshot that reads them one by one.                         *)
(*                                                                         *)
(* The counters are atomics with Relaxed ordering, so another thread may   *)
(* see the increments of one recorder, and a snapshot may do its loads, in *)
(* any order.  The mutex around the latencies is what orders them: a       *)
(* recorder pushes its latency after its increments, and a snapshot looks  *)
(* at the latencies before its loads.                                      *)
(*                                                                         *)
(* A recorder is one request; it records its outcome at most once.         *)
(* Definitions whose name starts with Faulty are broken variants of the    *)
(* definition that follows them; no action uses one.                       *)
(***************************************************************************)
EXTENDS Naturals, FiniteSets, Sequences, Functions

CONSTANTS
    Requests,    \* the requests that record their outcome
    Latencies,   \* the milliseconds that a request can take
    NoSample     \* nothing recorded, read or observed yet

VARIABLES
    counter,      \* requests_total, _accepted, _rejected and backend_errors
    latencies,    \* latencies_ms, in the order of the pushes
    pool,         \* whether a pool reading has been stored
    recording,    \* recording[r]: the outcome r records and what is pending
    snapshot      \* a reader in MetricsRegistry::snapshot

metricVars == <<counter, latencies, pool, recording, snapshot>>

Counters == {"total", "accepted", "rejected", "backend_errors"}

Outcomes == {"accepted", "rejected", "backend_error"}

ASSUME MetricsAssumption ==
    /\ IsFiniteSet(Requests)
    /\ Latencies \subseteq Nat
    /\ NoSample \notin Nat
    /\ NoSample \notin Outcomes

Recording == [outcome : Outcomes \cup {NoSample},
              pending : SUBSET Counters, pushed : BOOLEAN]

Idle == [outcome |-> NoSample, pending |-> {}, pushed |-> FALSE]

\* `samples` is how many latencies there were: since they are never removed, it
\* stands for the percentile that is taken from them (SnapshotP95).  `quiet` is
\* history: no recorder was under way since the snapshot began.
Unread == [samples |-> NoSample, pool |-> NoSample,
           loaded |-> [c \in Counters |-> NoSample], quiet |-> FALSE]

MetricsInit ==
    /\ counter = [c \in Counters |-> 0]
    /\ latencies = <<>>
    /\ pool = FALSE
    /\ recording = [r \in Requests |-> Idle]
    /\ snapshot = Unread

-----------------------------------------------------------------------------
\* A backend error is counted as an error only, not as a rejected request.
FaultyIncrements(outcome) ==
    CASE outcome = "accepted" -> {"total", "accepted"}
      [] outcome = "rejected" -> {"total", "rejected"}
      [] outcome = "backend_error" -> {"backend_errors", "total"}

\* The counters that an outcome increments.
Increments(outcome) ==
    CASE outcome = "accepted" -> {"total", "accepted"}
      [] outcome = "rejected" -> {"total", "rejected"}
      [] outcome = "backend_error" -> {"backend_errors", "total", "rejected"}

UnderWay(r) == recording[r].outcome # NoSample /\ ~recording[r].pushed

Recorded(r) == recording[r].pushed

\* record_accepted, record_rejected, or record_backend_error followed by
\* record_rejected, is called.
StartRecording(r, outcome) ==
    /\ recording[r].outcome = NoSample
    /\ recording' = [recording EXCEPT
          ![r] = [outcome |-> outcome, pending |-> Increments(outcome), pushed |-> FALSE]]
    /\ snapshot' = [snapshot EXCEPT !.quiet = FALSE]
    /\ UNCHANGED <<counter, latencies, pool>>

\* The counter is decremented, as if it counted the requests in flight.
FaultyIncrement(r, c) ==
    /\ c \in recording[r].pending
    /\ counter' = [counter EXCEPT ![c] = @ - 1]
    /\ recording' = [recording EXCEPT ![r].pending = @ \ {c}]
    /\ UNCHANGED <<latencies, pool, snapshot>>

\* fetch_add(1, Relaxed) becomes visible.
Increment(r, c) ==
    /\ c \in recording[r].pending
    /\ counter' = [counter EXCEPT ![c] = @ + 1]
    /\ recording' = [recording EXCEPT ![r].pending = @ \ {c}]
    /\ UNCHANGED <<latencies, pool, snapshot>>

\* The latency is pushed without waiting for the increments.
FaultyPushLatency(r) ==
    /\ UnderWay(r)
    /\ \E latency \in Latencies : latencies' = Append(latencies, latency)
    /\ recording' = [recording EXCEPT ![r].pushed = TRUE]
    /\ UNCHANGED <<counter, pool, snapshot>>

\* The push waits until no other recorder is under way.
FaultyPushLatencyWaits(r) ==
    /\ UnderWay(r)
    /\ \A other \in Requests \ {r} : ~UnderWay(other)
    /\ recording[r].pending = {}
    /\ \E latency \in Latencies : latencies' = Append(latencies, latency)
    /\ recording' = [recording EXCEPT ![r].pushed = TRUE]
    /\ UNCHANGED <<counter, pool, snapshot>>

\* record_latency: the push, under the mutex that publishes the increments.
PushLatency(r) ==
    /\ UnderWay(r)
    /\ recording[r].pending = {}
    /\ \E latency \in Latencies : latencies' = Append(latencies, latency)
    /\ recording' = [recording EXCEPT ![r].pushed = TRUE]
    /\ UNCHANGED <<counter, pool, snapshot>>

\* set_pool_metrics
SetPoolMetrics ==
    /\ pool' = TRUE
    /\ UNCHANGED <<counter, latencies, recording, snapshot>>

-----------------------------------------------------------------------------
(* MetricsRegistry::snapshot and performance_profile.                      *)

\* sort_unstable: an ascending arrangement of the values.
Sorted(values) ==
    LET places == DOMAIN values
        order == CHOOSE p \in Bijection(places, places) :
                    \A i, j \in places : i < j => values[p[i]] <= values[p[j]]
    IN  [i \in places |-> values[order[i]]]

\* The index of a percentile in n sorted values, from 0: saturating_sub, so
\* that it would be 0 for none.
FaultyPercentileIndex(n, percent) == (n * percent) \div 100

PercentileIndex(n, percent) ==
    (IF n * percent = 0 THEN 0 ELSE n * percent - 1) \div 100

Percentile(values, percent) ==
    IF values = <<>> THEN NoSample
    ELSE Sorted(values)[PercentileIndex(Len(values), percent) + 1]

\* percentile_95 of the latencies that a snapshot has read.
SnapshotP95 == Percentile(SubSeq(latencies, 1, snapshot.samples), 95)

\* profile_from_latencies, but for the mean.
Profile(values) ==
    [min |-> IF values = <<>> THEN NoSample ELSE Sorted(values)[1],
     p50 |-> Percentile(values, 50),
     p95 |-> Percentile(values, 95),
     p99 |-> Percentile(values, 99),
     max |-> IF values = <<>> THEN NoSample ELSE Sorted(values)[Len(values)]]

\* The latencies are locked first, for the percentile; a finished snapshot
\* may be followed by another one.
ReadLatencies ==
    /\ snapshot = Unread \/ \A c \in Counters : snapshot.loaded[c] # NoSample
    /\ snapshot' = [Unread EXCEPT !.samples = Len(latencies),
                                  !.quiet = \A r \in Requests : ~UnderWay(r)]
    /\ UNCHANGED <<counter, latencies, pool, recording>>

\* The pool reading is copied under its own mutex.
ReadPool ==
    /\ snapshot.samples # NoSample
    /\ snapshot.pool = NoSample
    /\ snapshot' = [snapshot EXCEPT !.pool = pool]
    /\ UNCHANGED <<counter, latencies, pool, recording>>

\* load(Relaxed), in any order.
Load(c) ==
    /\ snapshot.pool # NoSample
    /\ snapshot.loaded[c] = NoSample
    /\ snapshot' = [snapshot EXCEPT !.loaded[c] = counter[c]]
    /\ UNCHANGED <<counter, latencies, pool, recording>>

RecordingStep(r) ==
    \/ \E c \in Counters : Increment(r, c)
    \/ PushLatency(r)

MetricsNext ==
    \/ \E r \in Requests :
          \/ \E outcome \in Outcomes : StartRecording(r, outcome)
          \/ RecordingStep(r)
    \/ SetPoolMetrics
    \/ ReadLatencies
    \/ ReadPool
    \/ \E c \in Counters : Load(c)

MetricsSpec == MetricsInit /\ [][MetricsNext]_metricVars

-----------------------------------------------------------------------------
\* Every variable has its type.
MetricsTypeOK ==
    /\ counter \in [Counters -> Nat]
    /\ latencies \in Seq(Latencies)
    /\ pool \in BOOLEAN
    /\ recording \in [Requests -> Recording]
    /\ snapshot \in [samples : Nat \cup {NoSample}, pool : BOOLEAN \cup {NoSample},
                     loaded : [Counters -> Nat \cup {NoSample}], quiet : BOOLEAN]

\* The recorders whose increment of a counter has been made.
Counted(c) ==
    {r \in Requests : /\ recording[r].outcome # NoSample
                       /\ c \in Increments(recording[r].outcome)
                       /\ c \notin recording[r].pending}

\* Every counter is the number of recorders that have incremented it, and
\* there is one latency for each that is done.
CountersCount ==
    /\ \A c \in Counters : counter[c] = Cardinality(Counted(c))
    /\ Len(latencies) = Cardinality({r \in Requests : Recorded(r)})

\* When no recorder is under way the counters add up: every request is
\* accepted or rejected, every backend error is also a rejection, and each
\* has its latency.
BalancedAtRest ==
    (\A r \in Requests : ~UnderWay(r)) =>
        /\ counter["total"] = counter["accepted"] + counter["rejected"]
        /\ counter["total"] = Len(latencies)
        /\ counter["backend_errors"] <= counter["rejected"]

SnapshotTaken == \A c \in Counters : snapshot.loaded[c] # NoSample

\* A snapshot never summarises the latency of a request that its counters
\* miss, however its loads interleave with the increments.
SnapshotCoversItsSamples ==
    SnapshotTaken =>
        /\ snapshot.samples <= snapshot.loaded["total"]
        /\ snapshot.samples <= snapshot.loaded["accepted"] + snapshot.loaded["rejected"]

\* A snapshot during which nothing was recorded is exact.
QuietSnapshotIsExact ==
    (SnapshotTaken /\ snapshot.quiet) =>
        /\ snapshot.loaded["total"] =
             snapshot.loaded["accepted"] + snapshot.loaded["rejected"]
        /\ snapshot.loaded["total"] = snapshot.samples
        /\ snapshot.loaded["backend_errors"] <= snapshot.loaded["rejected"]

\* v is the smallest value that at least percent of a hundred values do not
\* exceed.
IsPercentile(v, values, percent) ==
    LET Reached(bound) ==
            100 * Cardinality({i \in DOMAIN values : values[i] <= bound})
               >= percent * Len(values)
    IN  /\ \E i \in DOMAIN values : values[i] = v
        /\ Reached(v)
        /\ \A i \in DOMAIN values : values[i] < v => ~Reached(values[i])

\* Whatever the requests took and in whichever order they were recorded, the
\* percentiles of the profile are those of the nearest rank, between the
\* smallest and the largest latency; so is the one of a snapshot, for the
\* latencies that it has read.
ProfileIsByRank ==
    LET profile == Profile(latencies)
    IN  /\ snapshot.samples \notin {NoSample, 0} =>
              IsPercentile(SnapshotP95, SubSeq(latencies, 1, snapshot.samples), 95)
        /\ latencies # <<>> =>
            /\ IsPercentile(profile.p50, latencies, 50)
            /\ IsPercentile(profile.p95, latencies, 95)
            /\ IsPercentile(profile.p99, latencies, 99)
            /\ profile.min <= profile.p50 /\ profile.p99 <= profile.max
=============================================================================
